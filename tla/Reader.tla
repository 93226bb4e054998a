------------------------------- MODULE Reader -------------------------------
(***************************************************************************)
(* Reader: the loads of Loads, whose normalisation and expanders are those *)
(* of Documents and whose binder is the bindStruct of BindLevel.           *)
(***************************************************************************)
EXTENDS Loads, Documents, BindTypes

CONSTANTS
    StructType,      \* the type of the struct
    InnerTexts(_)    \* see Documents

\* encoding/json makes canonical nodes only, having been asked for json.Number.
ASSUME JSONAssumption ==
    \A d \in Decoder, c \in Content \cup {Blank} : \A docs \in Parsed(d, c) :
      Family[d] = "json" => \A i \in DOMAIN docs : IsCanonical(docs[i])

\* Node has the canonical nodes the struct is bound from.
ASSUME NodesOfTrees ==
    /\ StructType \in Types /\ StructType.kind = "struct"
    /\ \A e \in Envs : \A x \in DOMAIN e : e[x] \in STRING
    /\ \A d \in Decoder, c \in Content \cup {Blank}, e \in Envs : \A whole \in Nodes(Decoded(d, c)) :
         \A map \in Nodes(AndThen(Expansion(whole, e), section)) : \A k \in DOMAIN map : IsCanonical(map[k]) => map[k] \in Node

\* What a bind of a tree leaves in a struct that holds the value old.
BindTree(map, environment, old) ==
    LET r == bindStruct(map, StructType, old, <<>>, environment)
    IN [how |-> IF r.err = NoError THEN "loaded" ELSE r.err.kind, val |-> r.val]

-----------------------------------------------------------------------------
\* The state has its shape, and the tree of a load past its decoder holds the
\* canonical nodes only, whichever decoder it came from.
TreesHaveTypes ==
    /\ DOMAIN held \subseteq UNION {Keys(d) : d \in Decoder}
    /\ doc \in [Sources -> Content \cup {Blank, Gone}]
    /\ env \in Envs
    /\ pc \in [Loader -> {"idle", "read", "format", "lookup", "decode", "expand", "bind"}]
    /\ source \in [Loader -> Sources \cup {NoSource}]
    /\ from \in [Loader -> Content \cup {Blank}]
    /\ decoder \in [Loader -> Decoder \cup {NoDecoder}]
    /\ \A p \in Loader : IsCanonical(Object(tree[p])) /\ HasType(target[p], StructType)

\* Every text of a node, and every key.
Texts(node) ==
    CASE Is(node, "text") -> {node.text}
      [] Is(node, "object") -> DOMAIN node.object \cup UNION {InnerTexts(node.object[k]) : k \in DOMAIN node.object}
      [] Is(node, "anymap") -> DOMAIN node.anymap \cup UNION {InnerTexts(node.anymap[k]) : k \in DOMAIN node.anymap}
      [] Is(node, "array") -> UNION {InnerTexts(node.array[i]) : i \in DOMAIN node.array}
      [] OTHER -> {}

ReferencesIn(node) == Texts(node) \cap DOMAIN Reference

Unset(s, e) ==
    /\ Has(Reference[s], "var") /\ ~Has(Reference[s], "fallback")
    /\ Reference[s].var \in DOMAIN e => e[Reference[s].var] = ""

\* "with WithEnvStrict, a reference in a section that is not read is still an
\* error" (option.go:115): no load gets past a strict expander with a variable
\* unset anywhere in the content it read, in a document behind the first one
\* just as little as in another section.  (An expander before it that is not
\* strict leaves it nothing to refuse.)
StrictSeesTheWholeDocument ==
    [][\A p \in Loader : Moves(p, "expand", "bind") /\ Expanders # <<>> /\ Expanders[1].strict =>
         \A v \in ValuesRead(p) : \A s \in ReferencesIn(v) : ~Unset(s, env)]_vars

\* What is bound holds no reference any more, neither in a key nor in a value,
\* but what the environment or an escape has put there.
Literals == {Reference[s].literal : s \in {r \in DOMAIN Reference : Has(Reference[r], "literal")}}
NoReferenceIsBound ==
    \A p \in Loader : pc[p] = "bind" /\ Expanders # <<>> =>
      \E e \in Envs : ReferencesIn(Object(tree[p])) \subseteq {e[x] : x \in DOMAIN e} \cup Literals
=============================================================================
