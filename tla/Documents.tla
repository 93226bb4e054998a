----------------------------- MODULE Documents -----------------------------
(***************************************************************************)
(* What becomes of a document between the parser and the binder: the       *)
(* normalisation of what a decoder returned and the expansion of           *)
(* references.                                                             *)
(*                                                                         *)
(* A text with a "$" in it is a text of DOMAIN Reference; Reference says   *)
(* what it is: [var |-> v], the same with a fallback text, or the literal  *)
(* text it stands for.                                                     *)
(*                                                                         *)
(* What recurs through a tree is defined for one node, and asks a constant *)
(* Inner... about the nodes in it, as ConfigValues does for types.         *)
(***************************************************************************)
EXTENDS ConfigTrees, Sequences

CONSTANTS
    Reference,    \* the texts with a "$"
    Expanders,    \* the chain of expanders, each [strict |-> BOOLEAN]
    InnerNormalize(_), InnerCanonical(_), InnerHasReference(_), InnerExpand(_,_,_),
    InnerVariables(_,_,_)    \* what expandVariables makes of a fallback

\* The texts that are handled before s is: its fallback, when that has a "$".
Within(s) == IF Has(Reference[s], "fallback") THEN {Reference[s].fallback} \cap DOMAIN Reference ELSE {}

\* A fallback is shorter than the text it is in, so that none is inside itself.
ASSUME ReferenceAssumption ==
    /\ "" \notin DOMAIN Reference
    /\ \A s \in DOMAIN Reference : Has(Reference[s], "literal") <=> ~Has(Reference[s], "var")
    /\ \A T \in SUBSET DOMAIN Reference :
         (\A s \in DOMAIN Reference : Within(s) \subseteq T => s \in T) => T = DOMAIN Reference

ASSUME ExpandersAssumption == Expanders \in Seq([strict : BOOLEAN])

(* normalize.go *)

normalizeMap(map) == [k \in DOMAIN map |-> InnerNormalize(map[k])]
normalizeSlice(items) == [i \in DOMAIN items |-> InnerNormalize(items[i])]

\* Wrong: the items of a list are taken as the decoder left them.
normalizeValueOutsideLists(value) ==
    CASE Is(value, "whole") -> [num |-> value.whole]
      [] Is(value, "nilslice") \/ Is(value, "nilmap") -> Null
      [] Is(value, "nilobject") -> Object(EmptyTree)
      [] Is(value, "anymap") -> [object |-> normalizeMap(value.anymap)]
      [] Is(value, "object") -> [object |-> normalizeMap(value.object)]
      [] OTHER -> value

\* Beside the canonical nodes a parsing library returns Go integers ("whole"),
\* maps with keys of any type ("anymap"), and nil maps and slices.  A nil
\* map[string]any ("nilobject") is rebuilt before it is compared with nil.
normalizeValue(value) ==
    CASE Is(value, "whole") -> [num |-> value.whole]
      [] Is(value, "nilslice") \/ Is(value, "nilmap") -> Null
      [] Is(value, "nilobject") -> Object(EmptyTree)
      [] Is(value, "anymap") -> [object |-> normalizeMap(value.anymap)]
      [] Is(value, "object") -> [object |-> normalizeMap(value.object)]
      [] Is(value, "array") -> [array |-> normalizeSlice(value.array)]
      [] OTHER -> value

IsCanonical(node) ==
    CASE Is(node, "object") -> \A k \in DOMAIN node.object : InnerCanonical(node.object[k])
      [] Is(node, "array") -> \A i \in DOMAIN node.array : InnerCanonical(node.array[i])
      [] OTHER -> DOMAIN node \cap {"null", "text", "num", "bool"} # {}

(* expander_env.go *)

\* A text with its reference replaced; {} when strict finds it unset.  A value
\* of the environment is not scanned again, a fallback is.
expandVariables(s, env, strict) ==
    IF s \notin DOMAIN Reference THEN {s}
    ELSE LET ref == Reference[s] IN
         CASE Has(ref, "literal") -> {ref.literal}
           [] Has(ref, "var") /\ ref.var \in DOMAIN env /\ env[ref.var] # "" -> {env[ref.var]}
           [] OTHER -> IF Has(ref, "fallback") THEN InnerVariables(ref.fallback, env, strict)
                       ELSE IF strict THEN {} ELSE {""}

\* Wrong: references in keys are not looked for.
hasReferenceInValues(node) ==
    CASE Is(node, "text") -> node.text \in DOMAIN Reference
      [] Is(node, "object") -> \E k \in DOMAIN node.object : InnerHasReference(node.object[k])
      [] Is(node, "array") -> \E i \in DOMAIN node.array : InnerHasReference(node.array[i])
      [] OTHER -> FALSE

hasReference(node) ==
    CASE Is(node, "text") -> node.text \in DOMAIN Reference
      [] Is(node, "object") -> \E k \in DOMAIN node.object : k \in DOMAIN Reference \/ InnerHasReference(node.object[k])
      [] Is(node, "array") -> \E i \in DOMAIN node.array : InnerHasReference(node.array[i])
      [] OTHER -> FALSE

\* Two keys may become the same one.  The second of them to come up is refused,
\* when the value of the first was not.
expandMap(tree, env, strict) ==
    LET name == [k \in DOMAIN tree |-> expandVariables(k, env, strict)]
        named == {k \in DOMAIN tree : name[k] # {}}
        value == [k \in DOMAIN tree |-> InnerExpand(tree[k], env, strict)]
        Into(n) == {k \in named : n \in name[k]}
        twice == {k \in named : Errors(value[k]) = {} /\ \E j \in named \ {k} : name[j] = name[k]}
        errors == (UNION {Errors(value[k]) : k \in named})
                  \cup (IF named = DOMAIN tree THEN {} ELSE Refuse("ErrEnvNotSet"))
                  \cup (IF twice = {} THEN {} ELSE Refuse("ErrDuplicateKey"))
    IN IF errors # {} THEN errors
       ELSE Done([n \in UNION {name[k] : k \in named} |->
              CHOOSE node \in UNION {Nodes(value[k]) : k \in Into(n)} : TRUE])

\* The items of a list come in order: the first that fails says why.
NextElement(given, acc, i) ==
    AndThen(acc, LAMBDA list : AndThen(InnerExpand(given.items[i], given.env, given.strict),
      LAMBDA n : Done(Append(list, n))))
ElementLoop == INSTANCE Iteration WITH Round <- NextElement

expandList(items, env, strict) ==
    ElementLoop!After([items |-> items, env |-> env, strict |-> strict], Done(<<>>), Len(items))

expandValue(node, env, strict) ==
    CASE Is(node, "text") ->
           LET to == expandVariables(node.text, env, strict) IN
           IF to = {} THEN Refuse("ErrEnvNotSet") ELSE UNION {Done(Text(s)) : s \in to}
      [] Is(node, "object") -> AndThen(expandMap(node.object, env, strict), LAMBDA map : Done(Object(map)))
      [] Is(node, "array") -> AndThen(expandList(node.array, env, strict), LAMBDA list : Done([array |-> list]))
      [] OTHER -> Done(node)

\* A tree without a "$" is returned as it is.
Expand(tree, env, strict) ==
    IF hasReference(Object(tree)) THEN expandMap(tree, env, strict) ELSE Done(tree)

\* Chain: each expander is given what the one before it returned.
NextExpander(env, acc, i) == AndThen(acc, LAMBDA n : Expand(n, env, Expanders[i].strict))
ExpanderLoop == INSTANCE Iteration WITH Round <- NextExpander

Chain(tree, env) == ExpanderLoop!After(env, Done(tree), Len(Expanders))
=============================================================================
