---------------------------- MODULE ConfigTrees ----------------------------
(***************************************************************************)
(* Config trees: their nodes, the keys of an object, and the outcomes of   *)
(* the stages a tree passes.                                               *)
(*                                                                         *)
(* A node is a record with one field, which names its shape: null, text,   *)
(* num (a whole json.Number), bool, array, object.  A tree is what is in   *)
(* an object: a function from keys to nodes.                               *)
(***************************************************************************)
EXTENDS Naturals

CONSTANT Canon        \* the KeyMatcher: Canon[k] is the canonical form of key k

Has(r, name) == name \in DOMAIN r
Is(v, shape) == Has(v, shape)

Null == [null |-> TRUE]
Text(s) == [text |-> s]
Object(tree) == [object |-> tree]

EmptyTree == [k \in {} |-> Null]

\* The keys of tree that match key: lookupKey refuses more than one.
Matches(tree, key) == {c \in DOMAIN tree : Canon[c] = Canon[key]}
Ambiguous(tree, key) == \E c, d \in Matches(tree, key) : c # d

\* A key that is there with a value; null reads as not there.
Given(tree, key) == \E c \in Matches(tree, key) : tree[c] # Null
ValueOf(tree, key) == tree[CHOOSE c \in Matches(tree, key) : TRUE]

(* A stage has a set of possible outcomes, [node |-> ...] or [err |-> ...].
   There is more than one only where the code ranges over a Go map, in random
   order, and stops at the first error. *)

Done(node) == {[node |-> node]}
Refuse(kind) == {[err |-> kind]}
Errors(outcomes) == {o \in outcomes : Has(o, "err")}
Nodes(outcomes) == {o.node : o \in outcomes \ Errors(outcomes)}

\* The next stage works on the node of this one, and an error stands.
AndThen(outcomes, Stage(_)) == Errors(outcomes) \cup UNION {Stage(n) : n \in Nodes(outcomes)}
=============================================================================
