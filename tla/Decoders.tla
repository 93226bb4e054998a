------------------------------ MODULE Decoders ------------------------------
(***************************************************************************)
(* decoder_json.go, decoder_yaml.go, decoder_toml.go: what readin makes of *)
(* the documents a parsing library finds in a content.                     *)
(***************************************************************************)
EXTENDS ConfigTrees, Sequences

CONSTANT Normal(_)    \* normalizeValue: the canonical node of what a library returns

\* The root of a configuration is an object.
Root(node) == IF Is(node, "object") THEN Done(node.object) ELSE Refuse("ErrNotConfigObject")

\* Nothing may stand behind a JSON document, which is canonical as it is parsed.
DecodeJSON(docs) == IF Len(docs) = 1 THEN Root(docs[1]) ELSE Refuse("parse")

\* The documents of a stream that have a value.
Valued(docs) == {i \in DOMAIN docs : docs[i] # Null}

\* Wrong: the documents behind the first one are not looked at.
DecodeFirstYAML(docs) ==
    IF Valued(docs) = {} THEN Done(EmptyTree)
    ELSE UNION {Root(Normal(docs[i])) : i \in {j \in Valued(docs) : \A k \in Valued(docs) : j <= k}}

\* A YAML stream may hold documents without a value beside the one that counts.
DecodeYAML(docs) ==
    IF Valued(docs) = {} THEN Done(EmptyTree)
    ELSE IF \E i, j \in Valued(docs) : i # j THEN Refuse("parse")
    ELSE UNION {Root(Normal(docs[i])) : i \in Valued(docs)}

\* A TOML document is always an object, as is what a decoder of the application
\* returns; the Reader normalises the latter.
DecodeOther(docs) == Root(Normal(docs[1]))

Decoding(family, docs) ==
    CASE family = "json" -> DecodeJSON(docs)
      [] family = "yaml" -> DecodeYAML(docs)
      [] family \in {"toml", "own"} -> DecodeOther(docs)
=============================================================================
