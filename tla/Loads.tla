------------------------------- MODULE Loads -------------------------------
(***************************************************************************)
(* Goroutines that load configuration with one Reader, while other         *)
(* goroutines register decoders, other programs rewrite the files, and the *)
(* environment changes.                                                    *)
(*                                                                         *)
(* A load is a pipeline; one action stands for the code between two        *)
(* accesses to what it shares with the rest of the program: the source,    *)
(* the registry, and the environment (which it consults twice, to expand   *)
(* and to bind).  The registry is AtomicRegistry, which DecoderRegistry    *)
(* implements.  What the expanders and the binder make of a tree are       *)
(* parameters; Reader says what they are.                                  *)
(***************************************************************************)
EXTENDS FormatNames, Decoders, Integers

CONSTANTS
    Loader,         \* the goroutines that load
    Registrar,      \* the goroutines that register decoders
    Constructions,  \* what the registry was built from
    Extra,          \* the decoders given to WithDecoder, the oldest first
    Sources,        \* the sources
    NoSource,       \* a nil Source, and the source of FillDefault
    Kind,           \* Kind[s]: "file", "bytes", "stream" or "closer"
    FormatName,     \* FormatName[s]: Source.Format()
    Content,        \* what a source may hold
    Fresh,          \* Fresh[s]: the contents s may have when it is written
    Family,         \* Family[d]: "json", "yaml", "toml", or "own" for one of the application
    Parsed(_, _),   \* Parsed(d, c): the documents the library of d finds in c, {} when it refuses c
    Envs,           \* the environments
    Prefix,         \* the keys of the path given to WithPrefix
    Expansion(_, _),   \* Expansion(tree, e): the outcomes of the expander
    Filled(_, _, _),   \* Filled(tree, e, v): how a bind into v ends, and the value it leaves
    ZeroTarget      \* a struct nothing was loaded into

\* Contents that are no document: no bytes at all, and a read that fails.
Blank == "blank"
Gone == "gone"

ASSUME LoadsAssumption ==
    /\ Loader \cap Registrar = {}
    /\ NoSource \notin Sources
    /\ Fresh \in [Sources -> SUBSET Content]
    /\ Extra \in Seq(Decoder)
    /\ Prefix \in Seq(DOMAIN Canon)

\* A library finds a sequence of documents, always the same one in a content,
\* and a TOML or an application's decoder finds one.
ASSUME ParsedAssumption ==
    /\ Family \in [Decoder -> {"json", "yaml", "toml", "own"}]
    /\ \A d \in Decoder, c \in Content \cup {Blank} : \A docs \in Parsed(d, c) :
         /\ Parsed(d, c) = {docs}
         /\ DOMAIN docs = 1..Len(docs)
         /\ Family[d] \in {"toml", "own"} => Len(docs) = 1

\* A nil becomes no object, and an empty tree has nothing to expand.
ASSUME StagesAssumption ==
    /\ ~Is(Normal(Null), "object")
    /\ \A e \in Envs : Expansion(EmptyTree, e) = Done(EmptyTree)

VARIABLES
    held, unregistered, status, call, result,  \* AtomicRegistry
    doc,      \* doc[s]: what reading s would return now
    env,      \* the environment
    pc,       \* pc[p]: the stage the load of p is at
    source,   \* source[p]: the source of the load
    from,     \* from[p]: the content it read
    decoder,  \* decoder[p]: the decoder it found
    tree,     \* tree[p]: the tree it has so far
    target,   \* target[p]: the struct it fills
    outcome   \* outcome[p]: how its last load ended

registryVars == <<held, unregistered, status, call, result>>
loadVars == <<pc, source, from, decoder, tree, target, outcome>>
vars == <<registryVars, doc, env, loadVars>>

LookupNames == {FormatName[s] : s \in Sources}
Registry == INSTANCE AtomicRegistry WITH Proc <- Loader \cup Registrar

Init ==
    /\ Registry!Init /\ unregistered \in Constructions
    /\ doc \in [Sources -> Content] /\ \A s \in Sources : doc[s] \in Fresh[s]
    /\ env \in Envs
    /\ pc = [p \in Loader |-> "idle"]
    /\ source = [p \in Loader |-> NoSource]
    /\ from = [p \in Loader |-> Blank]
    /\ decoder = [p \in Loader |-> NoDecoder]
    /\ tree = [p \in Loader |-> EmptyTree]
    /\ target = [p \in Loader |-> ZeroTarget]
    /\ outcome = [p \in Loader |-> "none"]

Goto(p, at, to) ==
    /\ pc[p] = at
    /\ pc' = [pc EXCEPT ![p] = to]

\* The load of p ends, and what it read and built is dropped.
End(p, at, how) ==
    /\ Goto(p, at, "idle")
    /\ outcome' = [outcome EXCEPT ![p] = how]
    /\ from' = [from EXCEPT ![p] = Blank]
    /\ tree' = [tree EXCEPT ![p] = EmptyTree]

(* Load *)

Load(p) ==
    \E s \in Sources :
      /\ unregistered = <<>>
      /\ Goto(p, "idle", "read")
      /\ source' = [source EXCEPT ![p] = s]
      /\ decoder' = [decoder EXCEPT ![p] = NoDecoder]
      /\ outcome' = [outcome EXCEPT ![p] = "none"]
      /\ UNCHANGED <<registryVars, doc, env, from, tree, target>>

\* A nil source is refused.
LoadNil(p) ==
    /\ End(p, "idle", "ErrNilSource")
    /\ UNCHANGED <<registryVars, doc, env, source, decoder, target>>

\* FillDefault is Load with an empty tree, whatever the prefix.
FillDefault(p) ==
    /\ Goto(p, "idle", "bind")
    /\ source' = [source EXCEPT ![p] = NoSource]
    /\ tree' = [tree EXCEPT ![p] = EmptyTree]
    /\ decoder' = [decoder EXCEPT ![p] = NoDecoder]
    /\ outcome' = [outcome EXCEPT ![p] = "none"]
    /\ UNCHANGED <<registryVars, doc, env, from, target>>

\* What a read may leave in the source.  A stream is at its end, unless the read
\* failed: then the rest of it is still there.  One that was closed cannot be
\* read again, or can when its Close does nothing.
RestOf(s) == IF doc[s] = Gone THEN Fresh[s] \cup {Blank, Gone} ELSE {Blank}
Left(s) ==
    CASE Kind[s] = "stream" -> RestOf(s)
      [] Kind[s] = "closer" -> RestOf(s) \cup {Gone}
      [] OTHER -> {doc[s]}

\* Closing a reader that can be closed may fail.
CanFailToClose(s) == Kind[s] = "closer"

Read(p) ==
    LET s == source[p] IN
    /\ Goto(p, "read", "format")
    /\ doc[s] # Gone
    /\ from' = [from EXCEPT ![p] = doc[s]]
    /\ \E c \in Left(s) : doc' = [doc EXCEPT ![s] = c]
    /\ UNCHANGED <<registryVars, env, source, decoder, tree, target, outcome>>

\* Nothing of what was read is kept when reading or closing fails.
ReadFails(p) ==
    LET s == source[p] IN
    /\ End(p, "read", "read")
    /\ doc[s] = Gone \/ CanFailToClose(s)
    /\ \E c \in Left(s) : doc' = [doc EXCEPT ![s] = c]
    /\ UNCHANGED <<registryVars, env, source, decoder, target>>

(* Reader.decoder: the extra decoders, then the registry *)

FormatKey(p) == normalizeFormat(FormatName[source[p]])
ExtraHits(p) == {i \in DOMAIN Extra : decoderMatchesKey(Extra[i], FormatKey(p))}

\* Wrong: an extra decoder is used only for what the registry does not know.
UsesExtraLast(p) == FormatKey(p) # EmptyName /\ ExtraHits(p) # {} /\ FormatKey(p) \notin DOMAIN held

UsesExtra(p) == FormatKey(p) # EmptyName /\ ExtraHits(p) # {}

FindExtra(p) ==
    /\ Goto(p, "format", "decode")
    /\ UsesExtra(p)
    /\ decoder' = [decoder EXCEPT ![p] = Extra[CHOOSE i \in ExtraHits(p) : \A j \in ExtraHits(p) : j <= i]]
    /\ UNCHANGED <<registryVars, doc, env, source, from, tree, target, outcome>>

AskRegistry(p) ==
    /\ Goto(p, "format", "lookup")
    /\ ~UsesExtra(p)
    /\ Registry!Invoke(p)
    /\ call'[p] = [op |-> "Lookup", format |-> FormatName[source[p]]]
    /\ UNCHANGED <<doc, env, source, from, decoder, tree, target, outcome>>

\* The registry answers at some instant in between.
RegistryAnswers(p) ==
    /\ Registry!Lookup(p)
    /\ UNCHANGED <<doc, env, loadVars>>

Found(p) ==
    /\ Goto(p, "lookup", "decode")
    /\ Registry!Return(p) /\ result[p].err = "none"
    /\ decoder' = [decoder EXCEPT ![p] = result[p].decoder]
    /\ UNCHANGED <<doc, env, source, from, tree, target, outcome>>

NotFound(p) ==
    /\ End(p, "lookup", result[p].err)
    /\ Registry!Return(p)
    /\ result[p].err # "none"
    /\ UNCHANGED <<doc, env, source, decoder, target>>

(* Decode: parse and normalise *)

\* The decoders of readin take a content without data for an empty document
\* and do not parse it.  One of the application is only asked to (decoder.go:21).
isBlank(d, c) == c = Blank /\ Family[d] # "own"

Decoded(d, c) ==
    IF isBlank(d, c) THEN Done(EmptyTree)
    ELSE IF Parsed(d, c) = {} THEN Refuse("parse")
    ELSE UNION {Decoding(Family[d], docs) : docs \in Parsed(d, c)}

\* A stage of the pipeline ends with one of its outcomes.
Stage(p, at, to, outcomes) ==
    \/ \E o \in Errors(outcomes) : End(p, at, o.err)
    \/ \E node \in Nodes(outcomes) :
         /\ Goto(p, at, to)
         /\ tree' = [tree EXCEPT ![p] = node]
         /\ UNCHANGED <<outcome, from>>

Decode(p) ==
    /\ pc[p] = "decode"
    /\ Stage(p, "decode", "expand", Decoded(decoder[p], from[p]))
    /\ UNCHANGED <<registryVars, doc, env, source, decoder, target>>

(* section: one level of the path after another.  Two keys that match, a key
   that is not there, a null, and anything that is not an object are no
   section. *)

\* Wrong: a section that is absent is an empty one.
LevelOrEmpty(map, key) ==
    IF Ambiguous(map, key) THEN Refuse("ErrDuplicateKey")
    ELSE IF Given(map, key) /\ Is(ValueOf(map, key), "object") THEN Done(ValueOf(map, key).object)
    ELSE Done(EmptyTree)

\* Wrong: takes any of the keys that match.
LevelOfFirstMatch(map, key) ==
    IF Given(map, key) /\ Is(ValueOf(map, key), "object") THEN Done(ValueOf(map, key).object)
    ELSE Refuse("ErrMissingSection")

Level(map, key) ==
    IF Ambiguous(map, key) THEN Refuse("ErrDuplicateKey")
    ELSE IF Given(map, key) /\ Is(ValueOf(map, key), "object") THEN Done(ValueOf(map, key).object)
    ELSE Refuse("ErrMissingSection")

LevelAt(path, outcomes, i) == AndThen(outcomes, LAMBDA map : Level(map, path[i]))
Levels == INSTANCE Iteration WITH Round <- LevelAt

section(map) == Levels!After(Prefix, Done(map), Len(Prefix))

\* Wrong: expands the section only.
ExpandSection(p) ==
    /\ Stage(p, "expand", "bind", AndThen(section(tree[p]), LAMBDA n : Expansion(n, env)))
    /\ UNCHANGED <<registryVars, doc, env, source, decoder, target>>

\* The section is taken after the expansion of the whole document.
ExpandAndNarrow(p) ==
    /\ Stage(p, "expand", "bind", AndThen(Expansion(tree[p], env), section))
    /\ UNCHANGED <<registryVars, doc, env, source, decoder, target>>

Bind(p) ==
    LET r == Filled(tree[p], env, target[p]) IN
    /\ End(p, "bind", r.how)
    /\ target' = [target EXCEPT ![p] = r.val]
    /\ UNCHANGED <<registryVars, doc, env, source, decoder>>

(* The rest of the program *)

Construct ==
    /\ Registry!Construct
    /\ UNCHANGED <<doc, env, loadVars>>

Register(q) ==
    /\ \/ Registry!Invoke(q) /\ call'[q].op = "Register"
       \/ Registry!Register(q)
       \/ Registry!Return(q)
    /\ UNCHANGED <<doc, env, loadVars>>

\* Only a file changes after the source was made.
Rewrite(s) ==
    /\ Kind[s] = "file"
    /\ \E c \in Fresh[s] \ {doc[s]} : doc' = [doc EXCEPT ![s] = c]
    /\ UNCHANGED <<registryVars, env, loadVars>>

Setenv ==
    /\ env' \in Envs \ {env}
    /\ UNCHANGED <<registryVars, doc, loadVars>>

-----------------------------------------------------------------------------
Start(p) == Load(p) \/ LoadNil(p) \/ FillDefault(p)

Step(p) ==
    \/ Read(p) \/ ReadFails(p) \/ FindExtra(p) \/ AskRegistry(p) \/ RegistryAnswers(p)
    \/ Found(p) \/ NotFound(p) \/ Decode(p) \/ ExpandAndNarrow(p) \/ Bind(p)

Next ==
    \/ Construct \/ Setenv
    \/ \E s \in Sources : Rewrite(s)
    \/ \E q \in Registrar : Register(q)
    \/ \E p \in Loader : Start(p) \/ Step(p)

Spec == Init /\ [][Next]_vars

-----------------------------------------------------------------------------
(* What must hold *)

\* A format means one decoder for good: two loads of sources with the same
\* format found the same one, whatever was registered between them.
OneDecoderPerFormat ==
    \A p, q \in Loader :
      /\ decoder[p] # NoDecoder /\ decoder[q] # NoDecoder
      /\ FormatKey(p) = FormatKey(q)
      => decoder[p] = decoder[q]

\* The nodes that the keys of the prefix lead to, each key written as it matches.
Below(path, nodes, i) ==
    UNION {{n.object[k] : k \in Matches(n.object, path[i])} : n \in {m \in nodes : Is(m, "object")}}
Paths == INSTANCE Iteration WITH Round <- Below
NodesAt(node) == Paths!After(Prefix, {node}, Len(Prefix))

Moves(p, at, to) == pc[p] = at /\ pc'[p] = to

\* The values of all the documents that p found in the content it read.
ValuesRead(p) == UNION {{docs[i] : i \in DOMAIN docs} :
                         docs \in IF isBlank(decoder[p], from[p]) THEN {} ELSE Parsed(decoder[p], from[p])}

\* "a prefix that matches nothing is reported as ErrMissingSection rather than
\* quietly loading no configuration at all" (option.go:108): a load that was
\* narrowed never reaches the binder from a source that has nothing to give: a
\* stream that an earlier load used up, or documents that are all null.
NarrowedLoadsAreNotEmpty ==
    \A p \in Loader : pc[p] = "bind" /\ source[p] # NoSource /\ Prefix # <<>> => ValuesRead(p) \ {Null} # {}

\* The section that is bound is the only node the path can mean, and it is a
\* node of the document as it was expanded.
SectionIsUnambiguous ==
    [][\A p \in Loader : Moves(p, "expand", "bind") =>
         \E whole \in Nodes(Expansion(tree[p], env)) : \E node \in NodesAt(Object(whole)) :
           NodesAt(Object(whole)) = {node} /\ Is(node, "object") /\ node.object = tree'[p]]_vars
=============================================================================
