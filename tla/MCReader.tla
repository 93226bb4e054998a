------------------------------ MODULE MCReader ------------------------------
(***************************************************************************)
(* Loads of a file that is rewritten and of a stream that is read once, or *)
(* that fails half way; an extra decoder for a format that some goroutine  *)
(* also registers a decoder for, and a format only that decoder knows; a   *)
(* strict expander; a Reader that is narrowed to the section app.db of its *)
(* documents.                                                              *)
(***************************************************************************)
EXTENDS Reader, WholeTypes

NormalizeWithin(v) == LET w == normalizeValue(v) IN w
CanonicalWithin(v) == LET b == IsCanonical(v) IN b
HasReferenceWithin(v) == LET b == hasReference(v) IN b
ExpandWithin(v, e, strict) == LET o == expandValue(v, e, strict) IN o
VariablesWithin(s, e, strict) == LET o == expandVariables(s, e, strict) IN o
TextsWithin(v) == LET s == Texts(v) IN s

CONSTANTS json, own, late, l1, l2, r1, file, stream, yml, js, cf

OneLoader == {l1}
TwoLoaders == {l1, l2}
Registrars == {r1}
NoRegistrars == {}

MCDecoder == {json, own, late}
MCWord == {yml, js, cf}
plain(w) == [word |-> w, dots |-> 0, upper |-> FALSE, padded |-> FALSE]
MCFormatOf == [d \in MCDecoder |-> plain(CASE d = json -> js [] d = own -> yml [] d = late -> cf)]
MCExtensionsOf == [d \in MCDecoder |-> {[plain(IF d = json THEN js ELSE yml) EXCEPT !.dots = 1]}]
MCConstructions == {<<json>>}

OwnIsExtra == <<own>>

MCSources == {file, stream}
MCKind == [s \in MCSources |-> IF s = file THEN "file" ELSE "closer"]
PipeKind == [s \in MCSources |-> IF s = file THEN "file" ELSE "stream"]
MCFormatName == [s \in MCSources |-> IF s = file THEN [plain(yml) EXCEPT !.upper = TRUE] ELSE plain(cf)]

App(node) == Object("app" :> Object("db" :> node))
Host(text) == Object("host" :> Text(text))

\* JSON has its own numbers.
Seven(family) == IF family = "json" THEN [num |-> 7] ELSE [whole |-> 7]

\* The contents are documents: one that is fine, alone and behind a null; one
\* whose section is null; one with a reference outside the section and one in a
\* key of it; one with two keys that match; and two documents.
Documents1(family) ==
    ("fine" :> App(Host("$host")))
    @@ ("null" :> App(Null))
    @@ ("outside" :> Object(("app" :> Object("db" :> Host("h"))) @@ ("log" :> Text("$level"))))
    @@ ("key" :> App(Object("$key" :> [array |-> <<Seven(family)>>])))
    @@ ("clash" :> Object(("app" :> Object("db" :> Host("a"))) @@ ("App" :> Object("db" :> Host("b")))))
    @@ ("list" :> [array |-> <<>>])

\* A decoder of the application finds one document only.
Streams(family) ==
    LET one == Documents1(family) IN
    [c \in DOMAIN one |-> <<one[c]>>]
    @@ IF family = "own" THEN Blank :> <<Object(EmptyTree)>>
       ELSE ("behind null" :> <<Null, one["fine"], Null>>)
            @@ ("two" :> <<one["fine"], one["outside"]>>)
            @@ ("comment" :> <<Null>>)

MCContent == {Blank, Gone, "broken"} \cup DOMAIN Streams("yaml")
MCParsed(d, c) == LET streams == Streams(Family[d]) IN {streams[x] : x \in {c} \cap DOMAIN streams}

\* Where the documents matter the file is YAML and the stream JSON; where the
\* formats do, an extra decoder and a late one are the application's.
DocumentsFormatOf == [d \in MCDecoder |-> plain(IF d = json THEN cf ELSE yml)]
DocumentsFamily == [d \in MCDecoder |-> IF d = own THEN "yaml" ELSE "json"]
FormatsFamily == [d \in MCDecoder |-> IF d = json THEN "json" ELSE "own"]

MCFresh ==
    [s \in MCSources |-> IF s = file THEN {"behind null", "comment", "outside", "key", "clash", "two"}
                        ELSE {"fine", "null", "list", "broken", "two", Gone}]
FineFresh == [s \in MCSources |-> {"fine"}]

MCReference ==
    ("$host" :> [var |-> "HOST", fallback |-> "$level"])
    @@ ("$level" :> [var |-> "LEVEL"])
    @@ ("$key" :> [var |-> "HOST", fallback |-> "$$"])
    @@ ("$$" :> [literal |-> "dollar"])
MCEnvs == {"HOST" :> "$level", "LEVEL" :> "l"}
OneEnv == {"HOST" :> "host"}

Strict == <<[strict |-> TRUE]>>
AppDB == <<"app", "db">>

MCString == [kind |-> "string"]
MCStruct ==
    [kind |-> "struct", fields |-> <<
       [name |-> "Host", type |-> MCString, tag |-> [name |-> "host", env |-> "HOST", default |-> "local"]]>>]
MCTypes == {MCString, MCStruct}
MCDepth == [t \in MCTypes |-> IF t = MCStruct THEN 1 ELSE 0]
MCNode == {[num |-> 7], [array |-> <<[num |-> 7]>>]}
          \cup {Text(s) : s \in {"h", "a", "b", "host", "l", "$level"}}

MCCanon ==
    [k \in {"app", "App", "db", "host", "log", "l", "$level", "$key", "dollar"} |-> IF k = "App" THEN "app" ELSE k]
MCKeyOrder == <<"App", "app", "db", "host", "log">>
MCNone == [s \in {} |-> 0]
MCReadable(node) == TRUE
MCAccepts(rule, v) == TRUE
MCHandled(h, v) == {v}
MCTarget == Zero(MCStruct)
=============================================================================
