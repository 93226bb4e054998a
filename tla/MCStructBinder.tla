--------------------------- MODULE MCStructBinder ---------------------------
(***************************************************************************)
(* Configuration structs for StructBinder, each with the documents and the *)
(* environments it is bound from:                                          *)
(*   Service  the fields of one struct: where a value comes from, and what *)
(*            its tag makes of it;                                         *)
(*   Sections nested, embedded and optional structs, and their Validate;   *)
(*   Lists    slices, arrays, maps and any;                                *)
(*   Reading  a section that reads its own JSON.                           *)
(***************************************************************************)
EXTENDS StructBinder, WholeTypes, FiniteSetsExt

LeavesWithin(t, node, was, now) == LET s == Leaves(t, node, was, now) IN s
RuledWithin(t, v, path) == LET s == Ruled(t, v, path) IN s
FilledWithin(t, v, src, path, vs) == LET s == Filled(t, v, src, path, vs) IN s
FilledStructWithin(t, v, node, path, vs) == LET s == FilledStruct(t, v, node, path, vs) IN s

String == [kind |-> "string"]
Bool == [kind |-> "bool"]
Anything == [kind |-> "any"]
Small == [kind |-> "int", width |-> 0..99]
Level == [kind |-> "string", hook |-> "text"]
PointerTo(t) == [kind |-> "pointer", elem |-> t]
SliceOf(t) == [kind |-> "slice", elem |-> t]
MapOf(t) == [kind |-> "map", elem |-> t]
ArrayOf(n, t) == [kind |-> "array", len |-> n, elem |-> t]
Struct(fields) == [kind |-> "struct", fields |-> fields]

Field(name, type, tag) == [name |-> name, type |-> type, tag |-> tag]
Named(name) == [name |-> name]

Num(n) == [num |-> n]
Array(s) == [array |-> s]
Empty == Object(EmptyTree)

\* The documents that give each key k one of the nodes of the sequence f[k],
\* Absent leaving the key out, and all but n keys the first one.
Absent == [absent |-> TRUE]
RECURSIVE DocumentsOver(_, _, _)
DocumentsOver(f, keys, n) ==
    IF keys = {} THEN {EmptyTree}
    ELSE LET k == CHOOSE j \in keys : TRUE
             With(i) == LET rest == DocumentsOver(f, keys \ {k}, IF i = 1 THEN n ELSE n - 1)
                        IN IF f[k][i] = Absent THEN rest ELSE {(k :> f[k][i]) @@ d : d \in rest}
         IN UNION {With(i) : i \in IF n = 0 THEN {1} ELSE DOMAIN f[k]}
Documents(n, f) == DocumentsOver(f, DOMAIN f, n)

MCCanon ==
    [k \in {"port", "Port", "level", "mode", "debug", "name", "db", "DB", "host", "tls", "cert",
            "peers", "labels", "pair", "extra", "rules", "hidden", "a", "b"} |->
       CASE k = "Port" -> "port" [] k = "DB" -> "db" [] OTHER -> k]

MCKeyOrder == <<"DB", "Port", "a", "b", "cert", "db", "debug", "extra", "host", "labels", "level",
                "mode", "name", "pair", "peers", "port", "rules", "tls">>

MCIntOf == ("80" :> 80) @@ ("7" :> 7)
MCBoolOf == ("on" :> TRUE) @@ ("off" :> FALSE)
MCItemsOf == ("a,,b" :> <<"a", "b">>) @@ ("" :> <<>>) @@ ("7" :> <<"7">>)

\* No type reads the text "bad".
MCReadable(node) == node # Text("bad")

\* The rules of Validate.
MCAccepts(rule, v) ==
    CASE rule = "needsHost" -> v.struct["Host"] # [str |-> ""]
      [] rule = "needsPort" -> v.struct["Port"] # [int |-> 0]
      [] rule = "needsName" -> v.struct["Name"] # [str |-> ""]
      [] rule = "needsText" -> v.struct["raw"] # Nil

\* The handler "lower" lowers a string, and refuses anything else or an empty one.
MCHandled(handler, v) ==
    IF handler # "lower" THEN {v}
    ELSE IF v = [str |-> "LOW"] THEN {[str |-> "low"]}
    ELSE IF v = [str |-> ""] THEN {} ELSE {v}

-----------------------------------------------------------------------------
(* Service *)

Service ==
    Struct(<<
      Field("Level", Level, [name |-> "level", default |-> "info", options |-> {"info", "x"}]),
      Field("Port", Small, [name |-> "port", env |-> "PORT", default |-> "80", range |-> 1..90]),
      Field("Name", String, [name |-> "name", env |-> "NAME", required |-> TRUE, options |-> {"a", "b", ""}]),
      Field("hidden", String, [required |-> TRUE]) @@ [unexported |-> TRUE],
      Field("Debug", Bool, [name |-> "debug"]),
      Field("Mode", PointerTo(String), [name |-> "mode", custom |-> <<"lower">>])>>)

ServiceTrees ==
    Documents(2, ("port" :> <<Absent, Null, Num(95), Num(300), Text("x")>>)
                 @@ ("Port" :> <<Absent, Num(7)>>)
                 @@ ("name" :> <<Text("a"), Null, Text("c")>>)
                 @@ ("level" :> <<Absent, Text("bad"), Text("c")>>)
                 @@ ("debug" :> <<Absent, Text("on")>>)
                 @@ ("mode" :> <<Absent, Text("LOW"), Text("")>>))

ServiceEnvs == {EmptyTree, ("PORT" :> "7") @@ ("NAME" :> ""), ("PORT" :> "x") @@ ("NAME" :> "b")}

-----------------------------------------------------------------------------
(* Sections *)

DB == Struct(<<
        Field("Host", String, [name |-> "host", env |-> "DBHOST", default |-> "local"]),
        Field("Port", Small, Named("port"))>>) @@ [rule |-> "needsPort"]
TLS == Struct(<<Field("Cert", String, [name |-> "cert", required |-> TRUE]),
                Field("Peer", DB, Named("db"))>>)
Common == Struct(<<Field("Name", String, [name |-> "name", default |-> "a"])>>) @@ [rule |-> "needsName"]
Extra == Struct(<<Field("Debug", Bool, [name |-> "debug", default |-> "on"])>>)
Host == Struct(<<Field("Host", String, Named("host"))>>) @@ [rule |-> "needsHost"]

Sections ==
    Struct(<<
      Field("Common", Common, EmptyTree) @@ [embedded |-> TRUE],
      Field("Extra", PointerTo(Extra), EmptyTree) @@ [embedded |-> TRUE],
      Field("Port", Small, Named("port")),
      Field("Tls", PointerTo(TLS), Named("tls")),
      Field("Db", DB, Named("db")),
      Field("Peers", SliceOf(Host), Named("peers"))>>) @@ [rule |-> "needsPort"]

WithPort == Object("port" :> Num(7))
SectionsTrees ==
    Documents(2, ("port" :> <<Num(7), Absent>>)
                 @@ ("debug" :> <<Text("off")>>)
                 @@ ("name" :> <<Absent, Text("")>>)
                 @@ ("tls" :> <<Absent, Null, Empty, Object(("cert" :> Text("c")) @@ ("db" :> WithPort))>>)
                 @@ ("db" :> <<WithPort, Null, Text("x"), Object(("port" :> Num(7)) @@ ("host" :> Text("h")))>>)
                 @@ ("peers" :> <<Absent, Array(<<Object("host" :> Text("h"))>>),
                                  Array(<<Object("host" :> Text("h")), Null>>),
                                  Array(<<Object("host" :> Text("h")), Empty>>)>>))

SectionsEnvs == {EmptyTree, "DBHOST" :> "h"}

-----------------------------------------------------------------------------
(* Lists *)

Peer == Struct(<<Field("Host", String, [name |-> "host", required |-> TRUE]),
                 Field("Port", Small, [name |-> "port", default |-> "80"])>>)
Rules == Struct(<<Field("Host", String, Named("host")), Field("raw", Anything, EmptyTree) @@ [unexported |-> TRUE]>>)
         @@ [hook |-> "json"] @@ [rule |-> "needsText"]

Lists ==
    Struct(<<
      Field("Names", SliceOf(String), [name |-> "name", env |-> "NAMES", default |-> "a,,b"]),
      Field("Pair", ArrayOf(2, Small), Named("pair")),
      Field("Peers", SliceOf(Peer), Named("peers")),
      Field("Labels", MapOf(Small), Named("labels")),
      Field("Extra", Anything, Named("extra"))>>)

Peer1 == Object("host" :> Text("h"))
ListsTrees ==
    Documents(2, ("name" :> <<Absent, Array(<<Text("a")>>)>>)
                 @@ ("pair" :> <<Absent, Array(<<Num(1), Null>>), Array(<<Num(2), Text("x")>>), Array(<<Num(1)>>)>>)
                 @@ ("peers" :> <<Absent, Array(<<Peer1, Null>>), Array(<<Peer1, Empty>>)>>)
                 @@ ("labels" :> <<Absent, Object(("a" :> Null) @@ ("b" :> Num(2))),
                                   Object(("a" :> Text("x")) @@ ("b" :> Num(2)))>>)
                 @@ ("extra" :> <<Absent, Text("x")>>))

\* A section that reads itself.
Reading == Struct(<<Field("Rules", Rules, Named("rules"))>>)
ReadingTrees == {EmptyTree, "rules" :> Null, "rules" :> Text("bad"), "rules" :> Text("r")}

ListsEnvs == {EmptyTree, "NAMES" :> "7"}

-----------------------------------------------------------------------------
MCTypeOf ==
    ("service" :> Service) @@ ("sections" :> Sections) @@ ("lists" :> Lists) @@ ("reading" :> Reading)
MCTrees ==
    ("service" :> ServiceTrees) @@ ("sections" :> SectionsTrees) @@ ("lists" :> ListsTrees)
    @@ ("reading" :> ReadingTrees)
MCEnvs ==
    ("service" :> ServiceEnvs) @@ ("sections" :> SectionsEnvs) @@ ("lists" :> ListsEnvs)
    @@ ("reading" :> {EmptyTree})

\* The types inside a type, and itself.
RECURSIVE TypesIn(_)
TypesIn(t) ==
    {t} \cup (CASE t.kind \in Containers -> TypesIn(t.elem)
               [] t.kind = "struct" -> UNION {TypesIn(t.fields[i].type) : i \in DOMAIN t.fields}
               [] OTHER -> {})
MCTypes == UNION {TypesIn(MCTypeOf[s]) : s \in DOMAIN MCTypeOf}

\* Each type is deeper than the types inside it, so there are more of them.
MCDepth == [t \in MCTypes |-> Cardinality(TypesIn(t))]

\* The nodes inside a node, and itself.
RECURSIVE NodesIn(_)
NodesIn(n) ==
    {n} \cup (CASE Is(n, "array") -> UNION {NodesIn(n.array[i]) : i \in DOMAIN n.array}
               [] Is(n, "object") -> UNION {NodesIn(n.object[k]) : k \in DOMAIN n.object}
               [] OTHER -> {})
MCNode == UNION {NodesIn(Object(d)) : d \in UNION {MCTrees[s] : s \in DOMAIN MCTrees}}

AllSchemas == {"service", "sections", "lists", "reading"}
ListsOnly == {"lists"}
ServiceOnly == {"service"}
=============================================================================
