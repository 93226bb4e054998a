------------------------------ MODULE TagText ------------------------------
(***************************************************************************)
(* The text of a struct tag: how reflect and readin find the value of a    *)
(* key in it, how splitTagValue cuts that value into segments, and what    *)
(* parseTag makes of them.                                                 *)
(*                                                                         *)
(* A text is a sequence of symbols.  A symbol is a mark of the grammar, a  *)
(* white space, or a whole word: a key, the name of an option, a number,   *)
(* or any other run of letters.  A parsed tag is a record that holds what is  *)
(* there: a tag without default= has no field "default".                   *)
(***************************************************************************)
EXTENDS Integers, SequencesExt, FiniteSetsExt, TLC

CONSTANT NumberOf    \* what ParseFloat makes of a word: NumberOf[w] is [num |-> n,
                     \* finite |-> FALSE] for NaN and the infinities

Space == {" ", "\t", "\n"}
Open == {"[", "(", "{"}
Close == {"]", ")", "}"}
BuiltIn == {"default", "env", "required", "options", "range"}

Invalid == [err |-> "ErrInvalidTag"]
Malformed(r) == "err" \in DOMAIN r

Rest(s, i) == SubSeq(s, i, Len(s))

\* The blanks before a pair of a struct tag are skipped.
TrimLeft(s) ==
    LET solid == {i \in DOMAIN s : s[i] # " "} IN IF solid = {} THEN <<>> ELSE Rest(s, Min(solid))

\* strings.TrimSpace: every white space goes, not the blanks alone.
TrimSpace(s) ==
    LET solid == {i \in DOMAIN s : s[i] \notin Space}
    IN IF solid = {} THEN <<>> ELSE SubSeq(s, Min(solid), Max(solid))

\* strings.Cut: the text before the first mark, and the one after it.
Cut(s, mark) ==
    LET at == {i \in DOMAIN s : s[i] = mark}
    IN IF at = {} THEN [before |-> s, found |-> FALSE, after |-> <<>>]
       ELSE [before |-> SubSeq(s, 1, Min(at) - 1), found |-> TRUE, after |-> Rest(s, Min(at) + 1)]

(* splitTagValue *)

\* Wrong: a bracket protects what is in it whether it is quoted or not, and a
\* quote is only one outside brackets.
RECURSIVE ScanBracketsFirst(_, _, _)
ScanBracketsFirst(s, sep, at) ==
    LET c == s[1]
        Add(x) == [at EXCEPT !.current = Append(@, x)]
        Go(i, to) == ScanBracketsFirst(Rest(s, i), sep, to)
    IN IF s = <<>> THEN at
       ELSE IF c = "\\" /\ Len(s) > 1 THEN Go(3, Add(s[2]))
       ELSE IF c \in Open THEN Go(2, [Add(c) EXCEPT !.depth = @ + 1])
       ELSE IF c \in Close /\ at.depth > 0 THEN Go(2, [Add(c) EXCEPT !.depth = @ - 1])
       ELSE IF c = "\"" THEN Go(2, [at EXCEPT !.quoted = ~@])
       ELSE IF at.quoted THEN Go(2, Add(c))
       ELSE IF c = sep /\ at.depth = 0
       THEN Go(2, [at EXCEPT !.values = Append(@, TrimSpace(at.current)), !.current = <<>>])
       ELSE Go(2, Add(c))

\* The loop, from the state "at" it is in before the first symbol of s.  An
\* escaped symbol and a quoted one are literal; inside brackets a separator is
\* text; a closing bracket that closes nothing is text too.
RECURSIVE Scan(_, _, _)
Scan(s, sep, at) ==
    LET c == s[1]
        Add(x) == [at EXCEPT !.current = Append(@, x)]
        Go(i, to) == Scan(Rest(s, i), sep, to)
    IN IF s = <<>> THEN at
       ELSE IF c = "\\" /\ Len(s) > 1 THEN Go(3, Add(s[2]))
       ELSE IF c = "\"" THEN Go(2, [at EXCEPT !.quoted = ~@])
       ELSE IF at.quoted THEN Go(2, Add(c))
       ELSE IF c \in Open THEN Go(2, [Add(c) EXCEPT !.depth = @ + 1])
       ELSE IF c \in Close /\ at.depth > 0 THEN Go(2, [Add(c) EXCEPT !.depth = @ - 1])
       ELSE IF c = sep /\ at.depth = 0
       THEN Go(2, [at EXCEPT !.values = Append(@, TrimSpace(at.current)), !.current = <<>>])
       ELSE Go(2, Add(c))

splitTagValue(raw, sep) ==
    LET end == Scan(raw, sep, [values |-> <<>>, current |-> <<>>, quoted |-> FALSE, depth |-> 0])
    IN IF end.quoted \/ end.depth > 0 THEN Invalid
       ELSE [segments |-> Append(end.values, TrimSpace(end.current))]

(* range.go *)

\* A bound has to be a finite number.
parseBound(text) ==
    IF Len(text) = 1 /\ text[1] \in DOMAIN NumberOf /\ NumberOf[text[1]].finite
    THEN {NumberOf[text[1]].num} ELSE {}

\* The bounds are sets: {} is a bound that is not there.
parseRange(s) ==
    LET text == TrimSpace(s)
        bounds == Cut(SubSeq(text, 2, Len(text) - 1), ",")
        lower == TrimSpace(bounds.before)
        upper == TrimSpace(bounds.after)
        min == parseBound(lower)
        max == parseBound(upper)
    IN IF \/ Len(text) < 2
          \/ text[1] \notin {"[", "("} \/ Last(text) \notin {"]", ")"}
          \/ ~bounds.found
          \/ (lower # <<>> /\ min = {}) \/ (upper # <<>> /\ max = {})
          \/ \E a \in min, b \in max : b < a
       THEN Invalid
       ELSE [min |-> min, max |-> max, minInclude |-> text[1] = "[", maxInclude |-> Last(text) = "]"]

(* parseTagWith *)

With(tag, name, value) == [tag |-> (name :> value) @@ tag]

\* The values of options=, split out of a text whose quotes are already gone.
optionList(value) ==
    LET split == splitTagValue(value, "|")
    IN IF Malformed(split) THEN <<>> ELSE SelectSeq(split.segments, LAMBDA o : o # <<>>)

\* Wrong: an option that is not known is left out.
setOptionIfKnown(tag, name, value, hasValue) ==
    CASE name = <<"required">> -> IF hasValue THEN Invalid ELSE With(tag, "required", TRUE)
      [] name = <<"default">> -> IF hasValue THEN With(tag, "default", value) ELSE Invalid
      [] OTHER -> [tag |-> tag]

setOption(tag, name, value, hasValue) ==
    IF ~hasValue THEN IF name = <<"required">> THEN With(tag, "required", TRUE) ELSE Invalid
    ELSE CASE name = <<"default">> -> With(tag, "default", value)
           [] name = <<"env">> ->
                IF TrimSpace(value) = <<>> THEN Invalid ELSE With(tag, "env", TrimSpace(value))
           [] name = <<"options">> ->
                IF optionList(value) = <<>> THEN Invalid ELSE With(tag, "options", optionList(value))
           [] name = <<"range">> ->
                LET range == parseRange(value) IN IF Malformed(range) THEN Invalid ELSE With(tag, "range", range)
           [] OTHER -> Invalid

addCustom(tag, name, value) ==
    With(tag, "custom", Append(IF "custom" \in DOMAIN tag THEN tag.custom ELSE <<>>, [name |-> name, value |-> value]))

\* The options of the segments, into a tag that has those named in seen; an
\* option the application registered is kept as it is written.
RECURSIVE setOptions(_, _, _, _)
setOptions(tag, seen, segments, custom) ==
    IF segments = <<>> THEN [tag |-> tag]
    ELSE LET parts == Cut(Head(segments), "=")
             name == TrimSpace(parts.before)
             done == IF name \in custom THEN IF parts.found THEN addCustom(tag, name, parts.after) ELSE Invalid
                     ELSE setOption(tag, name, parts.after, parts.found)
         IN IF name = <<>> \/ name \in seen \/ Malformed(done) THEN Invalid
            ELSE setOptions(done.tag, seen \cup {name}, Tail(segments), custom)

NoTag == [tag |-> [name |-> <<>>]]

parseTagWith(raw, custom) ==
    LET text == TrimSpace(raw)
        split == splitTagValue(text, ",")
    IN IF text = <<>> THEN NoTag
       ELSE IF Malformed(split) THEN Invalid
       ELSE setOptions([name |-> split.segments[1]], {}, Tail(split.segments), custom)

(* tagValue: the value of a key in a struct tag *)

\* The place of the quote that ends a value which starts at s[i]; 0 without one.
RECURSIVE closingQuote(_, _)
closingQuote(s, i) ==
    IF i > Len(s) THEN 0
    ELSE IF s[i] = "\"" THEN i
    ELSE closingQuote(s, IF s[i] = "\\" THEN i + 2 ELSE i + 1)

\* The value of key as it is written, between its quotes: {} when it is not in
\* the tag.  The pairs behind one that is not key:"value" are not seen.
RECURSIVE unreadableTagValue(_, _)
unreadableTagValue(tag, key) ==
    LET text == TrimLeft(tag)
        ends == {i \in DOMAIN text : text[i] \in Space \cup {":", "\""}}
        end == IF ends = {} THEN Len(text) + 1 ELSE Min(ends)
        close == closingQuote(text, end + 2)
    IN IF \/ text = <<>> \/ end = 1 \/ end + 1 > Len(text)
          \/ text[end] # ":" \/ text[end + 1] # "\"" \/ close = 0
       THEN {}
       ELSE IF SubSeq(text, 1, end - 1) = key THEN {SubSeq(text, end + 2, close - 1)}
       ELSE unreadableTagValue(Rest(text, close + 1), key)

\* strconv.Unquote: a backslash before anything but a quote or a backslash is
\* refused, and so is a line break.
RECURSIVE Unquote(_)
Unquote(s) ==
    IF s = <<>> THEN {<<>>}
    ELSE IF s[1] = "\n" THEN {}
    ELSE IF s[1] # "\\" THEN {<<s[1]>> \o r : r \in Unquote(Tail(s))}
    ELSE IF Len(s) > 1 /\ s[2] \in {"\\", "\""} THEN {<<s[2]>> \o r : r \in Unquote(Rest(s, 3))}
    ELSE {}

\* reflect.StructTag.Lookup, by the same rules.
Lookup(tag, key) == UNION {Unquote(raw) : raw \in unreadableTagValue(tag, key)}

\* Wrong: a tag that reflect cannot read is taken for one that is not there.
tagValueOrNone(tag, key) ==
    IF Lookup(tag, key) # {} THEN [value |-> CHOOSE v \in Lookup(tag, key) : TRUE] ELSE [value |-> <<>>]

tagValue(tag, key) ==
    IF Lookup(tag, key) # {} THEN [value |-> CHOOSE v \in Lookup(tag, key) : TRUE]
    ELSE IF unreadableTagValue(tag, key) # {} THEN Invalid
    ELSE [value |-> <<>>]

parseFieldTag(tag, key, custom) ==
    LET raw == tagValue(tag, key) IN IF Malformed(raw) THEN Invalid ELSE parseTagWith(raw.value, custom)
=============================================================================
