--------------------------- MODULE MCComputations ---------------------------
(***************************************************************************)
(* Small instances of each computation.                                    *)
(***************************************************************************)
EXTENDS Computations

ClosesAtWithin(s, i, depth) == LET n == closesAt(s, i, depth) IN n
ExpandVariablesWithin(s, env, strict) == LET r == expandVariables(s, env, strict) IN r
WrittenWithin(t) == LET s == Written(t) IN s
MeaningWithin(t, env, strict) == LET r == Meaning(t, env, strict) IN r
ReachesWithin(e, s) == LET b == Reaches(e, s) IN b
IsErrorWithin(e) == LET b == IsError(e) IN b
FieldOfWithin(e) == LET p == FieldOf(e) IN p
SetFieldWithin(e, path) == LET f == SetField(e, path) IN f
UnwrapWithin(e) == LET s == unwrapSentinel(e) IN s

(* Numbers: quarters, an int64 of 6 bits, a float64 whose mantissa has 4 bits
   and a float32 whose mantissa has 3: as in the program, the float is narrower
   than the integer, and its range is wider. *)

MCNumber == -520..520
MCIntMax == {7 * One, MaxInt64}
MCUintMax == {15 * One, MaxUint64}

Abs(n) == IF n < 0 THEN -n ELSE n

\* The multiple of a power of two, of so many bits, that is nearest to n; the
\* even one of two.
RECURSIVE Rounded(_, _, _)
Rounded(n, bits, unit) ==
    IF Abs(n) >= 2^bits * unit THEN Rounded(n, bits, 2 * unit)
    ELSE LET down == Abs(n) \div unit
             rest == 2 * (Abs(n) % unit)
             up == IF rest > unit \/ (rest = unit /\ down % 2 = 1) THEN 1 ELSE 0
         IN (IF n < 0 THEN -1 ELSE 1) * (down + up) * unit

MCFloat64 == [n \in MCNumber |-> Rounded(n, 4, 1)]
MCFloat32 == [n \in MCNumber |-> Rounded(n, 3, 1)]

\* Around zero, the width of float64, the ends of the types, and float32's end.
Wholes == {n * One : n \in {-34, -33, -32, -31, -18, -17, -9, -8, -1, 0, 1, 7, 8, 15, 16, 17, 18, 19,
                            30, 31, 32, 33, 62, 63, 64, 112, 113}}
Fractions == {-129, -127, -71, -1, 1, 2, 67, 69, 123, 125, 127, 250, 251, 253}
MCGiven ==
    {v \in Value : /\ v.num \in Wholes \cup Fractions \cup Special
                   /\ v.form = "word" => v.num = 0}

Bound == {{}} \cup {{n} : n \in {-72, 0, 68, 72}}
MCRanges ==
    {r \in [min : Bound, max : Bound, minInclude : BOOLEAN, maxInclude : BOOLEAN] :
       /\ \A a \in r.min, b \in r.max : Float64[a] <= Float64[b]
       /\ r.min = {} \/ r.max = {} => r.minInclude = r.maxInclude}

(* Texts with references.  A and A1 are names. *)

MCLetter == {"A"}
MCDigit == {"1"}
MCSymbol == Marks \cup {"A", "1", "v"}

Plain == {[lit |-> c] : c \in {":", "1"}} \cup {[dollar |-> TRUE], [amount |-> "1"], [bare |-> <<"A">>]}
Simple == Plain \cup {[lit |-> c] : c \in {"-", "{", "A"}} \cup {[bare |-> <<"A", "1">>], [ref |-> <<"A">>]}
Nested == {[ref |-> <<"A">>, fallback |-> t] : t \in {<<>>} \cup {<<i>> : i \in Plain}}
Fallbacks ==
    {t \in SeqOf(Plain \cup Nested, 2) : WellWritten(t)}
Item == Simple \cup [ref : {<<"A">>, <<"A", "1">>}, fallback : Fallbacks]
MCTerms == {t \in {<<>>} \cup {<<i>> : i \in Item} \cup {<<i, j>> : i \in Item, j \in Simple}
                  \cup {<<j, i>> : i \in Item, j \in Simple} : WellWritten(t)}

\* Short texts of any symbols, and longer ones of the pieces of references.
MCStrings ==
    SeqOf({"$", "{", "}", ":", "-", "A", "1"}, 4)
    \cup {FlattenSeq(t) : t \in SeqOf({<<"$">>, <<"$", "{">>, <<"}">>, <<":", "-">>, <<"A">>, <<"A", "1">>}, 6)}

\* Nothing set, a variable that is set to nothing, and one whose value looks
\* like a reference, to a name that is set or is not.
MCEnvironments ==
    LET looksLikeOne == <<"A">> :> <<"$", "{", "A", "1", "}">>
    IN {<<>>, <<"A">> :> <<>>, looksLikeOne, looksLikeOne @@ (<<"A", "1">> :> <<"v">>)}

(* Struct tags *)

MCNumberOf == [w \in {"1", "9", "NaN"} |-> [num |-> IF w = "1" THEN 1 ELSE 9, finite |-> w # "NaN"]]

Option(name, style, value, gives) == [name |-> <<name>>, style |-> style, value |-> value, gives |-> gives]
Closed(a, b) == [min |-> a, max |-> b, minInclude |-> TRUE, maxInclude |-> TRUE]

Defaults ==
    {Option("default", s, v, {[default |-> v]}) :
       s \in {"quoted", "escaped"},
       v \in {<<>>, <<"a", ",", "b">>, <<"[", ",">>, <<"\"", ")", "\\">>, <<"a", "=", "b">>, <<"\\", ",">>}}
    \cup {Option("default", "plain", v, {[default |-> v]}) : v \in {<<"a">>, <<"{", "a", ",", "b", "]">>, <<"]", "a">>}}
Lists ==
    {Option("options", s, <<"a", "|", " ", "b", "|">>, {[options |-> <<<<"a">>, <<"b">>>>]}) : s \in {"plain", "quoted", "escaped"}}
    \cup {Option("options", s, <<"a", "\\", "|", "b">>, {[options |-> <<<<"a", "|", "b">>>>]}) : s \in {"quoted", "escaped"}}
    \cup {Option("options", "plain", v, {}) : v \in {<<>>, <<"|", " ", "|">>}}
MCRangeTexts ==
    ([t \in {<<"[", "1", ",", "9", "]">>, <<" ", "[", "1", ",", " ", "9", "]">>} |-> {[range |-> Closed({1}, {9})]}])
    @@ (<<"(", ",", "9", "]">> :> {[range |-> [Closed({}, {9}) EXCEPT !.minInclude = FALSE]]})
    @@ (<<"[", "9", ",", "9", ")">> :> {[range |-> [Closed({9}, {9}) EXCEPT !.maxInclude = FALSE]]})
    @@ ([t \in {<<"[", "9", ",", "1", "]">>, <<"[", "NaN", ",", "9", "]">>, <<"[", "a", ",", "]">>, <<"[", "1", "]">>,
                <<"{", "1", ",", "9", "}">>, <<"[">>} |-> {}])
TheRanges == {Option("range", "quoted", v, MCRangeTexts[v]) : v \in DOMAIN MCRangeTexts}
             \cup {Option("range", "plain", <<"[", "1", ",", "9", "]">>, {[range |-> Closed({1}, {9})]})}
Others ==
    {Option("required", "none", <<>>, {[required |-> TRUE]}), Option("required", "plain", <<"a">>, {}),
     Option("env", "plain", <<" ", "A">>, {[env |-> <<"A">>]}), Option("env", "quoted", <<" ">>, {}),
     Option("default", "none", <<>>, {}), Option("typo", "plain", <<"a">>, {}), Option("typo", "none", <<>>, {}),
     Option("coerce", "escaped", <<"a", ",">>, {[custom |-> <<[name |-> <<"coerce">>, value |-> <<"a", ",">>]>>]}),
     Option("coerce", "none", <<>>, {})}
TagOptions == Defaults \cup Lists \cup TheRanges \cup Others

OtherPair == <<"yaml", ":", "\"", "json", ":", "\\", "\"", "\"", " ", " ">>
MCFields ==
    [name : {<<"level">>}, options : SeqOf(TagOptions, 2), before : {OtherPair}, readable : {TRUE}]
    \cup [name : {<<>>}, options : SeqOf(TagOptions, 1), before : {<<>>, <<"yaml", ":", "\"", "\\", "d", "\"", " ">>},
          readable : BOOLEAN]

MCRawTags == SeqOf({",", "\"", "\\", "[", ")", "a", " "}, 5)

(* Options and registrations *)

Opt(fn, arg) == [fn |-> fn, arg |-> arg]
ReaderOptions ==
    {Opt("WithRegistry", "registry"), Opt("WithRegistry", Nil),
     Opt("WithDecoder", "d1"), Opt("WithDecoder", "d2"), Opt("WithDecoder", Nil),
     Opt("WithExpander", "expander"), Opt("WithExpander", Nil), Opt("WithEnvExpansion", "strict"),
     Opt("WithBinder", "binder"), Opt("WithBinder", Nil),
     Opt("WithTagKey", "conf"), Opt("WithTagKey", ""),
     Opt("WithKeyMatcher", "ExactKey"), Opt("WithKeyMatcher", Nil),
     Opt("WithPrefix", "app"), Opt("WithPrefix", ""),
     [fn |-> "WithTagOption", name |-> <<"coerce">>, arg |-> "handler"],
     [fn |-> "WithTagOption", name |-> <<"default">>, arg |-> "handler"],
     [fn |-> "WithTagOption", name |-> <<>>, arg |-> "handler"]}
MCOptionLists == SeqOf(ReaderOptions \cup {Nil}, 3)

\* Long names one at a time, and short ones two at a time.
Marked == {"a", ",", "=", "|", "\"", "[", " ", "'", "\\", "\n", "\t"}
Named(names) == {[fn |-> "WithBinderTagOption", name |-> n, arg |-> "handler"] : n \in names}
MCRegistrations ==
    SeqOf(Named(SeqOf(Marked, 3)), 1)
    \cup SeqOf(Named(SeqOf(Marked, 1) \cup {<<"default">>, <<"a", "\\">>, <<"a", "\n", "a">>})
               \cup {[fn |-> "WithBinderTagOption", name |-> <<"a">>, arg |-> Nil]}, 2)

(* Errors *)

Leaves == Sentinels
Reported ==
    Leaves \cup {[wraps |-> e] : e \in Leaves}
    \cup [kind : Leaves, field : {"", "own"}, cause : {{}} \cup {{e} : e \in Leaves}]
OfApplication == Reported \cup {[wraps |-> e] : e \in Reported} \cup {[joins |-> <<d, e>>] : d, e \in Reported}
Conversions == Leaves \cup {[wraps |-> e] : e \in Leaves} \cup {newError(e) : e \in Leaves}
Ways == {<<"">>, <<"a", "">>, <<"a.b", "a", "">>, <<"", "a">>}
MCFailures == [own : {TRUE}, err : OfApplication, paths : Ways] \cup [own : {FALSE}, err : Conversions, paths : Ways]
=============================================================================
