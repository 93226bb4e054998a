---------------------------- MODULE Computations ----------------------------
(***************************************************************************)
(* The parts of readin that compute an answer from their arguments alone:  *)
(* the scanner of references, the parser of struct tags, the conversion of *)
(* numbers and their ranges (Numbers), the options of a Reader, and the    *)
(* errors it returns.  A behaviour is one computation: a job, and what has *)
(* come of it.                                                             *)
(***************************************************************************)
EXTENDS Numbers, References, Options, ErrorChains

CONSTANTS
    NumberOf,   \* of TagText
    Fields,     \* struct fields: the options of their tags, and how they are written
    RawTags     \* tag values as symbols, whatever they mean

T == INSTANCE TagText

Init ==
    \/ NumberInit \/ ReferenceInit \/ OptionInit \/ ErrorInit
    \/ answer = NoAnswer /\ (job \in [kind : {"tag"}, field : Fields] \/ job \in [kind : {"split"}, text : RawTags])

-----------------------------------------------------------------------------
(* Struct tags.  A field is its key, the options of its tag, the text before
   the pair of the key, and whether the tag is one reflect can read.  An option
   is written as its name and, when it has one, its value, in a style; "gives"
   is the set of the one record of what it means, {} when it means nothing. *)

\* Each of the marks of s is written with a backslash before it.
Escaped(s, marks) == FlattenSeq([i \in DOMAIN s |-> IF s[i] \in marks THEN <<"\\", s[i]>> ELSE <<s[i]>>])

InStyle(style, s) ==
    CASE style = "plain" -> s
      [] style = "quoted" -> <<"\"">> \o Escaped(s, {"\"", "\\"}) \o <<"\"">>
      [] style = "escaped" -> Escaped(s, {",", "\"", "\\"} \cup T!Open \cup T!Close)

WrittenOption(opt) == opt.name \o IF opt.style = "none" THEN <<>> ELSE <<"=">> \o InStyle(opt.style, opt.value)
WrittenTag(f) == f.name \o FlattenSeq([i \in DOMAIN f.options |-> <<",", " ">> \o WrittenOption(f.options[i])])

\* In a struct tag the value is a Go string in quotes.
StructTag(f) ==
    f.before \o <<"json", ":", "\"">> \o Escaped(WrittenTag(f), {"\"", "\\"})
      \o (IF f.readable THEN <<>> ELSE <<"\\", "d">>) \o <<"\"">>

ParseTag ==
    /\ Begins("tag")
    /\ answer' = T!parseFieldTag(StructTag(job.field), <<"json">>, {<<"coerce">>})

\* The tag record of all the options together; those of the application are
\* kept in their order.
CustomOf(opts) == FlattenSeq([i \in DOMAIN opts |-> LET m == CHOOSE g \in opts[i].gives : TRUE IN
                                                      IF "custom" \in DOMAIN m THEN m.custom ELSE <<>>])
Together(name, opts) ==
    LET means == {CHOOSE g \in opts[i].gives : TRUE : i \in DOMAIN opts}
        names == UNION {DOMAIN m : m \in means}
    IN [n \in {"name"} \cup names |->
          IF n = "name" THEN name
          ELSE IF n = "custom" THEN CustomOf(opts)
          ELSE (CHOOSE m \in means : n \in DOMAIN m)[n]]

MeaningOfTag(f) ==
    IF \/ ~f.readable
       \/ \E i \in DOMAIN f.options : f.options[i].gives = {}
       \/ \E i, j \in DOMAIN f.options : i < j /\ f.options[i].name = f.options[j].name
    THEN T!Invalid
    ELSE [tag |-> Together(f.name, f.options)]

-----------------------------------------------------------------------------
(* The segments of a text, told from what is before each of its symbols *)

SplitTag == Begins("split") /\ answer' = T!splitTagValue(job.text, ",")

\* Escaped symbols come after an odd number of backslashes, quoted ones after
\* an odd number of quotes, and the depth is that of the brackets since the
\* last place where none was open.
BackslashesBefore(s, i) ==
    LET other == {k \in 1..(i - 1) : s[k] # "\\"} IN i - 1 - (IF other = {} THEN 0 ELSE Max(other))
IsEscaped(s, i) == BackslashesBefore(s, i) % 2 = 1
IsQuote(s, i) == s[i] = "\"" /\ ~IsEscaped(s, i)
Literal(s, i) == IsEscaped(s, i) \/ Cardinality({k \in 1..(i - 1) : IsQuote(s, k)}) % 2 = 1

At(s, places) == LET order == SetToSortSeq(places, <) IN [n \in DOMAIN order |-> s[order[n]]]

Segmentation(s, sep) ==
    LET literal == {i \in DOMAIN s : Literal(s, i)}
        quotes == {i \in DOMAIN s : IsQuote(s, i)}
        opens == {i \in DOMAIN s \ literal : s[i] \in T!Open}
        closes == {i \in DOMAIN s \ literal : s[i] \in T!Close}
        Depth(i) == Max({Cardinality(opens \cap k..(i - 1)) - Cardinality(closes \cap k..(i - 1)) : k \in 1..i})
        cuts == {i \in DOMAIN s \ literal : s[i] = sep /\ Depth(i) = 0}
        escapes == {i \in 1..(Len(s) - 1) : s[i] = "\\" /\ ~IsEscaped(s, i)}
        kept == DOMAIN s \ (quotes \cup escapes \cup cuts)
        ends == SetToSortSeq(cuts \cup {0, Len(s) + 1}, <)
    IN IF Cardinality(quotes) % 2 = 1 \/ Depth(Len(s) + 1) > 0 THEN T!Invalid
       ELSE [segments |-> [n \in 1..(Len(ends) - 1) |-> T!TrimSpace(At(s, kept \cap ends[n]..ends[n + 1]))]]

Next == NumberNext \/ ReferenceNext \/ OptionNext \/ ErrorNext \/ ParseTag \/ SplitTag
Spec == Init /\ [][Next]_<<job, answer>>

-----------------------------------------------------------------------------
(* The tag of a field is read as what its options mean, whatever separators they
   hold, when it is written in any of the ways the grammar has to protect them;
   one bad option makes the whole tag invalid, and so does one that is written
   twice, or a struct tag that is no Go string.  Two things quotes do not
   protect, as the values of options= are split after the quotes are gone
   (tag.go:453) and a segment is trimmed after that: a | in options=, which takes
   a backslash, and a blank at an end of a value. *)
TagIsTheOptions == Finished("tag") => answer = MeaningOfTag(job.field)

(* splitTagValue cuts a value at the separators that are outside quotes,
   outside brackets and not escaped, and nowhere else, and refuses just the
   ones with a quote or a bracket left open. *)
SplitIsAtTopLevel == Finished("split") => answer = Segmentation(job.text, ",")

(* A tag option a binder takes is one its tags can carry, but for a name that
   starts or ends with a white space: written into a tag, with a backslash in
   front of each backslash of its name, it is found there with its value, beside
   the built-in options, which keep their meaning.  tagOptionForbidden (tag.go:36)
   leaves out the backslash, which the grammar gives a meaning to, and the white
   space other than the blank and the tab, which TrimSpace takes away.  And a
   binder that was given an option it does not take refuses to bind, whatever the
   others were and whatever it is given to fill. *)
RegisteredOptionsAreReadBack ==
    Finished("register") =>
      LET names == {n \in {job.opts[i].name : i \in DOMAIN job.opts} : n = T!TrimSpace(n)}
          Tag(name) == <<"level", ",", "default", "=", "a", ",">> \o Escaped(name, {"\\"}) \o <<"=", "b">>
          Meant(name) == [tag |-> [name |-> <<"level">>, default |-> <<"a">>,
                                   custom |-> <<[name |-> name, value |-> <<"b">>]>>]]
          refused == \E i \in DOMAIN job.opts : Refusal(job.opts[i].name, job.opts[i].arg) # ""
      IN /\ answer.refusal = "ErrInvalidTag" <=> refused
         /\ ~refused => \A n \in names : T!parseTagWith(Tag(n), names) = Meant(n)
=============================================================================
