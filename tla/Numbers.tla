------------------------------ MODULE Numbers ------------------------------
(***************************************************************************)
(* A number on its way from a document into a field: the conversion of     *)
(* converter.go into the type of the field, and the range= of tag.go and   *)
(* range.go that the field is then checked against.                        *)
(*                                                                         *)
(* A number is an integer that counts steps, One of them to a unit, so     *)
(* that it may have a fraction.  float64 and float32 are a rounding of the *)
(* numbers.  NaN and the infinities are integers that are no Number.       *)
(***************************************************************************)
EXTENDS Jobs, Integers

CONSTANTS
    Number,       \* the finite numbers, in steps
    One,          \* the steps of a unit
    NaN,
    Infinity,
    Float64,      \* Float64[n]: the float64 nearest to n
    Float32,
    MaxInt64, MaxUint64, MaxFloat32,
    IntMax,       \* the largest value of each signed integer type
    UintMax,      \* of each unsigned one
    Given,        \* the values of the documents
    Ranges        \* the ranges of the tags, with their bounds as they are written

MinInt64 == -MaxInt64 - One
Special == {NaN, Infinity, -Infinity}
IsWhole(n) == n \in Number /\ n % One = 0
AsFloat(n) == IF n \in Number THEN Float64[n] ELSE n

NumbersAssumption ==
    /\ Number \subseteq Int /\ One \in Nat \ {0}
    /\ {0, One, MinInt64, MaxInt64, MaxUint64, MaxFloat32} \cup IntMax \cup UintMax \subseteq Number
    /\ {NaN, Infinity} \subseteq Int
    /\ \A n \in Number : -Infinity < n /\ n < Infinity
    /\ NaN \notin Number \cup {Infinity, -Infinity}
    /\ 0 <= MaxInt64 /\ MaxInt64 <= MaxUint64
    /\ \A max \in IntMax : 0 <= max /\ max <= MaxInt64
    /\ \A max \in UintMax : 0 <= max /\ max <= MaxUint64
ASSUME NumbersAssumption

\* Rounding keeps the order of numbers, and leaves alone what it has rounded,
\* zero and the powers of two; the largest integers are no power of two.
RoundingAssumption ==
    /\ Float64 \in [Number -> Number] /\ Float32 \in [Number -> Number]
    /\ \A m, n \in Number : m <= n => Float64[m] <= Float64[n]
    /\ \A n \in Number : Float64[Float64[n]] = Float64[n] /\ Float64[Float32[n]] = Float32[n]
    /\ Float64[0] = 0 /\ Float64[One] = One /\ Float64[MinInt64] = MinInt64
    /\ MaxInt64 < Float64[MaxInt64] /\ MaxUint64 < Float64[MaxUint64]
ASSUME RoundingAssumption

\* A value of a document has a form:
\*   integer  a text of digits with or without a sign,
\*   decimal  a text with a fraction or an exponent, or NaN or an infinity,
\*   word     a text ParseFloat refuses, which a number too large for it is too,
\*   int, uint, float  a Go value, of a tree that is bound without a Reader,
\*   bool     a boolean, which counts as one or zero.
Value ==
    {v \in [form : {"integer", "decimal", "word", "int", "uint", "float", "bool"}, sign : {"", "-", "+"},
            num : Number \cup Special] :
       /\ v.form \in {"integer", "int", "uint"} => v.num \in Number /\ IsWhole(v.num)
       /\ v.form = "int" => MinInt64 <= v.num /\ v.num <= MaxInt64
       /\ v.form = "uint" => 0 <= v.num /\ v.num <= MaxUint64
       /\ v.form = "float" => AsFloat(v.num) = v.num
       /\ v.form = "bool" => v.num \in {0, One}
       /\ IF v.num = NaN THEN v.sign = ""
          ELSE IF v.sign = "-" THEN v.num <= 0 ELSE v.form \in {"int", "float"} \/ v.num >= 0
       /\ v.sign # "" => v.form \in {"integer", "decimal"}}

\* A field is of an integer type, told by its largest value, or a float32, or
\* a float64, which nothing is too large for.
Field == [kind : {"int"}, max : IntMax] \cup [kind : {"uint"}, max : UintMax]
         \cup [kind : {"float"}, max : {MaxFloat32, Infinity}]

TagRange == [min : SUBSET Number, max : SUBSET Number, minInclude : BOOLEAN, maxInclude : BOOLEAN]

ASSUME GivenAssumption == Given \subseteq Value /\ Ranges \subseteq TagRange

-----------------------------------------------------------------------------
(* converter.go: the set of the one number a value converts to *)

\* strconv.ParseFloat of a text.
ParseFloat(v) == IF v.form = "word" THEN {} ELSE {AsFloat(v.num)}

\* A float is not compared with what it was written as: NaN is the only one
\* that differs from its own whole part and has none.
HasFraction(x) == x = NaN \/ (x \in Number /\ ~IsWhole(x))

\* int64(x) of a float that does not fit is the smallest int64 on amd64.
ToInt64(x) == IF MinInt64 <= x /\ x <= MaxInt64 THEN x ELSE MinInt64

\* Wrong: the bound is taken for a number the type can hold.
floatToInt64Closed(x) ==
    IF HasFraction(x) \/ x > Float64[MaxInt64] \/ x < MinInt64 THEN {} ELSE {ToInt64(x)}

\* The constant math.MaxInt64 is rounded before it is compared.
floatToInt64(x) ==
    IF HasFraction(x) \/ x >= Float64[MaxInt64] \/ x < MinInt64 THEN {} ELSE {ToInt64(x)}

floatToUint64(x) ==
    IF HasFraction(x) \/ x < 0 \/ x >= Float64[MaxUint64] THEN {} ELSE {x}

toInt64(v) ==
    CASE v.form = "integer" -> {n \in {v.num} : MinInt64 <= n /\ n <= MaxInt64}
      [] v.form \in {"decimal", "word"} -> UNION {floatToInt64(x) : x \in ParseFloat(v)}
      [] v.form = "int" -> {v.num}
      [] v.form = "uint" -> {n \in {v.num} : n <= MaxInt64}
      [] v.form = "float" -> floatToInt64(v.num)
      [] v.form = "bool" -> {}

\* ParseUint takes no sign: a minus is refused, and a plus makes a float of the
\* number.
toUint64(v) ==
    CASE v.form = "integer" /\ v.sign = "" -> {n \in {v.num} : n <= MaxUint64}
      [] v.form \in {"integer", "decimal", "word"} /\ v.sign = "-" -> {}
      [] \/ v.form = "integer" /\ v.sign = "+"
         \/ v.form \in {"decimal", "word"} /\ v.sign # "-" -> UNION {floatToUint64(x) : x \in ParseFloat(v)}
      [] v.form = "int" -> {n \in {v.num} : n >= 0}
      [] v.form = "uint" -> {v.num}
      [] v.form = "float" -> floatToUint64(v.num)
      [] v.form = "bool" -> {}

toFloat64(v) == IF v.form = "bool" THEN {v.num} ELSE ParseFloat(v)

\* reflect.Value.OverflowFloat: an infinity overflows nothing.
OverflowFloat(field, x) ==
    x \in Number /\ (x > field.max \/ x < -field.max)

SetFloat(field, x) == IF field.max = Infinity \/ x \notin Number THEN x ELSE Float32[x]

assignInt(field, v) == {n \in toInt64(v) : -field.max - One <= n /\ n <= field.max}
assignUint(field, v) == {n \in toUint64(v) : n <= field.max}
assignFloat(field, v) == {SetFloat(field, x) : x \in {y \in toFloat64(v) : ~OverflowFloat(field, y)}}

assignScalar(field, v) ==
    CASE field.kind = "int" -> assignInt(field, v)
      [] field.kind = "uint" -> assignUint(field, v)
      [] field.kind = "float" -> assignFloat(field, v)

-----------------------------------------------------------------------------
(* range.go and checkRange *)

\* parseBound: a bound is a float64 too.
parsed(range) == [range EXCEPT !.min = {Float64[b] : b \in @}, !.max = {Float64[b] : b \in @}]

\* Wrong: a bound that is left out of the range is let in.
containsClosed(range, x) ==
    x = NaN \/ ((\A b \in range.min : x >= b) /\ (\A b \in range.max : x <= b))

\* Every comparison with NaN is false, and so none refuses it.
contains(range, x) ==
    \/ x = NaN
    \/ ~ \/ \E b \in range.min : x < b \/ (~range.minInclude /\ x = b)
         \/ \E b \in range.max : x > b \/ (~range.maxInclude /\ x = b)

numericValue(n) == AsFloat(n)

-----------------------------------------------------------------------------
(* The steps of a field: it is filled, and then its range is checked *)

NumberJob == [kind : {"number"}, value : Given, field : Field, range : Ranges]

NumberInit == job \in NumberJob /\ answer = NoAnswer

Assign == Begins("number") /\ answer' = [step |-> "assigned", held |-> assignScalar(job.field, job.value)]

\* A field that was not filled is not checked; one that fails keeps its value.
CheckRange ==
    /\ job.kind = "number" /\ answer.step = "assigned"
    /\ \E n \in answer.held :
         answer' = [step |-> "checked", held |-> {n}, inside |-> contains(parsed(job.range), numericValue(n))]
    /\ UNCHANGED job

NumberNext == Assign \/ CheckRange
NumberSpec == NumberInit /\ [][NumberNext]_<<job, answer>>

-----------------------------------------------------------------------------
(* The number a field of an integer type is asked to hold: what is written,
   where the digits are read as an integer, and the nearest float64 to it
   otherwise. *)
ReadAsFloat(v, field) == \/ v.form \in {"decimal", "float"}
                         \/ v.form = "integer" /\ v.sign = "+" /\ field.kind = "uint"
Asked(v, field) == IF ReadAsFloat(v, field) THEN AsFloat(v.num) ELSE v.num

\* The numbers of an integer type.
Holds(field, n) ==
    /\ IsWhole(n)
    /\ (IF field.kind = "int" THEN -field.max - One ELSE 0) <= n
    /\ n <= field.max

(* A number that an integer field can hold is held as it is, and any other is
   refused: none is clamped, wrapped or cut, up to the ends of the widest type,
   which float64 cannot hold.  Only a minus is too much for an unsigned field,
   be it before a zero. *)
IntegersAreExactOrRefused ==
    (Finished("number") /\ job.field.kind # "float") =>
      LET v == job.value
          n == Asked(v, job.field)
      IN answer.held = IF /\ v.form \notin {"word", "bool"} /\ Holds(job.field, n)
                          /\ ~(job.field.kind = "uint" /\ v.sign = "-")
                       THEN {n} ELSE {}

\* n is in the interval that is written.
InInterval(n, range) ==
    /\ \A b \in range.min : b < n \/ (range.minInclude /\ b = n)
    /\ \A b \in range.max : n < b \/ (range.maxInclude /\ b = n)

(* The range of a field is the interval that is written, for the value the
   field holds: where the number and a bound have the same float64 without
   being the same number the check may err, but a closed interval never refuses
   a number in it, nor does an open one take a number beyond it. *)
RangeIsTheInterval ==
    (job.kind = "number" /\ answer.step = "checked") =>
      \A n \in answer.held \ {NaN} :
        LET bounds == job.range.min \cup job.range.max
            inside == InInterval(n, job.range)
        IN /\ (\A b \in bounds : n = b \/ AsFloat(n) # Float64[b]) => (answer.inside <=> inside)
           /\ (job.range.minInclude /\ job.range.maxInclude /\ inside) => answer.inside
           /\ (~job.range.minInclude /\ ~job.range.maxInclude /\ answer.inside) => inside
=============================================================================
