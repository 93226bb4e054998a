------------------------ MODULE Computations_proofs ------------------------
(***************************************************************************)
(* The properties of numbers, of errors, of options and of texts with      *)
(* references: for numbers of any width and every rounding that keeps      *)
(* their order, for chains of errors of any depth, for lists of options of *)
(* any length, for texts of any length and fallbacks of any depth.         *)
(***************************************************************************)
EXTENDS Numbers, References, Options, ErrorChains, SequenceTheorems, TLAPS

\* For its facts about numbers and loops; no loop of the code is meant.
LOCAL Counting == INSTANCE Iteration_proofs WITH Round <- LAMBDA given, acc, i : acc
LoopOfOptions == INSTANCE Iteration_proofs WITH Round <- NextOption
LoopOfBinderOptions == INSTANCE Iteration_proofs WITH Round <- NextBinderOption

-----------------------------------------------------------------------------
(***************************************************************************)
(* Numbers                                                                 *)
(***************************************************************************)

\* What a step leaves: the answer is what the code computes for the job.
Checked(n) == [step |-> "checked", held |-> {n}, inside |-> contains(parsed(job.range), numericValue(n))]

NumberInv ==
    /\ job \in NumberJob
    /\ \/ answer = NoAnswer
       \/ answer = [step |-> "assigned", held |-> assignScalar(job.field, job.value)]
       \/ \E n \in assignScalar(job.field, job.value) : answer = Checked(n)

-----------------------------------------------------------------------------
(* Rounding *)

\* The assumptions, one fact each.
LEMMA TheNumbers ==
    /\ One \in Int /\ 0 < One /\ 0 \in Number
    /\ NaN \in Int /\ Infinity \in Int
    /\ MaxInt64 \in Number /\ MinInt64 \in Number /\ MaxUint64 \in Number
    /\ \A n \in Number : n \in Int /\ n # NaN /\ -Infinity < n /\ n < Infinity
    /\ NaN # Infinity /\ NaN # -Infinity
    /\ 0 <= MaxInt64 /\ MaxInt64 <= MaxUint64
  BY NumbersAssumption DEF NumbersAssumption

LEMMA MinBelowZero == \A n \in Number : 0 <= n => MinInt64 <= n
  BY TheNumbers DEF MinInt64

LEMMA TheTypes ==
    /\ \A max \in IntMax : max \in Number /\ max <= MaxInt64
    /\ \A max \in UintMax : max \in Number /\ max <= MaxUint64
  BY NumbersAssumption DEF NumbersAssumption

LEMMA TheRounding ==
    /\ \A n \in Number : Float64[n] \in Number /\ Float32[n] \in Number
    /\ \A m, n \in Number : m <= n => Float64[m] <= Float64[n]
    /\ \A n \in Number : Float64[Float64[n]] = Float64[n]
    /\ MaxInt64 < Float64[MaxInt64] /\ MaxUint64 < Float64[MaxUint64]
  BY RoundingAssumption DEF RoundingAssumption

\* A number that a float64 can be: rounding leaves it as it is.
LEMMA AsFloatIsAFloat ==
    ASSUME NEW n \in Number \cup Special
    PROVE  /\ AsFloat(n) \in Number \cup Special
           /\ n # NaN => AsFloat(n) # NaN
           /\ AsFloat(AsFloat(n)) = AsFloat(n)
  <1>1. CASE n \in Number
    BY <1>1, TheNumbers, TheRounding DEF AsFloat
  <1>2. CASE n \notin Number
    BY <1>2, TheNumbers DEF AsFloat
  <1> QED
    BY <1>1, <1>2

\* A float64 that is below the float64 nearest to a number is below the number.
LEMMA FloatBelow ==
    ASSUME NEW x \in Number, Float64[x] = x, NEW max \in Number, x < Float64[max]
    PROVE  x <= max
  <1>1. SUFFICES ASSUME max <= x PROVE x = max
    BY TheNumbers
  <1>2. Float64[max] <= Float64[x]
    BY <1>1, TheRounding
  <1> QED
    BY <1>2, TheNumbers, TheRounding

\* The order of two numbers is the order of their float64, unless that is the
\* same one.
LEMMA RoundingKeepsOrder ==
    ASSUME NEW n \in (Number \cup Special) \ {NaN}, NEW b \in Number
    PROVE  /\ n < b => AsFloat(n) <= Float64[b]
           /\ b < n => Float64[b] <= AsFloat(n)
           /\ n = b => AsFloat(n) = Float64[b]
           /\ AsFloat(n) \in Int /\ AsFloat(n) # NaN
           /\ Float64[b] \in Int /\ n \in Int /\ b \in Int
  <1>1. Float64[b] \in Number
    BY TheRounding
  <1>2. CASE n \in Number
    BY <1>1, <1>2, TheNumbers, TheRounding DEF AsFloat
  <1>3. CASE n \notin Number
    BY <1>1, <1>3, TheNumbers DEF AsFloat, Special
  <1> QED
    BY <1>2, <1>3

-----------------------------------------------------------------------------
(* What the conversions give *)

LEMMA ToInt64OfFloat ==
    ASSUME NEW x \in Number \cup Special, AsFloat(x) = x
    PROVE  floatToInt64(x) = IF IsWhole(x) /\ MinInt64 <= x /\ x <= MaxInt64 THEN {x} ELSE {}
  <1> USE TheNumbers, TheRounding
  <1>1. CASE x \in Number
    <2>1. x < Float64[MaxInt64] => x <= MaxInt64
      BY <1>1, FloatBelow DEF AsFloat
    <2>2. x <= MaxInt64 => x < Float64[MaxInt64]
      BY <1>1
    <2>3. HasFraction(x) <=> ~IsWhole(x)
      BY <1>1 DEF HasFraction
    <2>4. x \in Int /\ Float64[MaxInt64] \in Int /\ MaxInt64 \in Int /\ MinInt64 \in Int
      BY <1>1
    <2> QED
      BY <2>1, <2>2, <2>3, <2>4 DEF floatToInt64, ToInt64
  <1>2. CASE x \notin Number
    <2>1. ~IsWhole(x)
      BY <1>2 DEF IsWhole
    <2>2. HasFraction(x) \/ x >= Float64[MaxInt64] \/ x < MinInt64
      BY <1>2 DEF HasFraction, Special
    <2> QED
      BY <2>1, <2>2 DEF floatToInt64
  <1> QED
    BY <1>1, <1>2

LEMMA ToUint64OfFloat ==
    ASSUME NEW x \in Number \cup Special, AsFloat(x) = x
    PROVE  floatToUint64(x) = IF IsWhole(x) /\ 0 <= x /\ x <= MaxUint64 THEN {x} ELSE {}
  <1> USE TheNumbers, TheRounding
  <1>1. CASE x \in Number
    <2>1. x < Float64[MaxUint64] => x <= MaxUint64
      BY <1>1, FloatBelow DEF AsFloat
    <2>2. x <= MaxUint64 => x < Float64[MaxUint64]
      BY <1>1
    <2>3. HasFraction(x) <=> ~IsWhole(x)
      BY <1>1 DEF HasFraction
    <2>4. x \in Int /\ Float64[MaxUint64] \in Int /\ MaxUint64 \in Int
      BY <1>1
    <2> QED
      BY <2>1, <2>2, <2>3, <2>4 DEF floatToUint64
  <1>2. CASE x \notin Number
    <2>1. ~IsWhole(x)
      BY <1>2 DEF IsWhole
    <2>2. HasFraction(x) \/ x < 0 \/ x >= Float64[MaxUint64]
      BY <1>2 DEF HasFraction, Special
    <2> QED
      BY <2>1, <2>2 DEF floatToUint64
  <1> QED
    BY <1>1, <1>2

\* The number a value is converted to by each of the two.
LEMMA ToInt64IsAsked ==
    ASSUME NEW v \in Value, NEW field \in Field, field.kind = "int"
    PROVE  toInt64(v) = {n \in {Asked(v, field)} : /\ v.form \notin {"word", "bool"}
                                                  /\ IsWhole(n) /\ MinInt64 <= n /\ n <= MaxInt64}
  <1> DEFINE x == AsFloat(v.num)
  <1>1. v.num \in Number \cup Special /\ x \in Number \cup Special /\ AsFloat(x) = x
    BY AsFloatIsAFloat DEF Value
  <1>2. floatToInt64(x) = IF IsWhole(x) /\ MinInt64 <= x /\ x <= MaxInt64 THEN {x} ELSE {}
    BY <1>1, ToInt64OfFloat
  <1> HIDE DEF x
  <1>3. CASE v.form = "integer"
    <2>1. Asked(v, field) = v.num
      BY <1>3 DEF Asked, ReadAsFloat
    <2>2. IsWhole(v.num)
      BY <1>3 DEF Value
    <2> QED
      BY <1>3, <2>1, <2>2 DEF toInt64
  <1>4. CASE v.form = "decimal"
    <2>1. Asked(v, field) = x
      BY <1>4 DEF Asked, ReadAsFloat, x
    <2>2. toInt64(v) = floatToInt64(x)
      BY <1>4 DEF toInt64, ParseFloat, x
    <2> QED
      BY <1>2, <1>4, <2>1, <2>2
  <1>5. CASE v.form = "float"
    <2>1. Asked(v, field) = x /\ v.num = x
      BY <1>5 DEF Asked, ReadAsFloat, x, Value
    <2>2. toInt64(v) = floatToInt64(x)
      BY <1>5, <2>1 DEF toInt64
    <2> QED
      BY <1>2, <1>5, <2>1, <2>2
  <1>6. CASE v.form = "int"
    <2>1. Asked(v, field) = v.num
      BY <1>6 DEF Asked, ReadAsFloat
    <2>2. IsWhole(v.num) /\ MinInt64 <= v.num /\ v.num <= MaxInt64
      BY <1>6 DEF Value
    <2> QED
      BY <1>6, <2>1, <2>2 DEF toInt64
  <1>7. CASE v.form = "uint"
    <2>1. Asked(v, field) = v.num
      BY <1>7 DEF Asked, ReadAsFloat
    <2>2. IsWhole(v.num) /\ v.num \in Number /\ 0 <= v.num
      BY <1>7 DEF Value
    <2>3. MinInt64 <= v.num
      BY <2>2, MinBelowZero
    <2> QED
      BY <1>7, <2>1, <2>2, <2>3 DEF toInt64
  <1>8. CASE v.form \in {"word", "bool"}
    BY <1>8 DEF toInt64, ParseFloat
  <1> QED
    BY <1>3, <1>4, <1>5, <1>6, <1>7, <1>8 DEF Value

LEMMA ToUint64IsAsked ==
    ASSUME NEW v \in Value, NEW field \in Field, field.kind = "uint"
    PROVE  toUint64(v) = {n \in {Asked(v, field)} : /\ v.form \notin {"word", "bool"} /\ v.sign # "-"
                                                   /\ IsWhole(n) /\ 0 <= n /\ n <= MaxUint64}
  <1> DEFINE x == AsFloat(v.num)
  <1>1. v.num \in Number \cup Special /\ x \in Number \cup Special /\ AsFloat(x) = x
    BY AsFloatIsAFloat DEF Value
  <1>2. floatToUint64(x) = IF IsWhole(x) /\ 0 <= x /\ x <= MaxUint64 THEN {x} ELSE {}
    BY <1>1, ToUint64OfFloat
  <1> HIDE DEF x
  <1>3. v.sign \in {"", "-", "+"} /\ (v.sign # "" => v.form \in {"integer", "decimal"})
    BY DEF Value
  <1>4. CASE v.form = "integer" /\ v.sign = ""
    <2>1. Asked(v, field) = v.num
      BY <1>4 DEF Asked, ReadAsFloat
    <2>2. IsWhole(v.num) /\ 0 <= v.num
      BY <1>4, TheNumbers DEF Value
    <2> QED
      BY <1>4, <2>1, <2>2 DEF toUint64
  <1>5. CASE v.sign = "-"
    BY <1>3, <1>5 DEF toUint64
  <1>6. CASE (v.form = "integer" /\ v.sign = "+") \/ (v.form = "decimal" /\ v.sign # "-")
    <2>1. Asked(v, field) = x
      BY <1>6 DEF Asked, ReadAsFloat, x
    <2>2. toUint64(v) = floatToUint64(x)
      BY <1>6 DEF toUint64, ParseFloat, x
    <2> QED
      BY <1>2, <1>6, <2>1, <2>2
  <1>7. CASE v.form = "float"
    <2>1. Asked(v, field) = x /\ v.num = x
      BY <1>7 DEF Asked, ReadAsFloat, x, Value
    <2>2. toUint64(v) = floatToUint64(x)
      BY <1>3, <1>7, <2>1 DEF toUint64
    <2> QED
      BY <1>2, <1>3, <1>7, <2>1, <2>2
  <1>8. CASE v.form = "int"
    <2>1. Asked(v, field) = v.num
      BY <1>8 DEF Asked, ReadAsFloat
    <2>2. IsWhole(v.num) /\ v.num \in Number /\ v.num <= MaxInt64
      BY <1>8 DEF Value
    <2>3. v.num <= MaxUint64
      BY <2>2, TheNumbers
    <2>4. toUint64(v) = {n \in {v.num} : n >= 0}
      BY <1>3, <1>8 DEF toUint64
    <2>5. v.num >= 0 <=> 0 <= v.num
      BY <2>2, TheNumbers
    <2> QED
      BY <1>3, <1>8, <2>1, <2>2, <2>3, <2>4, <2>5
  <1>9. CASE v.form = "uint"
    <2>1. Asked(v, field) = v.num
      BY <1>9 DEF Asked, ReadAsFloat
    <2>2. IsWhole(v.num) /\ 0 <= v.num /\ v.num <= MaxUint64
      BY <1>9 DEF Value
    <2> QED
      BY <1>3, <1>9, <2>1, <2>2 DEF toUint64
  <1>10. CASE v.form \in {"word", "bool"}
    BY <1>3, <1>10 DEF toUint64, ParseFloat
  <1> QED
    BY <1>3, <1>4, <1>5, <1>6, <1>7, <1>8, <1>9, <1>10 DEF Value

\* A field of an integer type is given the number it is asked to hold, or none.
LEMMA IntegerIsExactOrRefused ==
    ASSUME NEW v \in Value, NEW field \in Field, field.kind # "float"
    PROVE  assignScalar(field, v) =
             IF /\ v.form \notin {"word", "bool"} /\ Holds(field, Asked(v, field))
                /\ ~(field.kind = "uint" /\ v.sign = "-")
             THEN {Asked(v, field)} ELSE {}
  <1>1. CASE field.kind = "int"
    <2> DEFINE n == Asked(v, field)
    <2>1. field.max \in IntMax
      BY <1>1 DEF Field
    <2>2. Holds(field, n) => MinInt64 <= n /\ n <= MaxInt64
      BY <1>1, <2>1, TheNumbers, TheTypes DEF Holds, MinInt64, IsWhole
    <2>3. assignScalar(field, v) = {m \in toInt64(v) : -field.max - One <= m /\ m <= field.max}
      BY <1>1 DEF assignScalar, assignInt
    <2> HIDE DEF n
    <2>4. assignScalar(field, v) = {m \in {n} : /\ v.form \notin {"word", "bool"}
                                                /\ Holds(field, m) /\ MinInt64 <= m /\ m <= MaxInt64}
      BY <1>1, <2>3, ToInt64IsAsked DEF n, Holds
    <2> QED
      BY <1>1, <2>2, <2>4 DEF n
  <1>2. CASE field.kind = "uint"
    <2> DEFINE n == Asked(v, field)
    <2>1. field.max \in UintMax
      BY <1>2 DEF Field
    <2>2. Holds(field, n) => n <= MaxUint64
      BY <1>2, <2>1, TheNumbers, TheTypes DEF Holds, IsWhole
    <2>3. assignScalar(field, v) = {m \in toUint64(v) : m <= field.max}
      BY <1>2 DEF assignScalar, assignUint
    <2> HIDE DEF n
    <2>4. assignScalar(field, v) = {m \in {n} : /\ v.form \notin {"word", "bool"} /\ v.sign # "-"
                                                /\ Holds(field, m) /\ m <= MaxUint64}
      BY <1>2, <2>3, ToUint64IsAsked DEF n, Holds
    <2> QED
      BY <1>2, <2>2, <2>4 DEF n
  <1> QED
    BY <1>1, <1>2 DEF Field

\* What a field holds is a number, or what the floats have besides.
LEMMA ScalarIsANumber ==
    ASSUME NEW v \in Value, NEW field \in Field
    PROVE  assignScalar(field, v) \subseteq Number \cup Special
  <1>1. CASE field.kind = "float"
    <2>1. toFloat64(v) \subseteq Number \cup Special
      BY AsFloatIsAFloat DEF toFloat64, ParseFloat, Value
    <2>2. ASSUME NEW x \in Number \cup Special PROVE SetFloat(field, x) \in Number \cup Special
      BY TheRounding DEF SetFloat
    <2> QED
      BY <1>1, <2>1, <2>2 DEF assignScalar, assignFloat
  <1>2. CASE field.kind # "float"
    BY <1>2, IntegerIsExactOrRefused DEF Holds, IsWhole
  <1> QED
    BY <1>1, <1>2

-----------------------------------------------------------------------------
(* The range of a tag *)

LEMMA ContainsIsTheInterval ==
    ASSUME NEW n \in (Number \cup Special) \ {NaN}, NEW range \in TagRange
    PROVE  LET bounds == range.min \cup range.max
               inside == InInterval(n, range)
               accepted == contains(parsed(range), numericValue(n))
           IN /\ (\A b \in bounds : n = b \/ AsFloat(n) # Float64[b]) => (accepted <=> inside)
              /\ (range.minInclude /\ range.maxInclude /\ inside) => accepted
              /\ (~range.minInclude /\ ~range.maxInclude /\ accepted) => inside
  <1> DEFINE x == AsFloat(n)
             accepted == contains(parsed(range), numericValue(n))
  <1>1. range.min \subseteq Number /\ range.max \subseteq Number
        /\ range.minInclude \in BOOLEAN /\ range.maxInclude \in BOOLEAN
    BY DEF TagRange
  <1>2. \A b \in Number : /\ n < b => x <= Float64[b]
                          /\ b < n => Float64[b] <= x
                          /\ n = b => x = Float64[b]
                          /\ x \in Int /\ x # NaN
                          /\ Float64[b] \in Int /\ n \in Int /\ b \in Int
    BY RoundingKeepsOrder
  <1>3. x # NaN
    BY AsFloatIsAFloat
  <1> HIDE DEF x
  <1>4. accepted <=> /\ \A b \in range.min : ~(x < Float64[b] \/ (~range.minInclude /\ x = Float64[b]))
                     /\ \A b \in range.max : ~(x > Float64[b] \/ (~range.maxInclude /\ x = Float64[b]))
    <2>1. /\ parsed(range).min = {Float64[b] : b \in range.min}
          /\ parsed(range).max = {Float64[b] : b \in range.max}
          /\ parsed(range).minInclude = range.minInclude
          /\ parsed(range).maxInclude = range.maxInclude
      BY DEF parsed, TagRange
    <2>2. numericValue(n) = x
      BY DEF numericValue, x
    <2> QED
      BY <1>3, <2>1, <2>2 DEF contains
  <1> HIDE DEF accepted
  <1>5. ASSUME NEW b \in Number
        PROVE  /\ n = b \/ x # Float64[b] => (x < Float64[b] <=> n < b) /\ (x > Float64[b] <=> b < n)
               /\ (x < Float64[b] => n < b) /\ (x > Float64[b] => b < n)
               /\ x < Float64[b] \/ x = Float64[b] \/ x > Float64[b]
               /\ n < b \/ n = b \/ b < n
    BY <1>2
  <1> QED
    BY <1>1, <1>2, <1>4, <1>5 DEF InInterval, accepted, x

-----------------------------------------------------------------------------
(* The theorems *)

LEMMA NumberInvariant == NumberSpec => []NumberInv
  <1>1. NumberInit => NumberInv
    BY DEF NumberInit, NumberInv
  <1>2. NumberInv /\ [NumberNext]_<<job, answer>> => NumberInv'
    <2> SUFFICES ASSUME NumberInv, [NumberNext]_<<job, answer>> PROVE NumberInv'
      OBVIOUS
    <2>1. CASE Assign
      BY <2>1 DEF NumberInv, Assign, Begins
    <2>2. CASE CheckRange
      <3>1. PICK n \in answer.held : answer' = Checked(n)
        BY <2>2 DEF CheckRange, Checked
      <3>2. answer.held \subseteq assignScalar(job.field, job.value)
        BY <2>2 DEF NumberInv, CheckRange, Checked, NoAnswer
      <3> QED
        BY <2>2, <3>1, <3>2 DEF NumberInv, CheckRange, Checked
    <2>3. CASE UNCHANGED <<job, answer>>
      BY <2>3 DEF NumberInv, Checked
    <2> QED
      BY <2>1, <2>2, <2>3 DEF NumberNext
  <1> QED
    BY <1>1, <1>2, PTL DEF NumberSpec

(* assignInt and assignUint give an integer field the number it is asked to
   hold, or refuse it: for every width of the types and of the floats. *)
THEOREM IntegersStayExact == NumberSpec => []IntegersAreExactOrRefused
  <1>1. NumberInv => IntegersAreExactOrRefused
    <2> SUFFICES ASSUME NumberInv, job.field.kind # "float", answer # NoAnswer
                 PROVE  LET v == job.value
                            n == Asked(v, job.field)
                        IN answer.held = IF /\ v.form \notin {"word", "bool"} /\ Holds(job.field, n)
                                            /\ ~(job.field.kind = "uint" /\ v.sign = "-")
                                         THEN {n} ELSE {}
      BY DEF IntegersAreExactOrRefused, Finished
    <2>1. job.value \in Value /\ job.field \in Field
      BY GivenAssumption DEF NumberInv, NumberJob, GivenAssumption
    <2>2. answer.held = assignScalar(job.field, job.value)
          \/ \E n \in assignScalar(job.field, job.value) : answer.held = {n}
      BY DEF NumberInv, Checked
    <2> QED
      BY <2>1, <2>2, IntegerIsExactOrRefused, ZenonT(30)
  <1> QED
    BY <1>1, NumberInvariant, PTL

(* checkRange takes a field for inside its range when the number it holds is in
   the interval the tag writes, up to what float64 cannot tell apart: for every
   rounding that keeps the order of the numbers. *)
THEOREM RangesAreIntervals == NumberSpec => []RangeIsTheInterval
  <1>1. NumberInv => RangeIsTheInterval
    <2> SUFFICES ASSUME NumberInv, answer.step = "checked", NEW m \in answer.held \ {NaN}
                 PROVE  LET bounds == job.range.min \cup job.range.max
                            inside == InInterval(m, job.range)
                        IN /\ (\A b \in bounds : m = b \/ AsFloat(m) # Float64[b]) => (answer.inside <=> inside)
                           /\ (job.range.minInclude /\ job.range.maxInclude /\ inside) => answer.inside
                           /\ (~job.range.minInclude /\ ~job.range.maxInclude /\ answer.inside) => inside
      BY DEF RangeIsTheInterval
    <2>1. job.value \in Value /\ job.field \in Field /\ job.range \in TagRange
      BY GivenAssumption DEF NumberInv, NumberJob, GivenAssumption
    <2>2. PICK n \in assignScalar(job.field, job.value) : answer = Checked(n)
      BY DEF NumberInv, NoAnswer
    <2>3. answer.held = {n} /\ answer.inside = contains(parsed(job.range), numericValue(n))
      BY <2>2 DEF Checked
    <2>4. m = n /\ n \in (Number \cup Special) \ {NaN}
      BY <2>1, <2>3, ScalarIsANumber
    <2> QED
      BY <2>1, <2>3, <2>4, ContainsIsTheInterval
  <1> QED
    BY <1>1, NumberInvariant, PTL

-----------------------------------------------------------------------------
(***************************************************************************)
(* Errors                                                                  *)
(***************************************************************************)

(* Errors: chains are finite, so that what is proved of an error when it holds
   of those it wraps holds of every error. *)

Shapes == {{"leaf"}, {"kind", "field", "cause"}, {"wraps"}, {"joins"}}

Wrapped(err) ==
    (IF "kind" \in DOMAIN err THEN {err.kind} \cup err.cause ELSE {})
    \cup (IF "wraps" \in DOMAIN err THEN {err.wraps} ELSE {})
    \cup (IF "joins" \in DOMAIN err THEN {err.joins[i] : i \in DOMAIN err.joins} ELSE {})

WellFormed(err) ==
    /\ err = [f \in DOMAIN err |-> err[f]] /\ DOMAIN err \in Shapes
    /\ "joins" \in DOMAIN err => err.joins \in Seq({err.joins[i] : i \in DOMAIN err.joins})

\* The errors of S wrap errors of S, from the ones that wrap none upwards.
FoundedErrors(S) ==
    /\ \A e \in S : WellFormed(e) /\ Wrapped(e) \subseteq S
    /\ \A T \in SUBSET S : (\A e \in S : Wrapped(e) \subseteq T => e \in T) => T = S

IsChain(err) == \E S : err \in S /\ FoundedErrors(S)

LEMMA ChainWraps ==
    ASSUME NEW err, IsChain(err)
    PROVE  WellFormed(err) /\ \A e \in Wrapped(err) : IsChain(e)
<1>1. PICK S : err \in S /\ FoundedErrors(S)
  BY DEF IsChain
<1> QED
  BY <1>1 DEF FoundedErrors, IsChain

LEMMA ChainOfWrapped ==
    ASSUME NEW err, WellFormed(err), \A e \in Wrapped(err) : IsChain(e)
    PROVE  IsChain(err)
<1> DEFINE around(e) == CHOOSE S : e \in S /\ FoundedErrors(S)
           U == (UNION {around(e) : e \in Wrapped(err)}) \cup {err}
<1>1. ASSUME NEW e \in Wrapped(err) PROVE e \in around(e) /\ FoundedErrors(around(e)) /\ around(e) \subseteq U
  <2>1. \E S : e \in S /\ FoundedErrors(S)
    BY DEF IsChain
  <2>2. e \in around(e) /\ FoundedErrors(around(e))
    BY <2>1
  <2> QED  BY <2>2
<1>2. ASSUME NEW u \in U PROVE u = err \/ \E e \in Wrapped(err) : u \in around(e)
  OBVIOUS
<1>3. err \in U
  OBVIOUS
<1> HIDE DEF U, around
<1>4. Wrapped(err) \subseteq U
  BY <1>1
<1>5. ASSUME NEW u \in U PROVE WellFormed(u) /\ Wrapped(u) \subseteq U
  <2>1. CASE u = err
    BY <2>1, <1>4
  <2>2. ASSUME NEW e \in Wrapped(err), u \in around(e) PROVE WellFormed(u) /\ Wrapped(u) \subseteq U
    BY <2>2, <1>1 DEF FoundedErrors
  <2> QED  BY <2>1, <2>2, <1>2
<1>6. ASSUME NEW T \in SUBSET U, \A u \in U : Wrapped(u) \subseteq T => u \in T PROVE T = U
  <2>1. ASSUME NEW e \in Wrapped(err) PROVE around(e) \subseteq T
    <3> DEFINE A == around(e)
               R == T \cap A
    <3>1. FoundedErrors(A) /\ A \subseteq U
      BY <1>1, <2>1
    <3> HIDE DEF A
    <3>2. ASSUME NEW u \in A, Wrapped(u) \subseteq R PROVE u \in R
      BY <1>6, <3>1, <3>2
    <3>3. R = A
      <4>1. R \in SUBSET A
        OBVIOUS
      <4> HIDE DEF R
      <4> QED  BY <4>1, <3>1, <3>2 DEF FoundedErrors
    <3> QED  BY <3>3 DEF A
  <2>2. Wrapped(err) \subseteq T
    BY <2>1, <1>1
  <2>3. err \in T
    BY <2>2, <1>6, <1>3
  <2> QED  BY <2>1, <2>3, <1>2
<1>7. FoundedErrors(U)
  BY <1>5, <1>6 DEF FoundedErrors
<1> QED
  BY <1>3, <1>7 DEF IsChain

\* What the definitions of ErrorChains ask about an error inside an error is
\* what they say of it.
ChainsRecur ==
    \A e : IsChain(e) =>
      /\ \A s \in Sentinels : InnerReaches(e, s) <=> Reaches(e, s)
      /\ InnerIsError(e) <=> IsError(e)
      /\ InnerFieldOf(e) = FieldOf(e)
      /\ \A path : InnerSetField(e, path) = SetField(e, path)
      /\ InnerUnwrap(e) = unwrapSentinel(e)

-----------------------------------------------------------------------------
(* A path is written into an error *)

LEMMA LeafIsChain ==
    ASSUME NEW err, WellFormed(err), DOMAIN err = {"leaf"}
    PROVE  IsChain(err) /\ ~IsError(err)
<1>1. Wrapped(err) = {}
  BY DEF Wrapped
<1> QED
  BY <1>1, ChainOfWrapped DEF IsError

\* The first error of a join that leads to an *Error is there, and the only one.
LEMMA FirstOfJoins ==
    ASSUME NEW joins, joins \in Seq({joins[i] : i \in DOMAIN joins}), NEW j \in DOMAIN joins, InnerIsError(joins[j])
    PROVE  LET first == FirstOf(joins)
               IsFirst(i) == InnerIsError(joins[i]) /\ \A k \in DOMAIN joins : k < i => ~InnerIsError(joins[k])
           IN /\ first \in DOMAIN joins /\ IsFirst(first)
              /\ \A i \in DOMAIN joins : IsFirst(i) => i = first
<1> DEFINE I == {i \in DOMAIN joins : InnerIsError(joins[i])}
           IsFirst(i) == InnerIsError(joins[i]) /\ \A k \in DOMAIN joins : k < i => ~InnerIsError(joins[k])
<1>1. DOMAIN joins = 1..Len(joins) /\ Len(joins) \in Nat
  OBVIOUS
<1>2. I \in SUBSET Nat /\ I # {}
  BY <1>1
<1>3. \E x \in I : \A y \in I : x <= y
  <2> HIDE DEF I
  <2> QED  BY <1>2, Counting!LeastNumber
<1>4. \E i \in DOMAIN joins : IsFirst(i)
  BY <1>1, <1>3
<1>5. FirstOf(joins) \in DOMAIN joins /\ IsFirst(FirstOf(joins))
  BY <1>4 DEF FirstOf
<1>6. \A i \in DOMAIN joins : IsFirst(i) => i = FirstOf(joins)
  BY <1>1, <1>5
<1> QED
  BY <1>5, <1>6

\* With a path in it an error leads to the same sentinels, and to that path.
HasTaken(e, path) ==
    LET to == SetField(e, path) IN
    /\ IsChain(to) /\ IsError(to) /\ FieldOf(to) = path
    /\ \A s \in Sentinels : Reaches(e, s) => Reaches(to, s)

LEMMA SentinelsAreLeaves ==
    \A s \in Sentinels : DOMAIN s = {"leaf"} /\ s = [f \in DOMAIN s |-> s[f]]
BY DEF Sentinels

LEMMA KindTakes ==
    ASSUME NEW e, IsChain(e), DOMAIN e = {"kind", "field", "cause"}, NEW path
    PROVE  HasTaken(e, path)
<1> DEFINE to == [e EXCEPT !.field = path]
<1>1. SetField(e, path) = to
  BY DEF SetField
<1>2. to.kind = e.kind /\ to.cause = e.cause /\ to.field = path /\ DOMAIN to = {"kind", "field", "cause"}
      /\ to = [f \in DOMAIN to |-> to[f]]
  OBVIOUS
<1> HIDE DEF to
<1>3. IsChain(to)
  <2>1. Wrapped(to) = Wrapped(e)
    BY <1>2 DEF Wrapped
  <2>2. WellFormed(to)
    BY <1>2 DEF WellFormed, Shapes
  <2> QED  BY <2>1, <2>2, ChainWraps, ChainOfWrapped
<1>4. IsError(to) /\ FieldOf(to) = path
  BY <1>2 DEF IsError, FieldOf
<1>5. ASSUME NEW s \in Sentinels, Reaches(e, s) PROVE Reaches(to, s)
  <2>1. e # s
    BY SentinelsAreLeaves
  <2> QED  BY <2>1, <1>5, <1>2 DEF Reaches
<1> QED
  BY <1>1, <1>3, <1>4, <1>5 DEF HasTaken

LEMMA WrapTakes ==
    ASSUME ChainsRecur, NEW e, IsChain(e), DOMAIN e = {"wraps"}, NEW path, HasTaken(e.wraps, path)
    PROVE  HasTaken(e, path)
<1> DEFINE inner == SetField(e.wraps, path)
           to == [e EXCEPT !.wraps = inner]
<1>1. IsChain(e.wraps)
  BY ChainWraps DEF Wrapped
<1>2. SetField(e, path) = to
  BY <1>1 DEF SetField, ChainsRecur
<1>3. to.wraps = inner /\ DOMAIN to = {"wraps"} /\ to = [f \in DOMAIN to |-> to[f]]
  OBVIOUS
<1>4. /\ IsChain(inner) /\ IsError(inner) /\ FieldOf(inner) = path
      /\ \A s \in Sentinels : Reaches(e.wraps, s) => Reaches(inner, s)
  BY DEF HasTaken
<1> HIDE DEF to, inner
<1>5. IsChain(to)
  <2>1. Wrapped(to) = {inner}
    BY <1>3 DEF Wrapped
  <2>2. WellFormed(to)
    BY <1>3 DEF WellFormed, Shapes
  <2> QED  BY <1>4, <2>1, <2>2, ChainOfWrapped
<1>6. IsError(to) /\ FieldOf(to) = path
  BY <1>3, <1>4 DEF IsError, FieldOf, ChainsRecur
<1>7. ASSUME NEW s \in Sentinels, Reaches(e, s) PROVE Reaches(to, s)
  <2>1. e # s
    BY SentinelsAreLeaves
  <2>2. Reaches(e.wraps, s)
    BY <2>1, <1>7, <1>1 DEF Reaches, ChainsRecur
  <2> QED  BY <2>2, <1>3, <1>4 DEF Reaches, ChainsRecur
<1> QED
  BY <1>2, <1>5, <1>6, <1>7 DEF HasTaken

LEMMA JoinTakes ==
    ASSUME ChainsRecur, NEW e, IsChain(e), DOMAIN e = {"joins"}, IsError(e), NEW path,
           \A i \in DOMAIN e.joins : IsError(e.joins[i]) => HasTaken(e.joins[i], path)
    PROVE  HasTaken(e, path)
<1> DEFINE first == FirstOf(e.joins)
           inner == SetField(e.joins[first], path)
           joins == [e.joins EXCEPT ![first] = inner]
           to == [e EXCEPT !.joins = joins]
<1>1. e.joins \in Seq({e.joins[i] : i \in DOMAIN e.joins}) /\ \A i \in DOMAIN e.joins : IsChain(e.joins[i])
  BY ChainWraps DEF Wrapped, WellFormed
<1>2. \A i \in DOMAIN e.joins : InnerIsError(e.joins[i]) <=> IsError(e.joins[i])
  BY <1>1 DEF ChainsRecur
<1>3. PICK j \in DOMAIN e.joins : InnerIsError(e.joins[j])
  BY DEF IsError
<1>4. /\ first \in DOMAIN e.joins /\ IsError(e.joins[first])
      /\ \A k \in DOMAIN e.joins : k < first => ~InnerIsError(e.joins[k])
  BY <1>1, <1>2, <1>3, FirstOfJoins
<1>5. SetField(e, path) = to
  <2>1. InnerSetField(e.joins[first], path) = inner
    BY <1>1, <1>4 DEF ChainsRecur
  <2>2. SetField(e, path) = [e EXCEPT !.joins[first] = InnerSetField(@, path)]
    BY DEF SetField
  <2> HIDE DEF first, inner
  <2> QED  BY <2>1, <2>2
<1>6. /\ IsChain(inner) /\ IsError(inner) /\ FieldOf(inner) = path
      /\ \A s \in Sentinels : Reaches(e.joins[first], s) => Reaches(inner, s)
  BY <1>4 DEF HasTaken
<1> HIDE DEF first, inner
<1>7. /\ DOMAIN joins = DOMAIN e.joins /\ joins[first] = inner
      /\ \A i \in DOMAIN joins \ {first} : joins[i] = e.joins[i]
      /\ joins \in Seq({joins[i] : i \in DOMAIN joins})
  <2>1. DOMAIN e.joins = 1..Len(e.joins) /\ Len(e.joins) \in Nat
    BY <1>1
  <2>2. DOMAIN joins = DOMAIN e.joins /\ joins = [i \in DOMAIN joins |-> joins[i]]
    BY <1>1
  <2>3. joins \in [1..Len(e.joins) -> {joins[i] : i \in DOMAIN joins}]
    <3> HIDE DEF joins
    <3> QED  BY <2>1, <2>2
  <2>4. joins \in Seq({joins[i] : i \in DOMAIN joins})
    <3> HIDE DEF joins
    <3> QED  BY <2>1, <2>3
  <2>5. joins[first] = inner /\ \A i \in DOMAIN joins \ {first} : joins[i] = e.joins[i]
    BY <1>4
  <2> QED  BY <2>2, <2>4, <2>5
<1>8. to.joins = joins /\ DOMAIN to = {"joins"} /\ to = [f \in DOMAIN to |-> to[f]]
  OBVIOUS
<1> HIDE DEF to, joins
<1>9. \A i \in DOMAIN joins : IsChain(joins[i])
  BY <1>1, <1>6, <1>7
<1>10. IsChain(to)
  <2>1. Wrapped(to) = {joins[i] : i \in DOMAIN joins}
    BY <1>8 DEF Wrapped
  <2>2. WellFormed(to)
    BY <1>7, <1>8 DEF WellFormed, Shapes
  <2> QED  BY <1>9, <2>1, <2>2, ChainOfWrapped
<1>11. \A i \in DOMAIN joins : InnerIsError(joins[i]) <=> InnerIsError(e.joins[i])
  BY <1>2, <1>4, <1>6, <1>7 DEF ChainsRecur
<1>12. first = FirstOf(joins)
  <2>1. InnerIsError(joins[first])
    BY <1>4, <1>7, <1>2, <1>11
  <2>2. \A k \in DOMAIN joins : k < first => ~InnerIsError(joins[k])
    BY <1>4, <1>7, <1>11
  <2> QED  BY <2>1, <2>2, <1>4, <1>7, FirstOfJoins
<1>13. IsError(to) /\ FieldOf(to) = path
  <2>1. InnerIsError(joins[first]) /\ first \in DOMAIN joins
    BY <1>4, <1>7, <1>2, <1>11
  <2>2. IsError(to)
    BY <2>1, <1>8 DEF IsError
  <2>3. FieldOf(to) = InnerFieldOf(joins[first])
    BY <1>8, <1>12 DEF FieldOf
  <2> QED  BY <2>2, <2>3, <1>6, <1>7 DEF ChainsRecur
<1>14. ASSUME NEW s \in Sentinels, Reaches(e, s) PROVE Reaches(to, s)
  <2>1. e # s
    BY SentinelsAreLeaves
  <2>2. PICK i \in DOMAIN e.joins : InnerReaches(e.joins[i], s)
    BY <2>1, <1>14 DEF Reaches
  <2>3. InnerReaches(joins[i], s)
    <3>1. CASE i = first
      <4>1. Reaches(e.joins[first], s)
        BY <3>1, <2>2, <1>1 DEF ChainsRecur
      <4> QED  BY <4>1, <3>1, <1>6, <1>7 DEF ChainsRecur
    <3>2. CASE i # first
      BY <3>2, <2>2, <1>7
    <3> QED  BY <3>1, <3>2
  <2> QED  BY <2>3, <1>7, <1>8 DEF Reaches
<1> QED
  BY <1>5, <1>10, <1>13, <1>14 DEF HasTaken

LEMMA ErrorTakes ==
    ASSUME ChainsRecur, NEW err, IsChain(err), IsError(err), NEW path
    PROVE  HasTaken(err, path)
<1>1. PICK S : err \in S /\ FoundedErrors(S)
  BY DEF IsChain
<1> DEFINE T == {e \in S : IsError(e) => HasTaken(e, path)}
<1>2. ASSUME NEW e \in S, Wrapped(e) \subseteq T PROVE e \in T
  <2>1. SUFFICES ASSUME IsError(e) PROVE HasTaken(e, path)
    BY <1>2
  <2>2. IsChain(e) /\ WellFormed(e)
    BY <1>1 DEF IsChain, FoundedErrors
  <2>3. CASE DOMAIN e = {"leaf"}
    BY <2>1, <2>2, <2>3, LeafIsChain
  <2>4. CASE DOMAIN e = {"kind", "field", "cause"}
    BY <2>2, <2>4, KindTakes
  <2>5. CASE DOMAIN e = {"wraps"}
    <3>1. e.wraps \in T /\ IsChain(e.wraps)
      BY <1>2, <2>2, <2>5, ChainWraps DEF Wrapped
    <3>2. IsError(e.wraps)
      BY <2>1, <2>5, <3>1 DEF IsError, ChainsRecur
    <3> QED  BY <2>2, <2>5, <3>1, <3>2, WrapTakes
  <2>6. CASE DOMAIN e = {"joins"}
    <3>1. \A i \in DOMAIN e.joins : e.joins[i] \in T
      BY <1>2, <2>6 DEF Wrapped
    <3> QED  BY <2>1, <2>2, <2>6, <3>1, JoinTakes
  <2> QED  BY <2>2, <2>3, <2>4, <2>5, <2>6 DEF WellFormed, Shapes
<1>3. T = S
  <2>1. T \in SUBSET S
    OBVIOUS
  <2> HIDE DEF T
  <2> QED  BY <2>1, <1>1, <1>2 DEF FoundedErrors
<1> QED
  BY <1>1, <1>3
-----------------------------------------------------------------------------
(* An error on its way out *)

\* The errors of a load are errors.
FailuresAreChains == \A f \in Failures : IsChain(f.err)

\* At a level the error is a chain that leads where the one that was reported
\* does, with the path it came with or the first one on its way.
Carries(f, level, err) ==
    LET named == {i \in 1..level : f.paths[i] # NoPath}
        HasPath(path) == IsError(err) /\ FieldOf(err) = path
    IN /\ IsChain(err)
       /\ \A s \in Sentinels : Reaches(f.err, s) => Reaches(err, s)
       /\ f.own /\ ~IsError(f.err) => Reaches(err, ErrInvalidValue)
       /\ IF IsError(f.err) /\ FieldOf(f.err) # NoPath THEN HasPath(FieldOf(f.err))
          ELSE IF named = {} THEN (f.own => HasPath(NoPath)) /\ (~f.own => err = f.err)
          ELSE \A i \in named : (\A j \in named : i <= j) => HasPath(f.paths[i])

ErrorInv ==
    /\ job \in ErrorJob
    /\ answer # NoAnswer =>
         answer.level \in 1..Len(job.failure.paths) /\ Carries(job.failure, answer.level, answer.err)

\* Where an error comes from it is what a level without a path would carry.
LEMMA CarriesFromTheStart ==
    ASSUME ChainsRecur, FailuresAreChains, NEW f \in Failures
    PROVE  Carries(f, 0, IF f.own THEN wrapInvalidValue(f.err) ELSE f.err)
<1> DEFINE err == IF f.own THEN wrapInvalidValue(f.err) ELSE f.err
           made == [newError(ErrInvalidValue) EXCEPT !.cause = {f.err}]
<1> SUFFICES Carries(f, 0, err)
  OBVIOUS
<1>1. IsChain(f.err) /\ f.own \in BOOLEAN
  BY FailuresAssumption DEF FailuresAreChains, FailuresAssumption
<1>2. {i \in 1..0 : f.paths[i] # NoPath} = {}
  OBVIOUS
<1>3. CASE ~f.own \/ IsError(f.err)
  <2>1. err = f.err
    BY <1>3 DEF wrapInvalidValue
  <2> HIDE DEF err
  <2> QED  BY <2>1, <1>1, <1>2, <1>3 DEF Carries
<1>4. CASE f.own /\ ~IsError(f.err)
  <2>1. err = made
    BY <1>4 DEF wrapInvalidValue
  <2>2. made.kind = ErrInvalidValue /\ made.cause = {f.err} /\ made.field = NoPath
        /\ DOMAIN made = {"kind", "field", "cause"} /\ made = [x \in DOMAIN made |-> made[x]]
    BY DEF newError
  <2> HIDE DEF err, made
  <2>3. IsChain(ErrInvalidValue) /\ ErrInvalidValue \in Sentinels
    <3>1. WellFormed(ErrInvalidValue) /\ DOMAIN ErrInvalidValue = {"leaf"}
      BY DEF ErrInvalidValue, WellFormed, Shapes
    <3> QED  BY <3>1, LeafIsChain DEF Sentinels, ErrInvalidValue
  <2>4. IsChain(made)
    <3>1. Wrapped(made) = {ErrInvalidValue, f.err} /\ WellFormed(made)
      BY <2>2 DEF Wrapped, WellFormed, Shapes
    <3> QED  BY <3>1, <2>3, <1>1, ChainOfWrapped
  <2>5. Reaches(ErrInvalidValue, ErrInvalidValue)
    BY DEF Reaches
  <2>6. \A s \in Sentinels : Reaches(f.err, s) \/ s = ErrInvalidValue => Reaches(made, s)
    BY <2>2, <2>3, <2>5, <1>1 DEF Reaches, ChainsRecur
  <2>7. IsError(made) /\ FieldOf(made) = NoPath
    BY <2>2 DEF IsError, FieldOf
  <2> QED  BY <2>1, <2>3, <2>4, <2>6, <2>7, <1>2, <1>4 DEF Carries
<1> QED
  BY <1>3, <1>4

\* An error of a conversion that is no *Error ends in one sentinel.
LEMMA ConversionsEnd ==
    ASSUME ChainsRecur, NEW err, IsChain(err), OfConversion(err), ~IsError(err), NEW path
    PROVE  LET to == [newError(unwrapSentinel(err)) EXCEPT !.field = path] IN
           /\ IsChain(to) /\ IsError(to) /\ FieldOf(to) = path
           /\ \A s \in Sentinels : Reaches(err, s) => Reaches(to, s)
<1> DEFINE to == [newError(unwrapSentinel(err)) EXCEPT !.field = path]
<1>1. PICK l : /\ IsChain(l) /\ DOMAIN l = {"leaf"} /\ l = unwrapSentinel(err)
               /\ \A s \in Sentinels : Reaches(err, s) => l = s
  <2>1. CASE IsLeaf(err)
    <3>1. err = unwrapSentinel(err) /\ \A s \in Sentinels : Reaches(err, s) => err = s
      BY <2>1 DEF IsLeaf, unwrapSentinel, Reaches
    <3> QED  BY <2>1, <3>1 DEF IsLeaf
  <2>2. CASE DOMAIN err = {"wraps"} /\ IsLeaf(err.wraps)
    <3>1. IsChain(err.wraps)
      BY <2>2, ChainWraps DEF Wrapped
    <3>2. InnerUnwrap(err.wraps) = err.wraps
      BY <2>2, <3>1 DEF ChainsRecur, unwrapSentinel, IsLeaf
    <3>3. unwrapSentinel(err) = err.wraps
      BY <2>2, <3>2 DEF unwrapSentinel
    <3>4. ASSUME NEW s \in Sentinels, Reaches(err, s) PROVE err.wraps = s
      <4>1. err # s
        BY <2>2, SentinelsAreLeaves
      <4>2. Reaches(err.wraps, s)
        BY <4>1, <3>4, <2>2, <3>1 DEF Reaches, ChainsRecur
      <4> QED  BY <4>2, <2>2 DEF Reaches, IsLeaf
    <3> QED  BY <2>2, <3>1, <3>3, <3>4 DEF IsLeaf
  <2>3. CASE IsLeaf(err.kind) /\ err = newError(err.kind)
    <3>1. "kind" \in DOMAIN err
      BY <2>3 DEF newError
    <3> QED  BY <3>1 DEF IsError
  <2> QED  BY <2>1, <2>2, <2>3 DEF OfConversion
<1>2. to.kind = l /\ to.cause = {} /\ to.field = path /\ DOMAIN to = {"kind", "field", "cause"}
      /\ to = [x \in DOMAIN to |-> to[x]]
  BY <1>1 DEF newError
<1> HIDE DEF to
<1>3. IsChain(to)
  <2>1. Wrapped(to) = {l} /\ WellFormed(to)
    BY <1>2 DEF Wrapped, WellFormed, Shapes
  <2> QED  BY <2>1, <1>1, ChainOfWrapped
<1>4. IsError(to) /\ FieldOf(to) = path
  BY <1>2 DEF IsError, FieldOf
<1>5. ASSUME NEW s \in Sentinels, Reaches(err, s) PROVE Reaches(to, s)
  <2>1. l = s
    BY <1>1, <1>5
  <2>2. InnerReaches(l, s)
    BY <2>1, <1>1 DEF ChainsRecur, Reaches
  <2> QED  BY <2>2, <1>2 DEF Reaches
<1> QED
  BY <1>3, <1>4, <1>5 DEF to

\* A level hands on what it was given, with its own path when there was none.
LEMMA LevelsCarry ==
    ASSUME ChainsRecur, FailuresAreChains, NEW f \in Failures, NEW n \in Nat, n + 1 \in 1..Len(f.paths),
           NEW err, Carries(f, n, err)
    PROVE  Carries(f, n + 1, fieldError(f.paths[n + 1], err))
<1> DEFINE path == f.paths[n + 1]
           to == fieldError(path, err)
           Named(k) == {i \in 1..k : f.paths[i] # NoPath}
           HasPath(e, p) == IsError(e) /\ FieldOf(e) = p
           Known == IsError(f.err) /\ FieldOf(f.err) # NoPath
<1>1. /\ IsChain(err)
      /\ \A s \in Sentinels : Reaches(f.err, s) => Reaches(err, s)
      /\ f.own /\ ~IsError(f.err) => Reaches(err, ErrInvalidValue)
      /\ Known => HasPath(err, FieldOf(f.err))
      /\ ~Known /\ Named(n) = {} => (f.own => HasPath(err, NoPath)) /\ (~f.own => err = f.err)
      /\ ~Known => \A i \in Named(n) : (\A j \in Named(n) : i <= j) => HasPath(err, f.paths[i])
  BY DEF Carries
<1>2. ErrInvalidValue \in Sentinels
  BY DEF Sentinels, ErrInvalidValue
<1>3. \A i \in 1..n : i < n + 1
  OBVIOUS
<1>4. Named(n + 1) = IF path = NoPath THEN Named(n) ELSE Named(n) \cup {n + 1}
  BY <1>3
<1>5. ASSUME Named(n) # {} PROVE \E i \in Named(n) : \A j \in Named(n) : i <= j
  <2>1. Named(n) \in SUBSET Nat
    OBVIOUS
  <2> HIDE DEF Named
  <2> QED  BY <2>1, <1>5, Counting!LeastNumber
<1>6. f.own \in BOOLEAN /\ (~f.own => OfConversion(f.err))
  BY FailuresAssumption DEF FailuresAssumption
<1>7. Named(n) \subseteq 1..n
  OBVIOUS
<1> HIDE DEF path, Named, Known, HasPath
<1>8. SUFFICES /\ IsChain(to)
               /\ \A s \in Sentinels : Reaches(err, s) => Reaches(to, s)
               /\ Known => HasPath(to, FieldOf(f.err))
               /\ ~Known /\ Named(n + 1) = {} => (f.own => HasPath(to, NoPath)) /\ (~f.own => to = f.err)
               /\ ~Known => \A i \in Named(n + 1) : (\A j \in Named(n + 1) : i <= j) => HasPath(to, f.paths[i])
  BY <1>1, <1>2 DEF Carries, Named, HasPath, Known, path
<1>9. CASE path = NoPath
  <2>1. to = err
    BY <1>9 DEF fieldError
  <2> HIDE DEF to
  <2> QED  BY <2>1, <1>1, <1>4, <1>9
<1>10. CASE path # NoPath /\ IsError(err) /\ FieldOf(err) # NoPath
  <2>1. to = err
    BY <1>10 DEF fieldError
  <2> HIDE DEF to
  <2>2. ASSUME ~Known, Named(n) = {} PROVE FALSE
    <3>1. f.own \/ err = f.err
      BY <2>2, <1>1, <1>6
    <3> QED  BY <3>1, <2>2, <1>1, <1>6, <1>10 DEF HasPath, Known
  <2>3. ASSUME ~Known, NEW i \in Named(n + 1), \A j \in Named(n + 1) : i <= j PROVE HasPath(to, f.paths[i])
    <3>1. PICK k \in Named(n) : \A j \in Named(n) : k <= j
      BY <2>2, <2>3, <1>5
    <3>2. i \in Named(n) /\ \A j \in Named(n) : i <= j
      <4>1. i <= k /\ k <= n /\ k \in Nat
        BY <3>1, <2>3, <1>4, <1>7
      <4> QED  BY <4>1, <2>3, <1>4
    <3> QED  BY <3>2, <2>1, <2>3, <1>1
  <2> QED  BY <2>1, <2>2, <2>3, <1>1, <1>4, <1>10
<1>11. CASE path # NoPath /\ IsError(err) /\ FieldOf(err) = NoPath
  <2>1. to = SetField(err, path)
    BY <1>11 DEF fieldError
  <2>2. HasTaken(err, path)
    BY <1>1, <1>11, ErrorTakes
  <2>3. IsChain(to) /\ HasPath(to, path) /\ \A s \in Sentinels : Reaches(err, s) => Reaches(to, s)
    BY <2>1, <2>2 DEF HasTaken, HasPath
  <2> HIDE DEF to
  <2>4. ~Known
    BY <1>1, <1>11 DEF Known, HasPath
  <2>5. Named(n) = {}
    <3>1. SUFFICES ASSUME Named(n) # {} PROVE FALSE
      OBVIOUS
    <3>2. PICK i \in Named(n) : \A j \in Named(n) : i <= j
      BY <3>1, <1>5
    <3> QED  BY <3>2, <2>4, <1>1, <1>11 DEF HasPath, Named
  <2> QED  BY <2>3, <2>4, <2>5, <1>4, <1>11 DEF path
<1>12. CASE path # NoPath /\ ~IsError(err)
  <2>1. ~Known /\ Named(n) = {}
    <3>1. ~Known
      BY <1>1, <1>12 DEF HasPath
    <3>2. SUFFICES ASSUME Named(n) # {} PROVE FALSE
      BY <3>1
    <3> QED  BY <3>1, <3>2, <1>1, <1>5, <1>12 DEF HasPath
  <2>2. ~f.own /\ err = f.err
    BY <2>1, <1>1, <1>6, <1>12 DEF HasPath
  <2>3. to = [newError(unwrapSentinel(err)) EXCEPT !.field = path]
    BY <1>12 DEF fieldError
  <2> HIDE DEF to
  <2>4. IsChain(to) /\ HasPath(to, path) /\ \A s \in Sentinels : Reaches(err, s) => Reaches(to, s)
    <3>1. IsChain(err) /\ OfConversion(err) /\ ~IsError(err)
      BY <2>2, <1>1, <1>6, <1>12
    <3> QED  BY <3>1, <2>3, ConversionsEnd, Zenon DEF HasPath
  <2> QED  BY <2>1, <2>4, <1>4, <1>12 DEF path
<1> QED
  BY <1>9, <1>10, <1>11, <1>12

LEMMA ErrorInvariant ==
    ASSUME ChainsRecur, FailuresAreChains
    PROVE  ErrorSpec => []ErrorInv
<1>1. ErrorInit => ErrorInv
  BY DEF ErrorInit, ErrorInv
<1>2. ASSUME NEW f \in Failures PROVE f.paths \in Seq(STRING) /\ Len(f.paths) \in Nat /\ Len(f.paths) >= 1
  BY FailuresAssumption DEF FailuresAssumption
<1>3. ErrorInv /\ [ErrorNext]_<<job, answer>> => ErrorInv'
  <2> SUFFICES ASSUME ErrorInv, [ErrorNext]_<<job, answer>> PROVE ErrorInv'
    OBVIOUS
  <2>1. CASE Report
    <3>1. job' = job /\ job.failure \in Failures
      BY <2>1 DEF Report, Begins, ErrorInv, ErrorJob
    <3> DEFINE f == job.failure
               err == IF f.own THEN wrapInvalidValue(f.err) ELSE f.err
    <3>2. answer' = [level |-> 1, err |-> fieldError(f.paths[1], err)]
      BY <2>1 DEF Report
    <3>3. Carries(f, 0, err)
      BY <3>1, CarriesFromTheStart
    <3> HIDE DEF err, f
    <3>4. Carries(f, 0 + 1, fieldError(f.paths[0 + 1], err))
      <4>1. f \in Failures /\ 0 \in Nat /\ 0 + 1 \in 1..Len(f.paths)
        BY <3>1, <1>2 DEF f
      <4> QED  BY <4>1, <3>3, LevelsCarry
    <3>5. Carries(f, 1, fieldError(f.paths[1], err))
      BY <3>4
    <3>6. 1 \in 1..Len(f.paths)
      BY <3>1, <1>2 DEF f
    <3>7. answer'.level \in 1..Len(f.paths) /\ Carries(f, answer'.level, answer'.err)
      BY <3>2, <3>5, <3>6
    <3> QED  BY <3>1, <3>7 DEF ErrorInv, f, Carries, HasTaken
  <2>2. CASE PassOn
    <3> DEFINE f == job.failure
               n == answer.level
    <3>1. job' = job /\ f \in Failures /\ n \in 1..Len(f.paths) /\ n < Len(f.paths) /\ Carries(f, n, answer.err)
      BY <2>2 DEF PassOn, Finished, ErrorInv, ErrorJob
    <3>2. answer' = [level |-> n + 1, err |-> fieldError(f.paths[n + 1], answer.err)]
      BY <2>2 DEF PassOn
    <3> HIDE DEF f, n
    <3>3. n \in Nat /\ n + 1 \in 1..Len(f.paths)
      BY <3>1, <1>2
    <3>4. Carries(f, n + 1, fieldError(f.paths[n + 1], answer.err))
      BY <3>1, <3>3, LevelsCarry
    <3>5. answer'.level \in 1..Len(f.paths) /\ Carries(f, answer'.level, answer'.err)
      BY <3>2, <3>3, <3>4
    <3> QED  BY <3>1, <3>5 DEF ErrorInv, f
  <2>3. CASE UNCHANGED <<job, answer>>
    BY <2>3 DEF ErrorInv
  <2> QED  BY <2>1, <2>2, <2>3 DEF ErrorNext
<1> QED
  BY <1>1, <1>3, PTL DEF ErrorSpec

(* fieldError and wrapInvalidValue never lose what an error leads to, nor the
   path nearest to the failure: for errors of any depth and all levels. *)
THEOREM ErrorsStayReachable ==
    ASSUME ChainsRecur, FailuresAreChains
    PROVE  ErrorSpec => []ErrorsLeadBack
<1>1. ErrorInv => ErrorsLeadBack
  BY DEF ErrorInv, ErrorsLeadBack, Finished, Carries
<1> QED
  BY <1>1, ErrorInvariant, PTL

-----------------------------------------------------------------------------
(***************************************************************************)
(* Options                                                                 *)
(***************************************************************************)

(* A Reader in the making, seen as its settings *)

ReaderFields == {"registry", "decoders", "expander", "binder", "binderOpts", "matcher", "prefix"}
BinderFields == {"tagKey", "matcher", "env", "tagOptions", "tagOptionErr"}

\* What an option of a Reader tells the binder.
BinderOption(opt) ==
    CASE opt.fn = "WithTagKey" -> [fn |-> "WithBinderTagKey", key |-> opt.arg]
      [] opt.fn = "WithTagOption" -> [fn |-> "WithBinderTagOption", name |-> opt.name, arg |-> opt.arg]
      [] opt.fn = "WithKeyMatcher" -> [fn |-> "WithBinderKeyMatcher", arg |-> opt.arg]

ReaderBinderOptions(opts) ==
    /\ opts \in Seq({opts[i] : i \in DOMAIN opts})
    /\ \A i \in DOMAIN opts : \E opt : /\ opt.fn \in {"WithTagKey", "WithTagOption", "WithKeyMatcher"}
                                       /\ opts[i] = BinderOption(opt)
                                       /\ opt.fn = "WithKeyMatcher" => opt.arg # Nil

IsReader(r) ==
    /\ DOMAIN r = ReaderFields /\ r = [f \in DOMAIN r |-> r[f]]
    /\ ReaderBinderOptions(r.binderOpts)

IsBinder(b) == DOMAIN b = BinderFields /\ b = [f \in DOMAIN b |-> b[f]] /\ b.env = "OSLookup"

SettingNames == OptionFunctions \ {"WithEnvExpansion"}

\* The part of a Reader, and of the binder it would build, a setting is about.
Part(r, b, setting) ==
    CASE setting = "WithRegistry" -> r.registry
      [] setting = "WithDecoder" -> r.decoders
      [] setting = "WithExpander" -> r.expander
      [] setting = "WithBinder" -> r.binder
      [] setting = "WithTagKey" -> b.tagKey
      [] setting = "WithTagOption" -> <<b.tagOptions, b.tagOptionErr>>
      [] setting = "WithKeyMatcher" -> <<r.matcher, b.matcher>>
      [] setting = "WithPrefix" -> r.prefix

View(r) == [setting \in SettingNames |-> Part(r, NewStructBinder(r.binderOpts), setting)]

\* What an option makes of the part it is about.
Registered(old, opt) ==
    IF Refusal(opt.name, opt.arg) = "" THEN <<(opt.name :> opt.arg) @@ old[1], old[2]>>
    ELSE <<old[1], IF old[2] = "" THEN Refusal(opt.name, opt.arg) ELSE old[2]>>

Changed(old, opt) ==
    CASE opt.fn \in {"WithRegistry", "WithBinder"} -> IF opt.arg = Nil THEN old ELSE opt.arg
      [] opt.fn = "WithDecoder" -> IF opt.arg = Nil THEN old ELSE Append(old, opt.arg)
      [] opt.fn \in {"WithExpander", "WithEnvExpansion"} -> opt.arg
      [] opt.fn \in {"WithTagKey", "WithPrefix"} -> IF opt.arg = "" THEN old ELSE opt.arg
      [] opt.fn = "WithTagOption" -> Registered(old, opt)
      [] opt.fn = "WithKeyMatcher" -> IF opt.arg = Nil THEN old ELSE <<opt.arg, opt.arg>>

With(view, opt) ==
    IF opt = Nil THEN view
    ELSE [s \in SettingNames |-> IF s = Setting(opt) THEN Changed(view[s], opt) ELSE view[s]]

-----------------------------------------------------------------------------
(* The binder *)

\* One more option for the binder is one more round.
LEMMA OneMoreBinderOption ==
    ASSUME NEW opts, opts \in Seq({opts[i] : i \in DOMAIN opts}), NEW opt
    PROVE  NewStructBinder(Append(opts, opt)) = ApplyBinder(NewStructBinder(opts), opt)
<1> DEFINE n == Len(opts)
           more == Append(opts, opt)
           short == LoopOfBinderOptions!Run(opts, DefaultBinder, n)
           long == LoopOfBinderOptions!Run(more, DefaultBinder, n + 1)
<1>1. n \in Nat /\ n + 1 \in Nat /\ Len(more) = n + 1 /\ more[n + 1] = opt /\ \A i \in 1..n : more[i] = opts[i]
  OBVIOUS
<1>2. NewStructBinder(opts) = short[n] /\ NewStructBinder(more) = long[n + 1]
  BY <1>1 DEF NewStructBinder, BinderOptionLoop!After, BinderOptionLoop!Run, LoopOfBinderOptions!Run
<1> HIDE DEF more, n
<1>3. /\ short[0] = DefaultBinder /\ \A i \in 1..n : short[i] = ApplyBinder(short[i - 1], opts[i])
      /\ long[0] = DefaultBinder /\ \A i \in 1..(n + 1) : long[i] = ApplyBinder(long[i - 1], more[i])
  <2>1. short[0] = DefaultBinder /\ \A i \in 1..n : short[i] = NextBinderOption(opts, short[i - 1], i)
    BY <1>1, LoopOfBinderOptions!RunOfRounds
  <2>2. long[0] = DefaultBinder /\ \A i \in 1..(n + 1) : long[i] = NextBinderOption(more, long[i - 1], i)
    BY <1>1, LoopOfBinderOptions!RunOfRounds
  <2> QED  BY <2>1, <2>2 DEF NextBinderOption
<1> HIDE DEF short, long
<1> DEFINE S == {i \in 0..n : short[i] = long[i]}
<1>4. \A i \in 0..n : i \in S
  <2>1. 0 \in S
    BY <1>1, <1>3
  <2>2. ASSUME NEW i \in 1..n, i - 1 \in S PROVE i \in S
    <3>1. i \in 1..(n + 1) /\ i \in 0..n
      BY <1>1
    <3>2. short[i] = long[i]
      BY <2>2, <3>1, <1>1, <1>3
    <3> QED  BY <3>1, <3>2
  <2> HIDE DEF S
  <2> QED  BY <2>1, <2>2, <1>1, LoopOfBinderOptions!LoopInvariant
<1>5. short[n] = long[n]
  BY <1>1, <1>4
<1>6. long[n + 1] = ApplyBinder(long[n], opt)
  <2>1. n + 1 \in 1..(n + 1) /\ (n + 1) - 1 = n
    BY <1>1
  <2> QED  BY <2>1, <1>1, <1>3
<1> QED
  BY <1>2, <1>5, <1>6 DEF more

LEMMA NewBinderIsBinder ==
    ASSUME NEW opts, ReaderBinderOptions(opts)
    PROVE  IsBinder(NewStructBinder(opts))
<1> DEFINE n == Len(opts)
           run == LoopOfBinderOptions!Run(opts, DefaultBinder, n)
<1>1. n \in Nat /\ DOMAIN opts = 1..n
  BY DEF ReaderBinderOptions
<1>2. NewStructBinder(opts) = run[n]
  BY DEF NewStructBinder, BinderOptionLoop!After, BinderOptionLoop!Run, LoopOfBinderOptions!Run
<1> HIDE DEF n
<1>3. run[0] = DefaultBinder /\ \A i \in 1..n : run[i] = ApplyBinder(run[i - 1], opts[i])
  BY <1>1, LoopOfBinderOptions!RunOfRounds DEF NextBinderOption
<1> HIDE DEF run
<1> DEFINE S == {i \in 0..n : IsBinder(run[i])}
<1>4. 0 \in S
  <2>1. IsBinder(DefaultBinder)
    BY DEF IsBinder, DefaultBinder, BinderFields
  <2> QED  BY <2>1, <1>1, <1>3
<1>5. ASSUME NEW i \in 1..n, i - 1 \in S PROVE i \in S
  <2> DEFINE b == run[i - 1]
  <2>1. IsBinder(b)
    BY <1>5
  <2>2. PICK opt : /\ opt.fn \in {"WithTagKey", "WithTagOption", "WithKeyMatcher"}
                   /\ opts[i] = BinderOption(opt)
    BY <1>1 DEF ReaderBinderOptions
  <2> HIDE DEF b
  <2>3. IsBinder(ApplyBinder(b, BinderOption(opt)))
    <3>1. \A x, y : IsBinder([b EXCEPT !.tagKey = x]) /\ IsBinder([b EXCEPT !.matcher = x])
                    /\ IsBinder([b EXCEPT !.tagOptions = x]) /\ IsBinder([b EXCEPT !.tagOptionErr = x])
      BY <2>1 DEF IsBinder, BinderFields
    <3>2. CASE opt.fn = "WithTagKey"
      <4>1. BinderOption(opt).fn = "WithBinderTagKey"
        BY <3>2 DEF BinderOption
      <4> QED  BY <4>1, <3>1, <2>1 DEF ApplyBinder
    <3>3. CASE opt.fn = "WithTagOption"
      <4>1. BinderOption(opt).fn = "WithBinderTagOption"
        BY <3>3 DEF BinderOption
      <4> QED  BY <4>1, <3>1, <2>1 DEF ApplyBinder, registerTagOption
    <3>4. CASE opt.fn = "WithKeyMatcher"
      <4>1. BinderOption(opt).fn = "WithBinderKeyMatcher"
        BY <3>4 DEF BinderOption
      <4> QED  BY <4>1, <3>1, <2>1 DEF ApplyBinder
    <3> QED  BY <2>2, <3>2, <3>3, <3>4
  <2>4. i \in 0..n
    BY <1>1
  <2> QED  BY <2>2, <2>3, <2>4, <1>3 DEF b
<1>6. \A i \in 0..n : i \in S
  <2> HIDE DEF S
  <2> QED  BY <1>1, <1>4, <1>5, LoopOfBinderOptions!LoopInvariant
<1>7. n \in S
  BY <1>1, <1>6
<1> QED
  BY <1>2, <1>7

\* A nil Option is told from every option the With functions build.
NilIsNoOption ==
    \A fn, name, arg : Nil \notin {[fn |-> fn, key |-> arg], [fn |-> fn, arg |-> arg], [fn |-> fn, name |-> name, arg |-> arg]}

\* An option that the Reader hands to its Binder changes the field it is about, and no other.
LEMMA BinderTakes ==
    ASSUME NilIsNoOption, NEW opt, NEW b, IsBinder(b)
    PROVE  LET to == ApplyBinder(b, BinderOption(opt)) IN
           /\ opt.fn = "WithTagKey" =>
                /\ to.tagKey = IF opt.arg = "" THEN b.tagKey ELSE opt.arg
                /\ to.matcher = b.matcher /\ to.tagOptions = b.tagOptions /\ to.tagOptionErr = b.tagOptionErr
           /\ opt.fn = "WithTagOption" =>
                /\ <<to.tagOptions, to.tagOptionErr>> = Registered(<<b.tagOptions, b.tagOptionErr>>, opt)
                /\ to.matcher = b.matcher /\ to.tagKey = b.tagKey
           /\ opt.fn = "WithKeyMatcher" =>
                /\ to.matcher = IF opt.arg = Nil THEN b.matcher ELSE opt.arg
                /\ to.tagKey = b.tagKey /\ to.tagOptions = b.tagOptions /\ to.tagOptionErr = b.tagOptionErr
<1> DEFINE to == ApplyBinder(b, BinderOption(opt))
<1>1. CASE opt.fn = "WithTagKey"
  <2>1. BinderOption(opt) = [fn |-> "WithBinderTagKey", key |-> opt.arg] /\ BinderOption(opt) # Nil
    BY <1>1 DEF BinderOption, NilIsNoOption
  <2> DEFINE o == BinderOption(opt)
  <2>2. o.fn = "WithBinderTagKey" /\ o.key = opt.arg /\ o # Nil
    BY <2>1
  <2> HIDE DEF o
  <2>3. ApplyBinder(b, o) = IF o.key = "" THEN b ELSE [b EXCEPT !.tagKey = o.key]
    BY <2>2 DEF ApplyBinder
  <2>4. to = IF opt.arg = "" THEN b ELSE [b EXCEPT !.tagKey = opt.arg]
    BY <2>2, <2>3 DEF o
  <2> HIDE DEF to
  <2> QED  BY <2>4, <1>1 DEF IsBinder, BinderFields, to
<1>2. CASE opt.fn = "WithTagOption"
  <2>1. BinderOption(opt) = [fn |-> "WithBinderTagOption", name |-> opt.name, arg |-> opt.arg] /\ BinderOption(opt) # Nil
    BY <1>2 DEF BinderOption, NilIsNoOption
  <2>2. to = registerTagOption(b, opt.name, opt.arg)
    BY <2>1 DEF ApplyBinder
  <2> DEFINE more == (opt.name :> opt.arg) @@ b.tagOptions
             refusal == Refusal(opt.name, opt.arg)
  <2>3. to = IF refusal = "" THEN [b EXCEPT !.tagOptions = more]
             ELSE IF b.tagOptionErr = "" THEN [b EXCEPT !.tagOptionErr = refusal] ELSE b
    BY <2>2 DEF registerTagOption
  <2>4. Registered(<<b.tagOptions, b.tagOptionErr>>, opt)
          = IF refusal = "" THEN <<more, b.tagOptionErr>>
            ELSE <<b.tagOptions, IF b.tagOptionErr = "" THEN refusal ELSE b.tagOptionErr>>
    BY DEF Registered
  <2> HIDE DEF more, refusal, to
  <2> QED  BY <2>3, <2>4, <1>2 DEF IsBinder, BinderFields, to
<1>3. CASE opt.fn = "WithKeyMatcher"
  <2>1. BinderOption(opt) = [fn |-> "WithBinderKeyMatcher", arg |-> opt.arg] /\ BinderOption(opt) # Nil
    BY <1>3 DEF BinderOption, NilIsNoOption
  <2>2. to = IF opt.arg = Nil THEN b ELSE [b EXCEPT !.matcher = opt.arg]
    BY <2>1 DEF ApplyBinder
  <2> QED  BY <2>2, <1>3 DEF IsBinder, BinderFields
<1> QED
  BY <1>1, <1>2, <1>3

\* The options that go to the binder.
LEMMA BinderOptionKept ==
    ASSUME NEW r, IsReader(r), NEW opt, opt.fn \in {"WithTagKey", "WithTagOption", "WithKeyMatcher"},
           opt.fn = "WithKeyMatcher" => opt.arg # Nil
    PROVE  LET to == BinderOpt(r, BinderOption(opt)) IN
           /\ IsReader(to)
           /\ \A f \in ReaderFields \ {"binderOpts"} : to[f] = r[f]
           /\ NewStructBinder(to.binderOpts) = ApplyBinder(NewStructBinder(r.binderOpts), BinderOption(opt))
<1> DEFINE opts == r.binderOpts
           more == Append(opts, BinderOption(opt))
           to == [r EXCEPT !.binderOpts = more]
<1>1. opts \in Seq({opts[i] : i \in DOMAIN opts}) /\ ReaderBinderOptions(opts)
  BY DEF IsReader, ReaderBinderOptions
<1>2. ReaderBinderOptions(more)
  <2>1. Len(opts) \in Nat /\ DOMAIN opts = 1..Len(opts) /\ DOMAIN more = 1..(Len(opts) + 1)
        /\ Len(more) = Len(opts) + 1
    BY <1>1
  <2>2. more[Len(opts) + 1] = BinderOption(opt) /\ \A i \in DOMAIN opts : more[i] = opts[i]
    BY <1>1
  <2>3. more \in Seq({more[i] : i \in DOMAIN more})
    <3>1. more \in Seq({opts[i] : i \in DOMAIN opts} \cup {BinderOption(opt)})
      BY <1>1
    <3> HIDE DEF more
    <3>2. more \in [1..(Len(opts) + 1) -> {more[i] : i \in DOMAIN more}]
      BY <2>1, <3>1
    <3>3. Len(opts) + 1 \in Nat
      BY <2>1
    <3> QED  BY <3>2, <3>3
  <2> HIDE DEF more
  <2>4. ASSUME NEW i \in DOMAIN more
        PROVE  \E o : /\ o.fn \in {"WithTagKey", "WithTagOption", "WithKeyMatcher"}
                      /\ more[i] = BinderOption(o)
                      /\ o.fn = "WithKeyMatcher" => o.arg # Nil
    <3>1. CASE i = Len(opts) + 1
      BY <3>1, <2>2
    <3>2. CASE i \in DOMAIN opts
      BY <3>2, <2>2, <1>1 DEF ReaderBinderOptions
    <3> QED  BY <3>1, <3>2, <2>1
  <2> QED  BY <2>3, <2>4 DEF ReaderBinderOptions
<1>3. NewStructBinder(more) = ApplyBinder(NewStructBinder(opts), BinderOption(opt))
  <2> HIDE DEF opts
  <2> QED  BY <1>1, OneMoreBinderOption
<1> HIDE DEF more
<1>4. /\ to.binderOpts = more /\ DOMAIN to = ReaderFields /\ to = [f \in DOMAIN to |-> to[f]]
      /\ \A f \in ReaderFields \ {"binderOpts"} : to[f] = r[f]
  BY DEF IsReader, ReaderFields
<1>5. BinderOpt(r, BinderOption(opt)) = to
  BY DEF BinderOpt, more
<1> HIDE DEF to
<1> QED
  BY <1>2, <1>3, <1>4, <1>5 DEF IsReader

\* An option changes the part it is about as Changed says, and no other.
LEMMA ApplyIsWith ==
    ASSUME NilIsNoOption, NEW r, IsReader(r), NEW opt, opt = Nil \/ opt.fn \in OptionFunctions
    PROVE  IsReader(Apply(r, opt)) /\ View(Apply(r, opt)) = With(View(r), opt)
<1> DEFINE to == Apply(r, opt)
           b == NewStructBinder(r.binderOpts)
           c == NewStructBinder(to.binderOpts)
<1>1. CASE opt = Nil
  <2>1. to = r
    BY <1>1 DEF Apply, WithRegistry, WithDecoder, WithExpander, WithBinder, WithKeyMatcher, WithPrefix
  <2> HIDE DEF to
  <2> QED  BY <1>1, <2>1 DEF With, to
<1>2. ASSUME opt # Nil, opt.fn \in OptionFunctions,
             IsReader(to), \A s \in SettingNames : Part(to, c, s) = IF s = Setting(opt) THEN Changed(Part(r, b, s), opt) ELSE Part(r, b, s)
      PROVE  IsReader(to) /\ View(to) = With(View(r), opt)
  <2> HIDE DEF to
  <2>1. View(r) = [s \in SettingNames |-> Part(r, b, s)] /\ View(to) = [s \in SettingNames |-> Part(to, c, s)]
    BY DEF View
  <2>2. With(View(r), opt) = [s \in SettingNames |-> IF s = Setting(opt) THEN Changed(View(r)[s], opt) ELSE View(r)[s]]
    BY <1>2 DEF With
  <2> QED  BY <1>2, <2>1, <2>2
<1>3. ASSUME opt # Nil, opt.fn \in {"WithTagKey", "WithTagOption"} \/ (opt.fn = "WithKeyMatcher" /\ opt.arg # Nil)
      PROVE  IsReader(to) /\ View(to) = With(View(r), opt)
  <2> DEFINE o == BinderOption(opt)
             q == IF opt.fn = "WithKeyMatcher" THEN [r EXCEPT !.matcher = opt.arg] ELSE r
  <2>1. to = BinderOpt(q, o)
    <3>1. CASE opt.fn = "WithTagKey"
      BY <3>1, <1>3 DEF Apply, WithRegistry, WithDecoder, WithExpander, WithBinder, WithKeyMatcher, WithPrefix, BinderOption
    <3>2. CASE opt.fn = "WithTagOption"
      BY <3>2, <1>3 DEF Apply, WithRegistry, WithDecoder, WithExpander, WithBinder, WithKeyMatcher, WithPrefix, BinderOption
    <3>3. CASE opt.fn = "WithKeyMatcher"
      BY <3>3, <1>3 DEF Apply, WithRegistry, WithDecoder, WithExpander, WithBinder, WithKeyMatcher, WithPrefix, BinderOption
    <3> QED  BY <3>1, <3>2, <3>3, <1>3
  <2>2. /\ IsReader(q) /\ q.binderOpts = r.binderOpts
        /\ \A f \in ReaderFields \ {"matcher"} : q[f] = r[f]
        /\ q.matcher = IF opt.fn = "WithKeyMatcher" THEN opt.arg ELSE r.matcher
    BY DEF IsReader, ReaderFields
  <2> HIDE DEF q, o, to
  <2>3. /\ IsReader(to)
        /\ \A f \in ReaderFields \ {"binderOpts"} : to[f] = q[f]
        /\ NewStructBinder(to.binderOpts) = ApplyBinder(NewStructBinder(q.binderOpts), o)
    BY <2>1, <2>2, <1>3, BinderOptionKept DEF o
  <2>4. IsBinder(b)
    BY NewBinderIsBinder DEF IsReader
  <2>5. c = ApplyBinder(b, o)
    BY <2>2, <2>3
  <2> HIDE DEF b, c
  <2>6. /\ opt.fn = "WithTagKey" =>
             /\ c.tagKey = IF opt.arg = "" THEN b.tagKey ELSE opt.arg
             /\ c.matcher = b.matcher /\ c.tagOptions = b.tagOptions /\ c.tagOptionErr = b.tagOptionErr
        /\ opt.fn = "WithTagOption" =>
             /\ <<c.tagOptions, c.tagOptionErr>> = Registered(<<b.tagOptions, b.tagOptionErr>>, opt)
             /\ c.matcher = b.matcher /\ c.tagKey = b.tagKey
        /\ opt.fn = "WithKeyMatcher" =>
             /\ c.matcher = IF opt.arg = Nil THEN b.matcher ELSE opt.arg
             /\ c.tagKey = b.tagKey /\ c.tagOptions = b.tagOptions /\ c.tagOptionErr = b.tagOptionErr
    BY <2>4, <2>5, BinderTakes DEF o
  <2>7. \A f \in {"registry", "decoders", "expander", "binder", "prefix"} : to[f] = r[f]
    BY <2>2, <2>3 DEF ReaderFields
  <2>8. to.matcher = IF opt.fn = "WithKeyMatcher" THEN opt.arg ELSE r.matcher
    BY <2>2, <2>3 DEF ReaderFields
  <2>9. Setting(opt) = opt.fn
    BY <1>3 DEF Setting
  <2>10. ASSUME NEW s \in SettingNames
         PROVE  Part(to, c, s) = IF s = Setting(opt) THEN Changed(Part(r, b, s), opt) ELSE Part(r, b, s)
    <3>1. CASE s = "WithTagKey"
      BY <3>1, <2>6, <2>9, <1>3 DEF Part, Changed
    <3>2. CASE s = "WithTagOption"
      BY <3>2, <2>6, <2>9, <1>3 DEF Part, Changed
    <3>3. CASE s = "WithKeyMatcher"
      BY <3>3, <2>6, <2>8, <2>9, <1>3 DEF Part, Changed
    <3>4. CASE s \in {"WithRegistry", "WithDecoder", "WithExpander", "WithBinder", "WithPrefix"}
      BY <3>4, <2>7, <2>9, <1>3 DEF Part
    <3> QED  BY <3>1, <3>2, <3>3, <3>4 DEF SettingNames, OptionFunctions
  <2>11. opt.fn \in OptionFunctions
    BY <1>3 DEF OptionFunctions
  <2> QED  BY <2>3, <2>10, <2>11, <1>2, <1>3 DEF to, b, c
<1>4. ASSUME opt # Nil, opt.fn \in {"WithRegistry", "WithDecoder", "WithExpander", "WithEnvExpansion", "WithBinder", "WithPrefix"}
                        \/ (opt.fn = "WithKeyMatcher" /\ opt.arg = Nil)
      PROVE  IsReader(to) /\ View(to) = With(View(r), opt)
  <2> DEFINE field == CASE Setting(opt) = "WithRegistry" -> "registry"
                        [] Setting(opt) = "WithDecoder" -> "decoders"
                        [] Setting(opt) = "WithExpander" -> "expander"
                        [] Setting(opt) = "WithBinder" -> "binder"
                        [] Setting(opt) = "WithKeyMatcher" -> "matcher"
                        [] Setting(opt) = "WithPrefix" -> "prefix"
             value == IF opt.fn = "WithKeyMatcher" THEN r.matcher ELSE Changed(r[field], opt)
  <2>1. IsReader(to) /\ to.binderOpts = r.binderOpts
        /\ \A f \in ReaderFields \ {"binderOpts"} : to[f] = IF f = field THEN value ELSE r[f]
    <3>1. ASSUME NEW f \in ReaderFields \ {"binderOpts"}, to = [r EXCEPT ![f] = value], f = field
          PROVE  /\ IsReader(to) /\ to.binderOpts = r.binderOpts
                 /\ \A g \in ReaderFields \ {"binderOpts"} : to[g] = IF g = field THEN value ELSE r[g]
      <4> HIDE DEF to, value, field
      <4>1. DOMAIN r = ReaderFields /\ "binderOpts" \in ReaderFields
        BY DEF IsReader, ReaderFields
      <4>2. DOMAIN to = ReaderFields /\ to = [g \in DOMAIN to |-> to[g]]
            /\ to[f] = value /\ \A g \in ReaderFields \ {f} : to[g] = r[g]
        BY <3>1, <4>1
      <4>3. to.binderOpts = r.binderOpts
        BY <4>1, <4>2
      <4> QED  BY <4>2, <4>3, <3>1 DEF IsReader
    <3>2. field \in ReaderFields \ {"binderOpts"}
      BY <1>4 DEF Setting, ReaderFields
    <3>3. to = [r EXCEPT ![field] = value]
      <4>1. \A f \in ReaderFields : r = [r EXCEPT ![f] = r[f]]
        BY DEF IsReader
      <4>2. CASE opt.fn = "WithRegistry"
        BY <4>1, <4>2, <1>4 DEF Apply, WithRegistry, WithDecoder, WithExpander, WithBinder, WithKeyMatcher, WithPrefix, Setting, Changed, ReaderFields
      <4>3. CASE opt.fn = "WithDecoder"
        BY <4>1, <4>3, <1>4 DEF Apply, WithRegistry, WithDecoder, WithExpander, WithBinder, WithKeyMatcher, WithPrefix, Setting, Changed, ReaderFields
      <4>4. CASE opt.fn \in {"WithExpander", "WithEnvExpansion"}
        BY <4>1, <4>4, <1>4 DEF Apply, WithRegistry, WithDecoder, WithExpander, WithBinder, WithKeyMatcher, WithPrefix, Setting, Changed, ReaderFields
      <4>5. CASE opt.fn = "WithBinder"
        BY <4>1, <4>5, <1>4 DEF Apply, WithRegistry, WithDecoder, WithExpander, WithBinder, WithKeyMatcher, WithPrefix, Setting, Changed, ReaderFields
      <4>6. CASE opt.fn = "WithPrefix"
        BY <4>1, <4>6, <1>4 DEF Apply, WithRegistry, WithDecoder, WithExpander, WithBinder, WithKeyMatcher, WithPrefix, Setting, Changed, ReaderFields
      <4>7. CASE opt.fn = "WithKeyMatcher"
        BY <4>1, <4>7, <1>4 DEF Apply, WithRegistry, WithDecoder, WithExpander, WithBinder, WithKeyMatcher, WithPrefix, Setting, Changed, ReaderFields
      <4> QED  BY <4>2, <4>3, <4>4, <4>5, <4>6, <4>7, <1>4
    <3> HIDE DEF to, value, field
    <3> QED  BY <3>1, <3>2, <3>3
  <2>2. b = c
    BY <2>1
  <2> HIDE DEF to, b, c
  <2>3. opt.fn = "WithKeyMatcher" => Changed(<<r.matcher, b.matcher>>, opt) = <<r.matcher, b.matcher>>
    BY <1>4 DEF Changed
  <2>4. ASSUME NEW s \in SettingNames
        PROVE  Part(to, c, s) = IF s = Setting(opt) THEN Changed(Part(r, b, s), opt) ELSE Part(r, b, s)
    <3>1. CASE s \in {"WithTagKey", "WithTagOption"}
      BY <3>1, <2>2, <1>4 DEF Part, Setting
    <3>2. CASE s = "WithKeyMatcher"
      <4>1. to.matcher = r.matcher
        BY <2>1, <1>4 DEF ReaderFields, Setting
      <4> QED  BY <3>2, <4>1, <2>2, <2>3, <1>4 DEF Part, Setting
    <3>3. CASE s \in {"WithRegistry", "WithDecoder", "WithExpander", "WithBinder", "WithPrefix"}
      BY <3>3, <2>1, <1>4 DEF Part, Setting, ReaderFields
    <3> QED  BY <3>1, <3>2, <3>3 DEF SettingNames, OptionFunctions
  <2>5. opt.fn \in OptionFunctions
    BY <1>4 DEF OptionFunctions
  <2> QED  BY <2>1, <2>4, <2>5, <1>2, <1>4 DEF to, b, c
<1> QED
  BY <1>1, <1>3, <1>4 DEF OptionFunctions

-----------------------------------------------------------------------------
(* The views along the options of New *)

IsOptions(opts) ==
    /\ Len(opts) \in Nat /\ DOMAIN opts = 1..Len(opts)
    /\ \A i \in DOMAIN opts : opts[i] = Nil \/ opts[i].fn \in OptionFunctions

Built(r) == IF r.binder = Nil THEN [r EXCEPT !.binder = NewStructBinder(r.binderOpts)] ELSE r

IsView(view) == view = [s \in SettingNames |-> view[s]]

\* v is how the settings are at the start, and after each of the options.
AreViews(v, opts) ==
    /\ v[0] = View(DefaultReader)
    /\ \A i \in 1..Len(opts) : v[i] = With(v[i - 1], opts[i])
    /\ \A i \in 0..Len(opts) : IsView(v[i])

LEMMA DefaultIsReader ==
    /\ IsReader(DefaultReader)
    /\ View(DefaultReader)["WithBinder"] = Nil
    /\ View(DefaultReader)["WithKeyMatcher"] = <<DefaultMatcher, DefaultMatcher>>
<1>1. ReaderBinderOptions(<<>>)
  BY DEF ReaderBinderOptions
<1>2. NewStructBinder(<<>>) = DefaultBinder
  <2> DEFINE run == LoopOfBinderOptions!Run(<<>>, DefaultBinder, 0)
  <2>1. NewStructBinder(<<>>) = run[0]
    BY DEF NewStructBinder, BinderOptionLoop!After, BinderOptionLoop!Run, LoopOfBinderOptions!Run
  <2>2. run[0] = DefaultBinder
    BY LoopOfBinderOptions!RunOfRounds
  <2> QED  BY <2>1, <2>2
<1>3. IsReader(DefaultReader)
  BY <1>1 DEF IsReader, DefaultReader, ReaderFields
<1>4. DefaultReader.binderOpts = <<>> /\ DefaultReader.binder = Nil /\ DefaultReader.matcher = DefaultMatcher
  BY DEF DefaultReader
<1>5. DefaultBinder.matcher = DefaultMatcher
  BY DEF DefaultBinder
<1> QED
  BY <1>2, <1>3, <1>4, <1>5 DEF View, Part, SettingNames, OptionFunctions

LEMMA WithIsView ==
    ASSUME NEW view, IsView(view), NEW opt
    PROVE  IsView(With(view, opt))
BY DEF IsView, With

\* What New returns is built of a Reader that has the last of the views.
LEMMA NewIsBuilt ==
    ASSUME NilIsNoOption, NEW opts, IsOptions(opts)
    PROVE  \E v, r : AreViews(v, opts) /\ IsReader(r) /\ View(r) = v[Len(opts)] /\ New(opts) = Built(r)
<1> DEFINE n == Len(opts)
           run == LoopOfOptions!Run(opts, DefaultReader, n)
<1>1. n \in Nat /\ DOMAIN opts = 1..n
  BY DEF IsOptions
<1>2. New(opts) = Built(run[n])
  BY DEF New, Built, OptionLoop!After, OptionLoop!Run, LoopOfOptions!Run
<1> HIDE DEF n
<1>3. run[0] = DefaultReader /\ \A i \in 1..n : run[i] = NextOption(opts, run[i - 1], i)
  BY <1>1, LoopOfOptions!RunOfRounds
<1> HIDE DEF run
<1>4. \A i \in 1..n : run[i] = Apply(run[i - 1], opts[i])
  BY <1>3 DEF NextOption
<1> DEFINE v == [i \in 0..n |-> View(run[i])]
           S == {i \in 0..n : IsReader(run[i]) /\ (i # 0 => v[i] = With(v[i - 1], opts[i]))}
<1>5. 0 \in S
  BY <1>1, <1>3, DefaultIsReader
<1>6. ASSUME NEW i \in 1..n, i - 1 \in S PROVE i \in S
  <2>1. i \in 0..n /\ i - 1 \in 0..n
    BY <1>1
  <2>2. IsReader(run[i - 1]) /\ (opts[i] = Nil \/ opts[i].fn \in OptionFunctions)
    BY <1>1, <1>6 DEF IsOptions
  <2>3. IsReader(Apply(run[i - 1], opts[i])) /\ View(Apply(run[i - 1], opts[i])) = With(View(run[i - 1]), opts[i])
    BY <2>2, ApplyIsWith
  <2> QED  BY <2>1, <2>3, <1>4
<1>7. \A i \in 0..n : i \in S
  <2> HIDE DEF S
  <2> QED  BY <1>1, <1>5, <1>6, LoopOfOptions!LoopInvariant
<1>8. AreViews(v, opts)
  <2>1. v[0] = View(DefaultReader)
    BY <1>1, <1>3
  <2>2. \A i \in 1..n : v[i] = With(v[i - 1], opts[i])
    <3>1. ASSUME NEW i \in 1..n PROVE i \in 0..n /\ i # 0
      BY <1>1
    <3> QED  BY <3>1, <1>7
  <2>3. \A i \in 0..n : IsView(v[i])
    BY DEF IsView, View
  <2> HIDE DEF v
  <2> QED  BY <2>1, <2>2, <2>3 DEF AreViews, n
<1>9. IsReader(run[n]) /\ View(run[n]) = v[n]
  <2>1. n \in 0..n
    BY <1>1
  <2> QED  BY <2>1, <1>7
<1> HIDE DEF v
<1> QED
  BY <1>2, <1>8, <1>9 DEF n

\* What a Reader does is told by its view.
LEMMA SettingsAreTheView ==
    ASSUME NEW r, NEW q, IsReader(r), IsReader(q), View(r) = View(q)
    PROVE  Settings(Built(r)) = Settings(Built(q))
<1> DEFINE b == NewStructBinder(r.binderOpts)
           c == NewStructBinder(q.binderOpts)
<1>1. IsBinder(b) /\ IsBinder(c)
  BY NewBinderIsBinder DEF IsReader
<1> HIDE DEF b, c
<1>2. \A s \in SettingNames : Part(r, b, s) = Part(q, c, s)
  <2>1. View(r) = [s \in SettingNames |-> Part(r, b, s)] /\ View(q) = [s \in SettingNames |-> Part(q, c, s)]
    BY DEF View, b, c
  <2> DEFINE u == View(r)
             w == View(q)
  <2>2. \A s \in SettingNames : u[s] = w[s] /\ u[s] = Part(r, b, s) /\ w[s] = Part(q, c, s)
    BY <2>1
  <2> QED  BY <2>2
<1>3. /\ r.registry = q.registry /\ r.decoders = q.decoders /\ r.expander = q.expander /\ r.binder = q.binder
      /\ r.prefix = q.prefix /\ b.tagKey = c.tagKey
  BY <1>2 DEF Part, SettingNames, OptionFunctions
<1>4. <<b.tagOptions, b.tagOptionErr>> = <<c.tagOptions, c.tagOptionErr>>
  BY <1>2 DEF Part, SettingNames, OptionFunctions
<1>5. <<r.matcher, b.matcher>> = <<q.matcher, c.matcher>>
  BY <1>2 DEF Part, SettingNames, OptionFunctions
<1>6. b = c
  BY <1>1, <1>3, <1>4, <1>5 DEF IsBinder, BinderFields
<1>7. \A f \in ReaderFields \ {"binderOpts"} : r[f] = q[f]
  BY <1>3, <1>5 DEF ReaderFields
<1> DEFINE R == Built(r)
           Q == Built(q)
<1>8. /\ DOMAIN R = ReaderFields /\ DOMAIN Q = ReaderFields
      /\ \A f \in ReaderFields \ {"binder", "binderOpts"} : R[f] = r[f] /\ Q[f] = q[f]
      /\ R["binder"] = IF r.binder = Nil THEN b ELSE r.binder
      /\ Q["binder"] = IF q.binder = Nil THEN c ELSE q.binder
  BY DEF Built, IsReader, ReaderFields, b, c
<1> HIDE DEF R, Q
<1>9. \A f \in ReaderFields \ {"binderOpts"} : R[f] = Q[f]
  BY <1>3, <1>6, <1>7, <1>8 DEF ReaderFields
<1>10. Settings(R) = Settings(Q)
  BY <1>8, <1>9 DEF Settings
<1> QED
  BY <1>10 DEF R, Q

-----------------------------------------------------------------------------
(* What a change of the list does to the views *)

LEMMA OptionsAboutDifferentSettingsCommute ==
    ASSUME NEW view, IsView(view), NEW a, NEW b, a # Nil, b # Nil, Setting(a) # Setting(b)
    PROVE  With(With(view, a), b) = With(With(view, b), a)
<1> DEFINE va == With(view, a)
           vb == With(view, b)
<1>1. /\ va = [s \in SettingNames |-> IF s = Setting(a) THEN Changed(view[s], a) ELSE view[s]]
      /\ vb = [s \in SettingNames |-> IF s = Setting(b) THEN Changed(view[s], b) ELSE view[s]]
      /\ With(va, b) = [s \in SettingNames |-> IF s = Setting(b) THEN Changed(va[s], b) ELSE va[s]]
      /\ With(vb, a) = [s \in SettingNames |-> IF s = Setting(a) THEN Changed(vb[s], a) ELSE vb[s]]
  BY DEF With
<1> HIDE DEF va, vb
<1>2. \A s \in SettingNames : With(va, b)[s] = With(vb, a)[s]
  <2> TAKE s \in SettingNames
  <2>1. CASE s = Setting(a)
    BY <2>1, <1>1
  <2>2. CASE s = Setting(b)
    BY <2>2, <1>1
  <2>3. CASE s # Setting(a) /\ s # Setting(b)
    BY <2>3, <1>1
  <2> QED  BY <2>1, <2>2, <2>3
<1> QED
  BY <1>1, <1>2 DEF va, vb

\* Two views that differ in one setting at most.
AgreeBut(setting, v, w) == \A s \in SettingNames \ {setting} : v[s] = w[s]

\* An option of a setting that is not a list, and that is not ignored, makes
\* the setting what it says, whatever it was.
LEMMA LastOneCounts ==
    ASSUME NEW v, NEW w, NEW opt, opt # Nil, opt.fn \in OptionFunctions, AgreeBut(Setting(opt), v, w),
           ~IsList(Setting(opt)), ~IsIgnored(opt)
    PROVE  With(v, opt) = With(w, opt)
<1>1. \A x, y : Changed(x, opt) = Changed(y, opt)
  BY DEF Changed, IsList, IsIgnored, Setting, OptionFunctions
<1>2. /\ With(v, opt) = [s \in SettingNames |-> IF s = Setting(opt) THEN Changed(v[s], opt) ELSE v[s]]
      /\ With(w, opt) = [s \in SettingNames |-> IF s = Setting(opt) THEN Changed(w[s], opt) ELSE w[s]]
  BY DEF With
<1>3. \A s \in SettingNames : (IF s = Setting(opt) THEN Changed(v[s], opt) ELSE v[s])
                                = (IF s = Setting(opt) THEN Changed(w[s], opt) ELSE w[s])
  <2> TAKE s \in SettingNames
  <2>1. CASE s = Setting(opt)
    BY <2>1, <1>1
  <2>2. CASE s # Setting(opt)
    BY <2>2 DEF AgreeBut
  <2> QED  BY <2>1, <2>2
<1> QED
  BY <1>2, <1>3

LEMMA AgreementLasts ==
    ASSUME NEW v, NEW w, NEW setting, AgreeBut(setting, v, w), NEW opt
    PROVE  AgreeBut(setting, With(v, opt), With(w, opt))
<1>1. CASE opt = Nil
  BY <1>1 DEF With
<1>2. CASE opt # Nil
  BY <1>2 DEF With, AgreeBut
<1> QED
  BY <1>1, <1>2

LEMMA LengthOfDomain ==
    ASSUME NEW s, NEW n \in Nat, s = [k \in 1..n |-> s[k]]
    PROVE  Len(s) = n
<1> DEFINE X == {s[k] : k \in 1..n}
<1>1. s \in [1..n -> X]
  OBVIOUS
<1> HIDE DEF X
<1> QED
  BY <1>1

LEMMA SwappedIsOptions ==
    ASSUME NEW opts, IsOptions(opts), NEW i, i \in DOMAIN opts, i + 1 \in DOMAIN opts
    PROVE  LET swapped == Swapped(opts, i) IN
           /\ IsOptions(swapped) /\ Len(swapped) = Len(opts)
           /\ swapped[i] = opts[i + 1] /\ swapped[i + 1] = opts[i]
           /\ \A k \in (DOMAIN opts) \ {i, i + 1} : swapped[k] = opts[k]
<1> DEFINE n == Len(opts)
           swapped == Swapped(opts, i)
<1>1. n \in Nat /\ DOMAIN opts = 1..n /\ i \in 1..n /\ i + 1 \in 1..n
  BY DEF IsOptions
<1>2. /\ swapped[i] = opts[i + 1] /\ swapped[i + 1] = opts[i] /\ \A k \in (1..n) \ {i, i + 1} : swapped[k] = opts[k]
      /\ DOMAIN swapped = 1..n
  BY <1>1 DEF Swapped
<1>3. Len(swapped) = n
  BY <1>1, <1>2, LengthOfDomain DEF Swapped
<1>4. IsOptions(swapped)
  <2> HIDE DEF swapped, n
  <2>1. \A k \in 1..n : \E l \in 1..n : swapped[k] = opts[l]
    BY <1>1, <1>2
  <2> QED  BY <2>1, <1>1, <1>2, <1>3 DEF IsOptions, n
<1> HIDE DEF swapped, n
<1> QED
  BY <1>1, <1>2, <1>3, <1>4 DEF swapped, n

LEMMA SwappedViews ==
    ASSUME NEW opts, IsOptions(opts), NEW i, i \in DOMAIN opts, i + 1 \in DOMAIN opts,
           opts[i] # Nil, opts[i + 1] # Nil, Setting(opts[i]) # Setting(opts[i + 1]),
           NEW v, AreViews(v, opts), NEW w, AreViews(w, Swapped(opts, i))
    PROVE  v[Len(opts)] = w[Len(opts)]
<1> DEFINE n == Len(opts)
           swapped == Swapped(opts, i)
<1>1. n \in Nat /\ DOMAIN opts = 1..n /\ i \in 1..n /\ i + 1 \in 1..n
  BY DEF IsOptions
<1>2. /\ swapped[i] = opts[i + 1] /\ swapped[i + 1] = opts[i] /\ \A k \in (1..n) \ {i, i + 1} : swapped[k] = opts[k]
      /\ Len(swapped) = n
  BY <1>1, SwappedIsOptions
<1> HIDE DEF swapped, n
<1>3. /\ v[0] = w[0]
      /\ \A k \in 1..n : v[k] = With(v[k - 1], opts[k]) /\ w[k] = With(w[k - 1], swapped[k])
      /\ \A k \in 0..n : IsView(v[k])
  <2>1. v[0] = View(DefaultReader) /\ w[0] = View(DefaultReader)
    BY DEF AreViews
  <2>2. \A k \in 1..n : w[k] = With(w[k - 1], swapped[k])
    BY <1>2 DEF AreViews, swapped
  <2> QED  BY <2>1, <2>2 DEF AreViews, n
<1> DEFINE S == {k \in 0..n : (k # i => v[k] = w[k]) /\ (k = i => v[k - 1] = w[k - 1])}
<1>4. 0 \in S
  BY <1>1, <1>3
<1>5. ASSUME NEW k \in 1..n, k - 1 \in S PROVE k \in S
  <2>1. k \in 0..n
    BY <1>1
  <2>2. CASE k = i
    <3>1. k - 1 # i
      BY <1>1, <2>2
    <3> QED  BY <3>1, <2>1, <2>2, <1>5
  <2>3. CASE k = i + 1
    <3>1. k - 1 = i /\ i - 1 \in 0..n /\ k # i
      BY <1>1, <2>3
    <3>2. v[i - 1] = w[i - 1]
      BY <3>1, <1>5
    <3> DEFINE before == v[i - 1]
    <3>3. v[k] = With(With(before, opts[i]), opts[i + 1])
      BY <3>1, <2>3, <1>1, <1>3
    <3>4. w[k] = With(With(before, opts[i + 1]), opts[i])
      BY <3>1, <3>2, <2>3, <1>1, <1>2, <1>3
    <3>5. IsView(before)
      BY <3>1, <1>3
    <3> HIDE DEF before
    <3>6. v[k] = w[k]
      BY <3>3, <3>4, <3>5, OptionsAboutDifferentSettingsCommute
    <3> QED  BY <3>1, <3>6, <2>1
  <2>4. CASE k \notin {i, i + 1}
    <3>1. k - 1 # i /\ k # i
      BY <1>1, <2>4
    <3>2. v[k - 1] = w[k - 1] /\ swapped[k] = opts[k]
      BY <3>1, <2>4, <1>2, <1>5
    <3>3. v[k] = w[k]
      BY <3>2, <1>3
    <3> QED  BY <3>1, <3>3, <2>1
  <2> QED  BY <2>2, <2>3, <2>4
<1>6. \A k \in 0..n : k \in S
  <2> HIDE DEF S
  <2> QED  BY <1>1, <1>4, <1>5, LoopOfOptions!LoopInvariant
<1>7. n \in 0..n /\ n # i
  BY <1>1
<1> QED
  BY <1>6, <1>7 DEF n

LEMMA RemovedIsOptions ==
    ASSUME NEW opts, IsOptions(opts), opts \in Seq(ToSet(opts)), NEW i, i \in DOMAIN opts
    PROVE  LET left == RemoveAt(opts, i) IN
           /\ IsOptions(left) /\ Len(left) = Len(opts) - 1
           /\ \A k \in 1..(Len(opts) - 1) : left[k] = IF k < i THEN opts[k] ELSE opts[k + 1]
<1> DEFINE n == Len(opts)
           left == RemoveAt(opts, i)
<1>1. n \in Nat /\ DOMAIN opts = 1..n /\ i \in 1..n /\ n - 1 \in Nat
  BY DEF IsOptions
<1>2. /\ Len(left) = n - 1 /\ DOMAIN left = 1..(n - 1)
      /\ \A k \in 1..(n - 1) : left[k] = IF k < i THEN opts[k] ELSE opts[k + 1]
  <2> DEFINE X == ToSet(opts)
             a == SubSeq(opts, 1, i - 1)
             b == SubSeq(opts, i + 1, n)
  <2>1. opts \in Seq(X) /\ i - 1 \in 0..n /\ i + 1 \in 1..(n + 1)
    BY <1>1
  <2> HIDE DEF X
  <2>2. a \in Seq(X) /\ Len(a) = i - 1 /\ \A k \in 1..(i - 1) : a[k] = opts[k]
    BY <2>1, <1>1
  <2>3. b \in Seq(X) /\ Len(b) = n - i /\ \A k \in 1..(n - i) : b[k] = opts[i + k]
    BY <2>1, <1>1
  <2>4. left = a \o b
    BY DEF RemoveAt
  <2> HIDE DEF a, b, left
  <2>5. Len(left) = n - 1 /\ DOMAIN left = 1..(n - 1)
    <3>1. a \o b \in Seq(X) /\ Len(a \o b) = Len(a) + Len(b)
      <4>1. a \in Seq(X) /\ b \in Seq(X)
        BY <2>2, <2>3
      <4> QED  BY <4>1
    <3>2. Len(left) = (i - 1) + (n - i) /\ left \in Seq(X)
      BY <3>1, <2>2, <2>3, <2>4
    <3>3. (i - 1) + (n - i) = n - 1
      BY <1>1
    <3> QED  BY <3>2, <3>3
  <2>6. ASSUME NEW k \in 1..(n - 1), k < i PROVE left[k] = opts[k]
    BY <2>2, <2>3, <2>4, <2>6, <1>1
  <2>7. ASSUME NEW k \in 1..(n - 1), ~(k < i) PROVE left[k] = opts[k + 1]
    <3>1. k - (i - 1) \in 1..(n - i) /\ i + (k - (i - 1)) = k + 1
      BY <2>7, <1>1
    <3>2. left[k] = b[k - (i - 1)]
      <4>1. a \in Seq(X) /\ b \in Seq(X) /\ Len(a) = i - 1
        BY <2>2, <2>3
      <4>2. k \in 1..(Len(a) + Len(b)) /\ ~(k <= Len(a))
        BY <4>1, <2>3, <2>7, <1>1
      <4>3. (a \o b)[k] = b[k - Len(a)]
        <5> HIDE DEF n
        <5> QED  BY <4>1, <4>2
      <4> QED  BY <4>1, <4>3, <2>4
    <3> QED  BY <3>1, <3>2, <2>3
  <2> QED  BY <2>5, <2>6, <2>7
<1>3. IsOptions(left)
  <2>1. \A k \in 1..(n - 1) : k \in 1..n /\ k + 1 \in 1..n
    BY <1>1
  <2> HIDE DEF left
  <2> QED  BY <2>1, <1>1, <1>2 DEF IsOptions
<1> HIDE DEF left, n
<1> QED
  BY <1>2, <1>3 DEF left, n

LEMMA RemovedViews ==
    ASSUME NEW opts, IsOptions(opts), opts \in Seq(ToSet(opts)), NEW i, i \in DOMAIN opts, NEW j, j \in DOMAIN opts, i < j,
           opts[i] # Nil, opts[j] # Nil, Setting(opts[i]) = Setting(opts[j]),
           ~IsList(Setting(opts[j])), ~IsIgnored(opts[j]),
           NEW v, AreViews(v, opts), NEW w, AreViews(w, RemoveAt(opts, i))
    PROVE  v[Len(opts)] = w[Len(RemoveAt(opts, i))]
<1> DEFINE n == Len(opts)
           left == RemoveAt(opts, i)
           setting == Setting(opts[j])
<1>1. n \in Nat /\ DOMAIN opts = 1..n /\ i \in 1..n /\ j \in 1..n /\ n - 1 \in Nat
  BY DEF IsOptions
<1>2. Len(left) = n - 1 /\ \A k \in 1..(n - 1) : left[k] = IF k < i THEN opts[k] ELSE opts[k + 1]
  BY RemovedIsOptions
<1> HIDE DEF left, n, setting
<1>3. /\ v[0] = w[0]
      /\ \A k \in 1..n : v[k] = With(v[k - 1], opts[k])
      /\ \A k \in 1..(n - 1) : w[k] = With(w[k - 1], left[k])
  <2>1. v[0] = View(DefaultReader) /\ w[0] = View(DefaultReader)
    BY DEF AreViews
  <2>2. \A k \in 1..(n - 1) : w[k] = With(w[k - 1], left[k])
    BY <1>2 DEF AreViews, left
  <2> QED  BY <2>1, <2>2 DEF AreViews, n
<1> DEFINE S == {k \in 0..n : /\ k < i => v[k] = w[k]
                              /\ k >= i => AgreeBut(setting, v[k], w[k - 1])
                              /\ k >= j => v[k] = w[k - 1]}
<1>4. 0 \in S
  BY <1>1, <1>3
<1>5. ASSUME NEW k \in 1..n, k - 1 \in S PROVE k \in S
  <2>1. k \in 0..n /\ k \in Nat /\ v[k] = With(v[k - 1], opts[k])
    BY <1>1, <1>3
  <2>2. CASE k < i
    <3>1. k \in 1..(n - 1) /\ k - 1 < i /\ ~(k >= i) /\ ~(k >= j)
      BY <1>1, <2>2
    <3>2. w[k] = With(w[k - 1], opts[k])
      BY <3>1, <2>2, <1>2, <1>3
    <3> QED  BY <3>1, <3>2, <2>1, <2>2, <1>5
  <2>3. CASE k = i
    <3>1. k - 1 < i /\ ~(k < i) /\ ~(k >= j)
      BY <1>1, <2>3
    <3>2. w[k - 1] = v[k - 1]
      BY <3>1, <1>5
    <3>3. AgreeBut(setting, v[k], v[k - 1])
      BY <2>1, <2>3 DEF With, AgreeBut, setting
    <3> QED  BY <3>1, <3>2, <3>3, <2>1
  <2>4. CASE k > i
    <3>1. k - 1 \in 1..(n - 1) /\ (k - 1) + 1 = k /\ ~(k - 1 < i) /\ k - 1 >= i /\ ~(k < i)
      BY <1>1, <2>4
    <3>2. w[k - 1] = With(w[k - 2], opts[k]) /\ (k - 1) - 1 = k - 2
      BY <3>1, <1>2, <1>3
    <3>3. AgreeBut(setting, v[k - 1], w[k - 2]) /\ (k - 1 >= j => v[k - 1] = w[k - 2])
      BY <3>1, <3>2, <1>5
    <3>4. AgreeBut(setting, v[k], w[k - 1])
      BY <3>2, <3>3, <2>1, AgreementLasts
    <3>5. CASE k < j
      BY <3>1, <3>4, <3>5, <2>1, <1>1
    <3>6. CASE k = j
      <4>1. v[k] = w[k - 1]
        <5>1. opts[j].fn \in OptionFunctions
          BY <1>1 DEF IsOptions
        <5>2. AgreeBut(Setting(opts[j]), v[k - 1], w[k - 2])
          BY <3>3 DEF setting
        <5>3. With(v[k - 1], opts[j]) = With(w[k - 2], opts[j])
          BY <5>1, <5>2, LastOneCounts
        <5> QED  BY <5>3, <3>2, <3>6, <2>1
      <4> QED  BY <4>1, <3>1, <3>4, <2>1
    <3>7. CASE k > j
      <4>1. k - 1 >= j
        BY <1>1, <3>7
      <4>2. v[k] = w[k - 1]
        BY <4>1, <3>2, <3>3, <2>1
      <4> QED  BY <4>2, <3>1, <3>4, <2>1
    <3> QED  BY <3>5, <3>6, <3>7, <1>1
  <2> QED  BY <2>2, <2>3, <2>4, <1>1
<1>6. \A k \in 0..n : k \in S
  <2> HIDE DEF S
  <2> QED  BY <1>1, <1>4, <1>5, LoopOfOptions!LoopInvariant
<1>7. n \in 0..n /\ n >= j
  BY <1>1
<1> QED
  BY <1>2, <1>6, <1>7 DEF n, left

\* As long as no binder is given, what matches the keys of the prefix is what
\* would match those of the struct.
LEMMA OneMatcher ==
    ASSUME NEW opts, IsOptions(opts), NEW v, AreViews(v, opts),
           \A i \in DOMAIN opts : opts[i] # Nil => opts[i].fn # "WithBinder" \/ opts[i].arg = Nil
    PROVE  /\ v[Len(opts)]["WithBinder"] = Nil
           /\ \E m : v[Len(opts)]["WithKeyMatcher"] = <<m, m>>
<1> DEFINE n == Len(opts)
           S == {k \in 0..n : v[k]["WithBinder"] = Nil /\ \E m : v[k]["WithKeyMatcher"] = <<m, m>>}
<1>1. n \in Nat /\ DOMAIN opts = 1..n
  BY DEF IsOptions
<1> HIDE DEF n
<1>2. 0 \in S
  <2>1. 0 \in 0..n /\ v[0] = View(DefaultReader)
    BY <1>1 DEF AreViews
  <2> QED  BY <2>1, DefaultIsReader
<1>3. ASSUME NEW k \in 1..n, k - 1 \in S PROVE k \in S
  <2> DEFINE opt == opts[k]
             before == v[k - 1]
  <2>1. k \in 0..n /\ v[k] = With(before, opt)
    BY <1>1 DEF AreViews, n
  <2>2. before["WithBinder"] = Nil /\ \E m : before["WithKeyMatcher"] = <<m, m>>
    BY <1>3
  <2>3. opt # Nil => opt.fn \in OptionFunctions /\ (opt.fn # "WithBinder" \/ opt.arg = Nil)
    BY <1>1 DEF IsOptions
  <2>4. "WithBinder" \in SettingNames /\ "WithKeyMatcher" \in SettingNames
    BY DEF SettingNames, OptionFunctions
  <2> HIDE DEF opt, before
  <2>5. With(before, opt)["WithBinder"] = Nil
    <3>1. CASE opt = Nil
      BY <3>1, <2>2 DEF With
    <3>2. CASE opt # Nil
      BY <3>2, <2>2, <2>3, <2>4 DEF With, Setting, Changed, OptionFunctions
    <3> QED  BY <3>1, <3>2
  <2>6. \E m : With(before, opt)["WithKeyMatcher"] = <<m, m>>
    <3>1. CASE opt = Nil
      BY <3>1, <2>2 DEF With
    <3>2. CASE opt # Nil /\ opt.fn # "WithKeyMatcher"
      <4>1. With(before, opt)["WithKeyMatcher"] = before["WithKeyMatcher"]
        BY <3>2, <2>3, <2>4 DEF With, Setting, OptionFunctions
      <4> QED  BY <4>1, <2>2
    <3>3. CASE opt # Nil /\ opt.fn = "WithKeyMatcher"
      <4>1. With(before, opt)["WithKeyMatcher"] = Changed(before["WithKeyMatcher"], opt)
        BY <3>3, <2>4 DEF With, Setting
      <4>2. Changed(before["WithKeyMatcher"], opt)
              = IF opt.arg = Nil THEN before["WithKeyMatcher"] ELSE <<opt.arg, opt.arg>>
        BY <3>3 DEF Changed
      <4> QED  BY <4>1, <4>2, <2>2
    <3> QED  BY <3>1, <3>2, <3>3
  <2> QED  BY <2>1, <2>5, <2>6
<1>4. \A k \in 0..n : k \in S
  <2> HIDE DEF S
  <2> QED  BY <1>1, <1>2, <1>3, LoopOfOptions!LoopInvariant
<1>5. n \in 0..n
  BY <1>1
<1> QED
  BY <1>4, <1>5 DEF n

LEMMA MatcherOfBuilt ==
    ASSUME NEW r, IsReader(r), View(r)["WithBinder"] = Nil, \E m : View(r)["WithKeyMatcher"] = <<m, m>>
    PROVE  Built(r).binder.matcher = Built(r).matcher
<1>1. "WithBinder" \in SettingNames /\ "WithKeyMatcher" \in SettingNames
  BY DEF SettingNames, OptionFunctions
<1>2. r.binder = Nil /\ \E m : <<r.matcher, NewStructBinder(r.binderOpts).matcher>> = <<m, m>>
  BY <1>1 DEF View, Part
<1>3. r.matcher = NewStructBinder(r.binderOpts).matcher
  BY <1>2
<1> QED
  BY <1>2, <1>3 DEF Built, IsReader, ReaderFields

-----------------------------------------------------------------------------
\* New has returned what it makes of its options.
OptionInv == job \in OptionJob /\ (Finished("options") => answer = [reader |-> New(job.opts)])

LEMMA OptionInvariant ==
    OptionSpec => []OptionInv
<1>1. OptionInit => OptionInv
  BY DEF OptionInit, OptionInv, Finished
<1>2. OptionInv /\ [OptionNext]_<<job, answer>> => OptionInv'
  <2> SUFFICES ASSUME OptionInv, [OptionNext]_<<job, answer>> PROVE OptionInv'
    OBVIOUS
  <2>1. CASE BuildReader
    BY <2>1 DEF BuildReader, Begins, OptionInv, Finished
  <2>2. CASE RegisterOptions
    BY <2>2 DEF RegisterOptions, Begins, OptionInv, Finished
  <2>3. CASE UNCHANGED <<job, answer>>
    BY <2>3 DEF OptionInv, Finished
  <2> QED  BY <2>1, <2>2, <2>3 DEF OptionNext
<1> QED
  BY <1>1, <1>2, PTL DEF OptionSpec

LEMMA JobsAreOptions ==
    ASSUME NEW opts \in OptionLists
    PROVE  IsOptions(opts) /\ opts \in Seq(ToSet(opts))
<1>1. opts \in Seq(ToSet(opts)) /\ \A i \in DOMAIN opts : opts[i] # Nil => opts[i].fn \in OptionFunctions
  BY OptionsAssumption DEF OptionsAssumption
<1> DEFINE X == ToSet(opts)
<1>2. opts \in Seq(X)
  BY <1>1
<1> HIDE DEF X
<1>3. Len(opts) \in Nat /\ DOMAIN opts = 1..Len(opts)
  BY <1>2
<1> QED
  BY <1>1, <1>3 DEF IsOptions

(* New: the order of options about different settings is immaterial, the last
   one of a setting counts, and the default binder matches keys as the Reader
   does: for lists of options of any length. *)
THEOREM OptionsSet ==
    ASSUME NilIsNoOption
    PROVE  OptionSpec => []OptionsAreSettings
<1>1. OptionInv => OptionsAreSettings
  <2> SUFFICES ASSUME OptionInv, Finished("options") PROVE OptionsAreSettings
    BY DEF OptionsAreSettings
  <2> DEFINE opts == job.opts
             n == Len(opts)
             given == {i \in DOMAIN opts : opts[i] # Nil}
  <2>1. opts \in OptionLists /\ answer.reader = New(opts)
    BY DEF OptionInv, OptionJob, Finished
  <2>2. IsOptions(opts) /\ opts \in Seq(ToSet(opts))
    BY <2>1, JobsAreOptions
  <2> HIDE DEF opts
  <2>3. PICK v, r : AreViews(v, opts) /\ IsReader(r) /\ View(r) = v[n] /\ New(opts) = Built(r)
    BY <2>2, NewIsBuilt
  <2>4. ASSUME NEW i \in given, i + 1 \in given, Setting(opts[i]) # Setting(opts[i + 1])
        PROVE  SettingsOf(Swapped(opts, i)) = Settings(answer.reader)
    <3> DEFINE to == Swapped(opts, i)
    <3>1. IsOptions(to) /\ Len(to) = n
      BY <2>2, <2>4, SwappedIsOptions
    <3> HIDE DEF to
    <3>2. PICK w, q : AreViews(w, to) /\ IsReader(q) /\ View(q) = w[Len(to)] /\ New(to) = Built(q)
      BY <3>1, NewIsBuilt
    <3>3. v[n] = w[n]
      BY <2>2, <2>3, <2>4, <3>2, SwappedViews DEF to
    <3>4. Settings(Built(r)) = Settings(Built(q))
      BY <2>3, <3>1, <3>2, <3>3, SettingsAreTheView
    <3> QED  BY <2>1, <2>3, <3>2, <3>4 DEF SettingsOf, to
  <2>5. ASSUME NEW i \in given, NEW j \in given, i < j, Setting(opts[i]) = Setting(opts[j]),
               ~IsList(Setting(opts[i])), ~IsIgnored(opts[j])
        PROVE  SettingsOf(RemoveAt(opts, i)) = Settings(answer.reader)
    <3> DEFINE to == RemoveAt(opts, i)
    <3>1. IsOptions(to)
      BY <2>2, RemovedIsOptions
    <3> HIDE DEF to
    <3>2. PICK w, q : AreViews(w, to) /\ IsReader(q) /\ View(q) = w[Len(to)] /\ New(to) = Built(q)
      BY <3>1, NewIsBuilt
    <3>3. v[n] = w[Len(to)]
      BY <2>2, <2>3, <2>5, <3>2, RemovedViews DEF to
    <3>4. Settings(Built(r)) = Settings(Built(q))
      BY <2>3, <3>2, <3>3, SettingsAreTheView
    <3> QED  BY <2>1, <2>3, <3>2, <3>4 DEF SettingsOf, to
  <2>6. ASSUME \A i \in given : opts[i].fn # "WithBinder" \/ opts[i].arg = Nil
        PROVE  answer.reader.binder.matcher = answer.reader.matcher
    <3>1. v[n]["WithBinder"] = Nil /\ \E m : v[n]["WithKeyMatcher"] = <<m, m>>
      BY <2>2, <2>3, <2>6, OneMatcher
    <3> QED  BY <2>1, <2>3, <3>1, MatcherOfBuilt
  <2> QED  BY <2>4, <2>5, <2>6 DEF OptionsAreSettings, opts
<1> QED
  BY <1>1, OptionInvariant, PTL

-----------------------------------------------------------------------------
(***************************************************************************)
(* Texts with references                                                   *)
(***************************************************************************)

\* Texts as the process may have them in its environment, too.
Texts == Seq(Symbol \cup {Fresh})
IsEnvironment(env) == \A name \in DOMAIN env : env[name] \in Texts

\* What asks for the rest of a text is given what the whole of it would get.
ScannerRecurs ==
    /\ \A s \in Seq(Symbol) : \A i, depth \in Nat : InnerClosesAt(s, i, depth) = closesAt(s, i, depth)
    /\ \A s \in Seq(Symbol) : \A env : \A strict \in BOOLEAN :
         InnerExpandVariables(s, env, strict) = expandVariables(s, env, strict)

-----------------------------------------------------------------------------
(* Sequences *)

LEMMA Portion ==
    ASSUME NEW S, NEW s \in Seq(S), NEW m \in Nat, m >= 1, NEW n \in Nat, n <= Len(s)
    PROVE  LET part == SubSeq(s, m, n) IN
           /\ part \in Seq(S) /\ Len(part) = IF m <= n THEN n + 1 - m ELSE 0
           /\ \A k \in 1..Len(part) : part[k] = s[m + k - 1]
  OBVIOUS

LEMMA Rest ==
    ASSUME NEW S, NEW s \in Seq(S), NEW m \in Nat, m >= 1
    PROVE  LET part == From(s, m) IN
           /\ part \in Seq(S) /\ Len(part) = IF m <= Len(s) THEN Len(s) + 1 - m ELSE 0
           /\ \A k \in 1..Len(part) : part[k] = s[m + k - 1]
  BY DEF From

LEMMA MinIsLeast ==
    ASSUME NEW T, T \in SUBSET Nat, T # {}
    PROVE  Min(T) \in T /\ \A x \in T : Min(T) <= x
<1>1. \E x \in T : \A y \in T : x <= y
  BY Counting!LeastNumber
<1> QED
  BY <1>1 DEF Min

-----------------------------------------------------------------------------
(* What the parts of the scanner return *)

LEMMA ClosesWithin ==
    ASSUME ScannerRecurs, NEW s \in Seq(Symbol)
    PROVE  \A i \in Nat \ {0} : \A depth \in Nat : closesAt(s, i, depth) \in 0..Len(s)
<1> DEFINE Within(i, depth) == closesAt(s, i, depth) \in 0..Len(s)
           S == {k \in Nat : \A i \in Nat \ {0} : \A depth \in Nat : i + k >= Len(s) + 1 => Within(i, depth)}
<1>1. Len(s) \in Nat
  OBVIOUS
<1>2. 0 \in S
  <2>1. ASSUME NEW i \in Nat \ {0}, NEW depth \in Nat, i + 0 >= Len(s) + 1 PROVE Within(i, depth)
    <3>1. i > Len(s)
      BY <2>1, <1>1
    <3>2. closesAt(s, i, depth) = 0
      BY <3>1 DEF closesAt
    <3> QED  BY <3>2, <1>1
  <2> HIDE DEF Within
  <2> QED  BY <2>1
<1>3. ASSUME NEW k \in Nat, k \in S PROVE k + 1 \in S
  <2>1. ASSUME NEW i \in Nat \ {0}, NEW depth \in Nat, i + (k + 1) >= Len(s) + 1 PROVE Within(i, depth)
    <3>1. \A j \in {i + 1, i + 2} : \A d \in Nat : closesAt(s, j, d) \in 0..Len(s) /\ InnerClosesAt(s, j, d) = closesAt(s, j, d)
      <4>1. \A j \in {i + 1, i + 2} : j \in Nat \ {0} /\ j + k >= Len(s) + 1
        BY <2>1, <1>1
      <4> QED  BY <4>1, <1>3 DEF ScannerRecurs
    <3>2. depth + 1 \in Nat /\ (depth # 0 => depth - 1 \in Nat)
      OBVIOUS
    <3>3. i <= Len(s) => i \in 0..Len(s)
      BY <1>1
    <3>4. 0 \in 0..Len(s)
      BY <1>1
    <3>5. CASE i > Len(s)
      BY <3>4, <3>5 DEF closesAt
    <3>6. CASE ~(i > Len(s)) /\ s[i] = "$" /\ i < Len(s) /\ s[i + 1] \in {"$", "{"}
      <4>1. closesAt(s, i, depth) \in {InnerClosesAt(s, i + 2, depth), InnerClosesAt(s, i + 2, depth + 1)}
        BY <3>6 DEF closesAt
      <4> QED  BY <4>1, <3>1, <3>2
    <3>7. CASE i <= Len(s) /\ s[i] = "}" /\ depth = 0
      <4>1. closesAt(s, i, depth) = i
        <5> DEFINE n == Len(s)
        <5>1. i \in Nat /\ n \in Nat /\ i <= n
          BY <1>1, <3>7
        <5> HIDE DEF n
        <5>2. ~(i > n)
          BY <5>1
        <5>3. ~(i > Len(s))
          BY <5>2 DEF n
        <5> QED  BY <3>7, <5>3 DEF closesAt
      <4> QED  BY <4>1, <3>3, <3>7
    <3>8. CASE ~(i > Len(s)) /\ ~(s[i] = "$" /\ i < Len(s) /\ s[i + 1] \in {"$", "{"}) /\ ~(s[i] = "}" /\ depth = 0)
      <4>1. closesAt(s, i, depth) = InnerClosesAt(s, i + 1, IF s[i] = "}" THEN depth - 1 ELSE depth)
        BY <3>8 DEF closesAt
      <4>2. (IF s[i] = "}" THEN depth - 1 ELSE depth) \in Nat
        BY <3>2, <3>8
      <4> QED  BY <4>1, <4>2, <3>1
    <3>9. i > Len(s) \/ i <= Len(s)
      BY <1>1
    <3> QED  BY <3>5, <3>6, <3>7, <3>8, <3>9
  <2> HIDE DEF Within
  <2>2. k + 1 \in Nat
    OBVIOUS
  <2> QED  BY <2>1, <2>2
<1> HIDE DEF Within
<1>4. Nat \subseteq S
  <2> HIDE DEF S
  <2> QED  BY <1>2, <1>3, Counting!NatSetInduction
<1>5. ASSUME NEW i \in Nat \ {0}, NEW depth \in Nat PROVE Within(i, depth)
  <2>1. Len(s) + 1 \in Nat /\ i + (Len(s) + 1) >= Len(s) + 1
    BY <1>1
  <2>2. Len(s) + 1 \in S
    BY <2>1, <1>4
  <2> QED  BY <2>1, <2>2
<1> QED
  BY <1>5 DEF Within

LEMMA NameWithin ==
    ASSUME NEW s \in Seq(Symbol)
    PROVE  identifierLen(s) \in 0..Len(s)
<1> DEFINE others == {i \in DOMAIN s : s[i] \notin Letter /\ (i = 1 \/ s[i] \notin Digit)}
<1>1. Len(s) \in Nat /\ DOMAIN s = 1..Len(s) /\ others \subseteq 1..Len(s) /\ others \in SUBSET Nat
  OBVIOUS
<1>2. identifierLen(s) = IF others = {} THEN Len(s) ELSE Min(others) - 1
  BY DEF identifierLen
<1> HIDE DEF others
<1>3. others # {} => Min(others) \in 1..Len(s)
  BY <1>1, MinIsLeast
<1> QED
  BY <1>1, <1>2, <1>3

LEMMA CutWithin ==
    ASSUME NEW s \in Seq(Symbol)
    PROVE  CutAt(s) \in Nat /\ (CutAt(s) # 0 => CutAt(s) \in 1..(Len(s) - 1))
<1> DEFINE at == {i \in 1..(Len(s) - 1) : s[i] = ":" /\ s[i + 1] = "-"}
<1>1. Len(s) \in Nat /\ at \subseteq 1..(Len(s) - 1) /\ at \in SUBSET Nat
  OBVIOUS
<1>2. CutAt(s) = IF at = {} THEN 0 ELSE Min(at)
  BY DEF CutAt
<1> HIDE DEF at
<1>3. at # {} => Min(at) \in 1..(Len(s) - 1)
  BY <1>1, MinIsLeast
<1> QED
  BY <1>1, <1>2, <1>3

\* The name of a reference, and its fallback if it has one.
Resolved(name, fallbacks, env, strict) ==
    IF name = <<>> THEN Gives(<<>>)
    ELSE IF IsSet(env, name) THEN Gives(env[name])
    ELSE IF fallbacks # {} THEN expandVariables(CHOOSE f \in fallbacks : TRUE, env, strict)
    ELSE IF strict THEN Refuses(name)
    ELSE Gives(<<>>)

LEMMA BodiesResolve ==
    ASSUME ScannerRecurs, NEW spec \in Seq(Symbol)
    PROVE  \E name \in Seq(Symbol), fallbacks \in {{}} \cup {{f} : f \in Seq(Symbol)} :
             /\ \A f \in fallbacks : Len(f) < Len(spec)
             /\ \A env : \A strict \in BOOLEAN : resolveVariable(spec, env, strict) = Resolved(name, fallbacks, env, strict)
<1> DEFINE cut == CutAt(spec)
           name == IF cut = 0 THEN spec ELSE SubSeq(spec, 1, cut - 1)
           fallback == From(spec, cut + 2)
           fallbacks == IF cut = 0 THEN {} ELSE {fallback}
<1>1. cut \in Nat /\ (cut # 0 => cut \in 1..(Len(spec) - 1)) /\ Len(spec) \in Nat
  BY CutWithin
<1>2. \A env, strict : resolveVariable(spec, env, strict) =
        IF name = <<>> THEN Gives(<<>>)
        ELSE IF IsSet(env, name) THEN Gives(env[name])
        ELSE IF cut # 0 THEN InnerExpandVariables(fallback, env, strict)
        ELSE IF strict THEN Refuses(name)
        ELSE Gives(<<>>)
  BY DEF resolveVariable
<1> HIDE DEF cut
<1>3. name \in Seq(Symbol)
  <2>1. cut # 0 => cut - 1 \in Nat /\ cut - 1 <= Len(spec)
    BY <1>1
  <2> QED  BY <2>1, Portion
<1>4. cut # 0 => fallback \in Seq(Symbol) /\ Len(fallback) < Len(spec)
  <2> SUFFICES ASSUME cut # 0 PROVE fallback \in Seq(Symbol) /\ Len(fallback) < Len(spec)
    OBVIOUS
  <2>1. cut + 2 \in Nat /\ cut + 2 >= 1
    BY <1>1
  <2>2. fallback \in Seq(Symbol) /\ Len(fallback) = IF cut + 2 <= Len(spec) THEN Len(spec) + 1 - (cut + 2) ELSE 0
    BY <2>1, Rest
  <2> QED  BY <2>2, <1>1
<1> HIDE DEF name, fallback
<1>5. fallbacks \in {{}} \cup {{f} : f \in Seq(Symbol)} /\ \A f \in fallbacks : Len(f) < Len(spec)
  BY <1>4
<1>6. ASSUME NEW env, NEW strict \in BOOLEAN
      PROVE  resolveVariable(spec, env, strict) = Resolved(name, fallbacks, env, strict)
  <2>1. CASE cut = 0
    BY <2>1, <1>2 DEF Resolved
  <2>2. CASE cut # 0
    <3>1. InnerExpandVariables(fallback, env, strict) = expandVariables(fallback, env, strict)
      BY <2>2, <1>4 DEF ScannerRecurs
    <3>2. fallbacks # {} /\ (CHOOSE f \in fallbacks : TRUE) = fallback
      BY <2>2
    <3> HIDE DEF fallbacks
    <3> QED  BY <2>2, <3>1, <3>2, <1>2 DEF Resolved
  <2> QED  BY <2>1, <2>2
<1> HIDE DEF fallbacks
<1> QED
  BY <1>3, <1>5, <1>6

Took(n, r) == [taken |-> n, gives |-> r]

\* A round writes some symbols, whatever the environment is, or resolves a body
\* that is shorter than the text.
LEMMA RoundsTake ==
    ASSUME ScannerRecurs, NEW s \in Seq(Symbol), s # <<>>
    PROVE  \E n \in Nat \ {0} :
             \/ \E t \in Seq(Symbol) : \A env, strict : Round(s, env, strict) = Took(n, Gives(t))
             \/ \E spec \in Seq(Symbol) :
                  Len(spec) < Len(s) /\ \A env, strict : Round(s, env, strict) = Took(n, resolveVariable(spec, env, strict))
<1> DEFINE close == closingBrace(From(s, 3))
           length == identifierLen(Tail(s))
<1>1. Len(s) \in Nat \ {0} /\ s[1] \in Symbol
  OBVIOUS
<1>2. \A env, strict : Round(s, env, strict) =
        IF s[1] # "$" THEN Took(1, Gives(<<s[1]>>))
        ELSE IF Len(s) = 1 \/ s[2] = "$" THEN Took(2, Gives(<<"$">>))
        ELSE IF s[2] = "{"
        THEN IF close = 0 THEN Took(Len(s), Gives(s))
             ELSE Took(2 + close, resolveVariable(SubSeq(s, 3, 1 + close), env, strict))
        ELSE IF length = 0 THEN Took(1, Gives(<<"$">>))
        ELSE Took(1 + length, resolveVariable(SubSeq(s, 2, 1 + length), env, strict))
  BY DEF Round, Took
<1>3. From(s, 3) \in Seq(Symbol) /\ Len(From(s, 3)) = IF 3 <= Len(s) THEN Len(s) + 1 - 3 ELSE 0
  BY Rest
<1>4. close \in 0..Len(From(s, 3))
  BY <1>3, ClosesWithin DEF closingBrace
<1>5. Tail(s) \in Seq(Symbol) /\ Len(Tail(s)) = Len(s) - 1
  BY <1>1
<1>6. length \in 0..(Len(s) - 1)
  BY <1>5, NameWithin
<1> HIDE DEF close, length
<1>7. <<"$">> \in Seq(Symbol) /\ <<s[1]>> \in Seq(Symbol) /\ 1 \in Nat \ {0} /\ 2 \in Nat \ {0}
  <2>1. "$" \in Marks /\ Marks \subseteq Symbol
    BY SymbolAssumption DEF SymbolAssumption, Marks
  <2>2. "$" \in Symbol /\ s[1] \in Symbol
    BY <2>1, <1>1
  <2> QED  BY <2>2
<1> DEFINE Gives1(n, t) == \A env, strict : Round(s, env, strict) = Took(n, Gives(t))
           Goal == \E n \in Nat \ {0} :
             \/ \E t \in Seq(Symbol) : Gives1(n, t)
             \/ \E spec \in Seq(Symbol) :
                  Len(spec) < Len(s) /\ \A env, strict : Round(s, env, strict) = Took(n, resolveVariable(spec, env, strict))
<1>8. ASSUME NEW n \in Nat \ {0}, NEW t \in Seq(Symbol), Gives1(n, t) PROVE Goal
  BY <1>8
<1> SUFFICES Goal
  OBVIOUS
<1> HIDE DEF Goal
<1>9. CASE s[1] # "$"
  <2>1. Gives1(1, <<s[1]>>)
    BY <1>9, <1>2
  <2> HIDE DEF Gives1
  <2> QED  BY <2>1, <1>7, <1>8
<1>10. CASE s[1] = "$" /\ (Len(s) = 1 \/ s[2] = "$")
  <2>1. Gives1(2, <<"$">>)
    BY <1>10, <1>2
  <2> HIDE DEF Gives1
  <2> QED  BY <2>1, <1>7, <1>8
<1>11. CASE s[1] = "$" /\ ~(Len(s) = 1 \/ s[2] = "$") /\ s[2] = "{" /\ close = 0
  <2>1. Gives1(Len(s), s)
    BY <1>11, <1>2
  <2> HIDE DEF Gives1
  <2> QED  BY <2>1, <1>1, <1>8
<1>12. CASE s[1] = "$" /\ ~(Len(s) = 1 \/ s[2] = "$") /\ s[2] = "{" /\ close # 0
  <2> DEFINE spec == SubSeq(s, 3, 1 + close)
  <2>1. \A env, strict : Round(s, env, strict) = Took(2 + close, resolveVariable(spec, env, strict))
    BY <1>12, <1>2
  <2>2. 1 + close \in Nat /\ 1 + close <= Len(s) /\ 2 + close \in Nat \ {0}
    <3>1. Len(From(s, 3)) \in Nat /\ close \in Nat /\ close <= Len(From(s, 3)) /\ close > 0
      <4> DEFINE rest == From(s, 3)
      <4>1. Len(rest) \in Nat /\ close \in 0..Len(rest)
        BY <1>3, <1>4
      <4> HIDE DEF rest
      <4>2. close # 0
        BY <1>12
      <4>3. close \in Nat /\ close <= Len(rest) /\ close > 0
        BY <4>1, <4>2
      <4> QED  BY <4>1, <4>3 DEF rest
    <3>2. 3 <= Len(s) /\ Len(From(s, 3)) = Len(s) - 2
      BY <3>1, <1>1, <1>3
    <3> QED  BY <3>1, <3>2, <1>1
  <2>3. spec \in Seq(Symbol) /\ Len(spec) = IF 3 <= 1 + close THEN (1 + close) + 1 - 3 ELSE 0
    BY <2>2, Portion
  <2>4. Len(spec) < Len(s)
    BY <2>2, <2>3, <1>1
  <2> QED  BY <2>1, <2>2, <2>3, <2>4 DEF Goal
<1>13. CASE s[1] = "$" /\ ~(Len(s) = 1 \/ s[2] = "$") /\ s[2] # "{" /\ length = 0
  <2>1. Gives1(1, <<"$">>)
    BY <1>13, <1>2
  <2> HIDE DEF Gives1
  <2> QED  BY <2>1, <1>7, <1>8
<1>14. CASE s[1] = "$" /\ ~(Len(s) = 1 \/ s[2] = "$") /\ s[2] # "{" /\ length # 0
  <2> DEFINE spec == SubSeq(s, 2, 1 + length)
  <2>1. \A env, strict : Round(s, env, strict) = Took(1 + length, resolveVariable(spec, env, strict))
    BY <1>14, <1>2
  <2>2. 1 + length \in Nat \ {0} /\ 1 + length <= Len(s)
    BY <1>1, <1>6
  <2>3. spec \in Seq(Symbol) /\ Len(spec) = IF 2 <= 1 + length THEN (1 + length) + 1 - 2 ELSE 0
    BY <2>2, Portion
  <2>4. Len(spec) < Len(s)
    BY <2>2, <2>3, <1>1
  <2> QED  BY <2>1, <2>2, <2>3, <2>4 DEF Goal
<1> QED
  BY <1>9, <1>10, <1>11, <1>12, <1>13, <1>14

-----------------------------------------------------------------------------
(* Strict against lenient *)

LEMMA Results ==
    /\ \A t : ~Failed(Gives(t)) /\ Gives(t).text = t
    /\ \A n : Failed(Refuses(n)) /\ Refuses(n).unset = n
  BY DEF Failed, Gives, Refuses

IsGiven(r) == r = Gives(r.text) /\ r.text \in Texts

\* What strict mode and lenient mode make of a text, and what lenient mode makes
\* of it when the name strict mode refuses has the value <<Fresh>>.
Agrees(strict, lenient, env) ==
    IF Failed(strict) THEN strict = Refuses(strict.unset) /\ strict.unset \in Seq(Symbol) /\ ~IsSet(env, strict.unset)
    ELSE strict = lenient
Shows(r) == IsGiven(r) /\ Contains(r.text, Fresh)

FineText(s) ==
    \A env : IsEnvironment(env) =>
      LET strict == expandVariables(s, env, TRUE)
          lenient == expandVariables(s, env, FALSE)
      IN /\ IsGiven(lenient) /\ Agrees(strict, lenient, env)
         /\ Failed(strict) => Shows(expandVariables(s, Having(env, strict.unset), FALSE))
FineBody(spec) ==
    \A env : IsEnvironment(env) =>
      LET strict == resolveVariable(spec, env, TRUE)
          lenient == resolveVariable(spec, env, FALSE)
      IN /\ IsGiven(lenient) /\ Agrees(strict, lenient, env)
         /\ Failed(strict) => Shows(resolveVariable(spec, Having(env, strict.unset), FALSE))

LEMMA HavingGives ==
    ASSUME NEW env, IsEnvironment(env), NEW name
    PROVE  LET to == Having(env, name) IN
           /\ IsEnvironment(to) /\ IsSet(to, name) /\ to[name] = <<Fresh>>
           /\ \A n : n # name => (IsSet(to, n) <=> IsSet(env, n)) /\ (IsSet(env, n) => to[n] = env[n])
<1> DEFINE to == Having(env, name)
<1>1. <<Fresh>> \in Texts /\ <<Fresh>> # <<>>
  BY DEF Texts
<1>2. /\ DOMAIN to = DOMAIN env \cup {name} /\ to[name] = <<Fresh>>
      /\ \A n \in DOMAIN env : n # name => to[n] = env[n]
  BY DEF Having
<1> HIDE DEF to
<1>3. IsEnvironment(to)
  BY <1>1, <1>2 DEF IsEnvironment
<1>4. IsSet(to, name)
  BY <1>1, <1>2 DEF IsSet
<1>5. ASSUME NEW n, n # name PROVE (IsSet(to, n) <=> IsSet(env, n)) /\ (IsSet(env, n) => to[n] = env[n])
  BY <1>2, <1>5 DEF IsSet
<1> QED
  BY <1>2, <1>3, <1>4, <1>5 DEF to

LEMMA SetIsGiven ==
    ASSUME NEW env, IsEnvironment(env), NEW name, IsSet(env, name)
    PROVE  IsGiven(Gives(env[name]))
  BY Results DEF IsEnvironment, IsSet, IsGiven

LEMMA FreshShows ==
    Shows(Gives(<<Fresh>>))
<1>1. <<Fresh>> \in Texts /\ Len(<<Fresh>>) = 1 /\ <<Fresh>>[1] = Fresh
  BY DEF Texts
<1>2. 1 \in 1..1
  OBVIOUS
<1> QED
  BY <1>1, <1>2, Results DEF Shows, IsGiven, Contains

LEMMA BodiesAreFine ==
    ASSUME ScannerRecurs, NEW spec \in Seq(Symbol), \A f \in Seq(Symbol) : Len(f) < Len(spec) => FineText(f)
    PROVE  FineBody(spec)
<1>1. PICK name \in Seq(Symbol), fallbacks \in {{}} \cup {{f} : f \in Seq(Symbol)} :
             /\ \A f \in fallbacks : Len(f) < Len(spec)
             /\ \A env : \A strict \in BOOLEAN : resolveVariable(spec, env, strict) = Resolved(name, fallbacks, env, strict)
  BY BodiesResolve
<1>2. Gives(<<>>) = Gives(Gives(<<>>).text) /\ Gives(<<>>).text \in Texts
  <2>1. <<>> \in Texts
    BY DEF Texts
  <2>2. Gives(<<>>).text = <<>>
    BY Results
  <2> QED  BY <2>1, <2>2
<1> SUFFICES ASSUME NEW env, IsEnvironment(env)
             PROVE  /\ IsGiven(resolveVariable(spec, env, FALSE))
                    /\ Agrees(resolveVariable(spec, env, TRUE), resolveVariable(spec, env, FALSE), env)
                    /\ LET strict == resolveVariable(spec, env, TRUE) IN
                       Failed(strict) => Shows(resolveVariable(spec, Having(env, strict.unset), FALSE))
  BY DEF FineBody
<1> DEFINE R(e, strict) == Resolved(name, fallbacks, e, strict)
<1>3. \A e : \A strict \in BOOLEAN : resolveVariable(spec, e, strict) = R(e, strict)
  BY <1>1
<1>4. CASE name = <<>>
  <2>1. \A e, strict : R(e, strict) = Gives(<<>>)
    BY <1>4 DEF Resolved
  <2> QED  BY <2>1, <1>2, <1>3, Results DEF IsGiven, Agrees
<1>5. CASE name # <<>> /\ IsSet(env, name)
  <2>1. \A strict : R(env, strict) = Gives(env[name])
    BY <1>5 DEF Resolved
  <2>2. IsGiven(Gives(env[name]))
    BY <1>5, SetIsGiven
  <2> QED  BY <2>1, <2>2, <1>3, Results DEF Agrees
<1>6. CASE name # <<>> /\ ~IsSet(env, name) /\ fallbacks = {}
  <2>1. R(env, TRUE) = Refuses(name) /\ R(env, FALSE) = Gives(<<>>)
    BY <1>6 DEF Resolved
  <2> DEFINE to == Having(env, name)
  <2>2. IsSet(to, name) /\ to[name] = <<Fresh>>
    BY HavingGives
  <2>3. R(to, FALSE) = Gives(<<Fresh>>)
    BY <2>2, <1>6 DEF Resolved
  <2>4. Agrees(Refuses(name), Gives(<<>>), env)
    BY <1>6, Results DEF Agrees
  <2>5. Shows(R(to, FALSE))
    BY <2>3, FreshShows
  <2> HIDE DEF R, to
  <2> QED  BY <2>1, <2>4, <2>5, <1>2, <1>3, Results DEF IsGiven, to
<1>7. CASE name # <<>> /\ ~IsSet(env, name) /\ fallbacks # {}
  <2>1. PICK f \in Seq(Symbol) : fallbacks = {f}
    BY <1>1, <1>7
  <2>2. FineText(f) /\ (CHOOSE g \in fallbacks : TRUE) = f
    BY <1>1, <2>1
  <2>3. \A e, strict : R(e, strict) = IF IsSet(e, name) THEN Gives(e[name]) ELSE expandVariables(f, e, strict)
    BY <2>2, <1>7 DEF Resolved
  <2> DEFINE strict == expandVariables(f, env, TRUE)
             lenient == expandVariables(f, env, FALSE)
             to == Having(env, strict.unset)
  <2>4. /\ IsGiven(lenient) /\ Agrees(strict, lenient, env)
        /\ Failed(strict) => Shows(expandVariables(f, to, FALSE))
    BY <2>2 DEF FineText
  <2>5. R(env, TRUE) = strict /\ R(env, FALSE) = lenient
    BY <2>3, <1>7
  <2> HIDE DEF strict, lenient
  <2>6. ASSUME Failed(strict) PROVE Shows(R(to, FALSE))
    <3>1. CASE strict.unset = name
      <4>1. IsSet(to, name) /\ to[name] = <<Fresh>>
        BY <3>1, HavingGives
      <4> HIDE DEF to, R
      <4>2. R(to, FALSE) = Gives(<<Fresh>>)
        BY <4>1, <2>3
      <4> QED  BY <4>2, FreshShows
    <3>2. CASE strict.unset # name
      <4>1. ~IsSet(to, name)
        BY <3>2, <1>7, HavingGives
      <4> HIDE DEF to, R
      <4>2. R(to, FALSE) = expandVariables(f, to, FALSE)
        BY <4>1, <2>3
      <4> QED  BY <4>2, <2>4, <2>6
    <3> QED  BY <3>1, <3>2
  <2> HIDE DEF R
  <2>7. resolveVariable(spec, env, TRUE) = strict /\ resolveVariable(spec, env, FALSE) = lenient
        /\ resolveVariable(spec, to, FALSE) = R(to, FALSE)
    BY <2>5, <1>3
  <2> QED  BY <2>4, <2>6, <2>7
<1> QED
  BY <1>4, <1>5, <1>6, <1>7

LEMMA BeforeJoins ==
    ASSUME NEW q, NEW r
    PROVE  /\ Failed(q) => Before(q, r) = q
           /\ ~Failed(q) /\ Failed(r) => Before(q, r) = r
           /\ IsGiven(q) /\ IsGiven(r) => IsGiven(Before(q, r)) /\ ~Failed(Before(q, r))
           /\ Shows(q) /\ IsGiven(r) => Shows(Before(q, r))
           /\ IsGiven(q) /\ Shows(r) => Shows(Before(q, r))
<1>1. Failed(q) => Before(q, r) = q
  BY DEF Before
<1>2. ~Failed(q) /\ Failed(r) => Before(q, r) = r
  BY DEF Before
<1>3. ASSUME IsGiven(q), IsGiven(r)
      PROVE  /\ IsGiven(Before(q, r)) /\ ~Failed(Before(q, r))
             /\ Contains(q.text, Fresh) \/ Contains(r.text, Fresh) => Contains(Before(q, r).text, Fresh)
  <2>1. ~Failed(q) /\ ~Failed(r)
    BY <1>3, Results DEF IsGiven
  <2> DEFINE a == q.text
             b == r.text
             c == a \o b
  <2>2. Before(q, r) = Gives(c)
    BY <2>1 DEF Before
  <2>3. a \in Texts /\ b \in Texts
    BY <1>3 DEF IsGiven
  <2> HIDE DEF a, b
  <2>4. c \in Texts /\ Len(c) = Len(a) + Len(b) /\ Len(a) \in Nat /\ Len(b) \in Nat
    BY <2>3 DEF Texts
  <2>5. \A i \in 1..Len(a) : c[i] = a[i] /\ i \in 1..Len(c)
    BY <2>3, <2>4 DEF Texts
  <2>6. \A i \in 1..Len(b) : c[Len(a) + i] = b[i] /\ Len(a) + i \in 1..Len(c)
    BY <2>3, <2>4 DEF Texts
  <2> HIDE DEF c
  <2>7. Contains(a, Fresh) \/ Contains(b, Fresh) => Contains(c, Fresh)
    BY <2>5, <2>6 DEF Contains
  <2>8. IsGiven(Gives(c)) /\ ~Failed(Gives(c)) /\ Gives(c).text = c
    BY <2>4, Results DEF IsGiven
  <2> QED  BY <2>2, <2>7, <2>8 DEF a, b
<1>4. Shows(q) /\ IsGiven(r) => Shows(Before(q, r))
  BY <1>3 DEF Shows
<1>5. IsGiven(q) /\ Shows(r) => Shows(Before(q, r))
  BY <1>3 DEF Shows
<1> QED
  BY <1>1, <1>2, <1>3, <1>4, <1>5

LEMMA SymbolsAreTexts ==
    Seq(Symbol) \subseteq Texts
  BY DEF Texts

\* One round, and the rest of the text.
LEMMA TextsUnfold ==
    ASSUME ScannerRecurs, NEW s \in Seq(Symbol), s # <<>>
    PROVE  \E rest \in Seq(Symbol) : Len(rest) < Len(s) /\ \A env : \A strict \in BOOLEAN :
             expandVariables(s, env, strict) =
               LET gives == Round(s, env, strict).gives IN
               IF Failed(gives) THEN gives ELSE Before(gives, expandVariables(rest, env, strict))
<1>1. PICK n \in Nat \ {0} :
             \/ \E t \in Seq(Symbol) : \A env, strict : Round(s, env, strict) = Took(n, Gives(t))
             \/ \E spec \in Seq(Symbol) :
                  Len(spec) < Len(s) /\ \A env, strict : Round(s, env, strict) = Took(n, resolveVariable(spec, env, strict))
  BY RoundsTake
<1>2. \A env, strict : Round(s, env, strict).taken = n
  BY <1>1 DEF Took
<1> DEFINE rest == From(s, n + 1)
<1>3. rest \in Seq(Symbol) /\ Len(rest) = IF n + 1 <= Len(s) THEN Len(s) + 1 - (n + 1) ELSE 0
  BY Rest
<1>4. Len(s) \in Nat \ {0}
  OBVIOUS
<1>5. Len(rest) < Len(s)
  BY <1>3, <1>4
<1>6. ASSUME NEW env, NEW strict \in BOOLEAN
      PROVE  expandVariables(s, env, strict) =
               LET gives == Round(s, env, strict).gives IN
               IF Failed(gives) THEN gives ELSE Before(gives, expandVariables(rest, env, strict))
  <2>1. InnerExpandVariables(rest, env, strict) = expandVariables(rest, env, strict)
    BY <1>3 DEF ScannerRecurs
  <2> DEFINE round == Round(s, env, strict)
  <2>2. expandVariables(s, env, strict) = IF Failed(round.gives) THEN round.gives
            ELSE Before(round.gives, InnerExpandVariables(From(s, round.taken + 1), env, strict))
    BY DEF expandVariables
  <2>3. round.taken = n
    BY <1>2
  <2> QED  BY <2>1, <2>2, <2>3
<1> QED
  BY <1>3, <1>5, <1>6

LEMMA RoundsAreFine ==
    ASSUME ScannerRecurs, NEW s \in Seq(Symbol), s # <<>>, \A f \in Seq(Symbol) : Len(f) < Len(s) => FineText(f),
           NEW env, IsEnvironment(env)
    PROVE  LET strict == Round(s, env, TRUE).gives
               lenient == Round(s, env, FALSE).gives
           IN /\ IsGiven(lenient) /\ Agrees(strict, lenient, env)
              /\ Failed(strict) => Shows(Round(s, Having(env, strict.unset), FALSE).gives)
              /\ \A e : IsEnvironment(e) => IsGiven(Round(s, e, FALSE).gives)
<1>1. PICK n \in Nat \ {0} :
             \/ \E t \in Seq(Symbol) : \A e, strict : Round(s, e, strict) = Took(n, Gives(t))
             \/ \E spec \in Seq(Symbol) :
                  Len(spec) < Len(s) /\ \A e, strict : Round(s, e, strict) = Took(n, resolveVariable(spec, e, strict))
  BY RoundsTake
<1>2. ASSUME NEW t \in Seq(Symbol), \A e, strict : Round(s, e, strict) = Took(n, Gives(t))
      PROVE  /\ \A e, strict : Round(s, e, strict).gives = Gives(t)
             /\ IsGiven(Gives(t)) /\ ~Failed(Gives(t))
  BY <1>2, Results, SymbolsAreTexts DEF Took, IsGiven
<1>3. ASSUME NEW spec \in Seq(Symbol), Len(spec) < Len(s), \A e, strict : Round(s, e, strict) = Took(n, resolveVariable(spec, e, strict))
      PROVE  FineBody(spec) /\ \A e, strict : Round(s, e, strict).gives = resolveVariable(spec, e, strict)
  <2>1. \A f \in Seq(Symbol) : Len(f) < Len(spec) => FineText(f)
    <3>1. Len(s) \in Nat /\ Len(spec) \in Nat /\ \A f \in Seq(Symbol) : Len(f) \in Nat
      OBVIOUS
    <3> QED  BY <3>1, <1>3
  <2>2. \A e, strict : Round(s, e, strict).gives = resolveVariable(spec, e, strict)
    BY <1>3 DEF Took
  <2> QED  BY <2>1, <2>2, BodiesAreFine
<1>4. CASE \E t \in Seq(Symbol) : \A e, strict : Round(s, e, strict) = Took(n, Gives(t))
  BY <1>4, <1>2 DEF Agrees
<1>5. CASE \E spec \in Seq(Symbol) :
                  Len(spec) < Len(s) /\ \A e, strict : Round(s, e, strict) = Took(n, resolveVariable(spec, e, strict))
  <2>1. PICK spec \in Seq(Symbol) :
                  Len(spec) < Len(s) /\ \A e, strict : Round(s, e, strict) = Took(n, resolveVariable(spec, e, strict))
    BY <1>5
  <2>2. FineBody(spec) /\ \A e, strict : Round(s, e, strict).gives = resolveVariable(spec, e, strict)
    BY <2>1, <1>3
  <2> DEFINE strict == resolveVariable(spec, env, TRUE)
             lenient == resolveVariable(spec, env, FALSE)
  <2>3. /\ IsGiven(lenient) /\ Agrees(strict, lenient, env)
        /\ Failed(strict) => Shows(resolveVariable(spec, Having(env, strict.unset), FALSE))
    BY <2>2 DEF FineBody
  <2>4. \A e : IsEnvironment(e) => IsGiven(resolveVariable(spec, e, FALSE))
    BY <2>2 DEF FineBody
  <2>5. /\ Round(s, env, TRUE).gives = strict /\ Round(s, env, FALSE).gives = lenient
        /\ \A e : Round(s, e, FALSE).gives = resolveVariable(spec, e, FALSE)
    BY <2>2
  <2> HIDE DEF strict, lenient
  <2> QED  BY <2>3, <2>4, <2>5
<1> QED
  BY <1>1, <1>4, <1>5

LEMMA TextsStep ==
    ASSUME ScannerRecurs, NEW s \in Seq(Symbol), \A f \in Seq(Symbol) : Len(f) < Len(s) => FineText(f)
    PROVE  FineText(s)
<1> SUFFICES ASSUME NEW env, IsEnvironment(env)
             PROVE  /\ IsGiven(expandVariables(s, env, FALSE))
                    /\ Agrees(expandVariables(s, env, TRUE), expandVariables(s, env, FALSE), env)
                    /\ LET strict == expandVariables(s, env, TRUE) IN
                       Failed(strict) => Shows(expandVariables(s, Having(env, strict.unset), FALSE))
  BY DEF FineText
<1>1. CASE s = <<>>
  <2>1. \A strict \in BOOLEAN : expandVariables(s, env, strict) = Gives(<<>>)
    BY <1>1 DEF expandVariables
  <2>2. <<>> \in Texts
    BY DEF Texts
  <2> QED  BY <2>1, <2>2, Results DEF IsGiven, Agrees
<1>2. CASE s # <<>>
  <2>1. PICK rest \in Seq(Symbol) : Len(rest) < Len(s) /\ \A e : \A strict \in BOOLEAN :
             expandVariables(s, e, strict) =
               LET gives == Round(s, e, strict).gives IN
               IF Failed(gives) THEN gives ELSE Before(gives, expandVariables(rest, e, strict))
    BY <1>2, TextsUnfold
  <2> DEFINE st == Round(s, env, TRUE).gives
             le == Round(s, env, FALSE).gives
             st2 == expandVariables(rest, env, TRUE)
             le2 == expandVariables(rest, env, FALSE)
  <2>2. /\ IsGiven(le) /\ Agrees(st, le, env)
        /\ Failed(st) => Shows(Round(s, Having(env, st.unset), FALSE).gives)
        /\ \A e : IsEnvironment(e) => IsGiven(Round(s, e, FALSE).gives)
    BY <1>2, RoundsAreFine
  <2>3. /\ IsGiven(le2) /\ Agrees(st2, le2, env)
        /\ Failed(st2) => Shows(expandVariables(rest, Having(env, st2.unset), FALSE))
        /\ \A e : IsEnvironment(e) => IsGiven(expandVariables(rest, e, FALSE))
    BY <2>1 DEF FineText
  <2>4. /\ expandVariables(s, env, TRUE) = IF Failed(st) THEN st ELSE Before(st, st2)
        /\ expandVariables(s, env, FALSE) = IF Failed(le) THEN le ELSE Before(le, le2)
    BY <2>1
  <2>5. \A r : IsGiven(r) => ~Failed(r)
    BY Results DEF IsGiven
  <2>6. ASSUME NEW e, IsEnvironment(e)
        PROVE  expandVariables(s, e, FALSE) = Before(Round(s, e, FALSE).gives, expandVariables(rest, e, FALSE))
    <3>1. IsGiven(Round(s, e, FALSE).gives)
      BY <2>2, <2>6
    <3>2. ~Failed(Round(s, e, FALSE).gives)
      BY <3>1, <2>5
    <3> QED  BY <3>2, <2>1
  <2> HIDE DEF st, le, st2, le2
  <2>7. IsGiven(expandVariables(s, env, FALSE)) /\ expandVariables(s, env, FALSE) = Before(le, le2)
    BY <2>2, <2>3, <2>4, <2>5, BeforeJoins
  <2>8. CASE Failed(st)
    <3> DEFINE to == Having(env, st.unset)
    <3>1. expandVariables(s, env, TRUE) = st
      BY <2>4, <2>8
    <3>2. IsEnvironment(to)
      BY HavingGives
    <3> HIDE DEF to
    <3>3. Shows(Before(Round(s, to, FALSE).gives, expandVariables(rest, to, FALSE)))
      BY <2>2, <2>3, <2>8, <3>2, BeforeJoins DEF to
    <3>4. Shows(expandVariables(s, to, FALSE))
      BY <3>2, <3>3, <2>6
    <3>5. Agrees(st, expandVariables(s, env, FALSE), env)
      BY <2>2, <2>8 DEF Agrees
    <3> QED  BY <3>1, <3>4, <3>5, <2>7 DEF to
  <2>9. CASE ~Failed(st) /\ Failed(st2)
    <3> DEFINE to == Having(env, st2.unset)
    <3>1. expandVariables(s, env, TRUE) = st2
      BY <2>4, <2>9, BeforeJoins
    <3>2. IsEnvironment(to)
      BY HavingGives
    <3> HIDE DEF to
    <3>3. Shows(Before(Round(s, to, FALSE).gives, expandVariables(rest, to, FALSE)))
      BY <2>2, <2>3, <2>9, <3>2, BeforeJoins DEF to
    <3>4. Shows(expandVariables(s, to, FALSE))
      BY <3>2, <3>3, <2>6
    <3>5. Agrees(st2, expandVariables(s, env, FALSE), env)
      BY <2>3, <2>9 DEF Agrees
    <3> QED  BY <3>1, <3>4, <3>5, <2>7 DEF to
  <2>10. CASE ~Failed(st) /\ ~Failed(st2)
    <3>1. st = le /\ st2 = le2
      BY <2>2, <2>3, <2>10 DEF Agrees
    <3>2. expandVariables(s, env, TRUE) = expandVariables(s, env, FALSE) /\ ~Failed(expandVariables(s, env, TRUE))
      BY <3>1, <2>4, <2>5, <2>7, <2>10
    <3> QED  BY <3>2, <2>7 DEF Agrees
  <2> QED  BY <2>8, <2>9, <2>10
<1> QED
  BY <1>1, <1>2

\* By induction over the length of a text.
LEMMA TextsAreFine ==
    ASSUME ScannerRecurs
    PROVE  \A s \in Seq(Symbol) : FineText(s)
<1> DEFINE S == {n \in Nat : \A s \in Seq(Symbol) : Len(s) < n => FineText(s)}
<1>1. \A s \in Seq(Symbol) : Len(s) \in Nat
  OBVIOUS
<1>2. 0 \in S
  BY <1>1
<1>3. ASSUME NEW n \in Nat, n \in S PROVE n + 1 \in S
  <2>1. ASSUME NEW s \in Seq(Symbol), Len(s) < n + 1 PROVE FineText(s)
    <3>1. \A f \in Seq(Symbol) : Len(f) < Len(s) => FineText(f)
      BY <2>1, <1>1, <1>3
    <3> QED  BY <3>1, TextsStep
  <2>2. n + 1 \in Nat
    OBVIOUS
  <2> QED  BY <2>1, <2>2
<1>4. Nat \subseteq S
  <2> HIDE DEF S
  <2> QED  BY <1>2, <1>3, Counting!NatSetInduction
<1>5. ASSUME NEW s \in Seq(Symbol) PROVE FineText(s)
  <2>1. Len(s) + 1 \in Nat /\ Len(s) < Len(s) + 1
    BY <1>1
  <2>2. Len(s) + 1 \in S
    BY <2>1, <1>4
  <2> QED  BY <2>1, <2>2
<1> QED
  BY <1>5

-----------------------------------------------------------------------------
\* What an expansion returned is what its text becomes in either mode.
ReferenceInv ==
    /\ job \in ReferenceJob
    /\ Finished("string") => answer = Expansions(job.text)
    /\ Finished("term") => answer = Expansions(Written(job.term))

LEMMA ReferenceInvariant ==
    ReferenceSpec => []ReferenceInv
<1>1. ReferenceInit => ReferenceInv
  BY DEF ReferenceInit, ReferenceInv, Finished
<1>2. ReferenceInv /\ [ReferenceNext]_<<job, answer>> => ReferenceInv'
  <2> SUFFICES ASSUME ReferenceInv, [ReferenceNext]_<<job, answer>> PROVE ReferenceInv'
    OBVIOUS
  <2>1. CASE ExpandTerm
    BY <2>1 DEF ExpandTerm, Begins, ReferenceInv, Finished, Expansions
  <2>2. CASE ExpandString
    BY <2>2 DEF ExpandString, Begins, ReferenceInv, Finished, Expansions
  <2>3. CASE UNCHANGED <<job, answer>>
    BY <2>3 DEF ReferenceInv, Finished, Expansions
  <2> QED  BY <2>1, <2>2, <2>3 DEF ReferenceNext
<1> QED
  BY <1>1, <1>2, PTL DEF ReferenceSpec

(* expandVariables: strict mode gives what lenient mode gives, or refuses a name
   that is unset and whose value would show: for texts of any length. *)
THEOREM StrictRefusesNothingElse ==
    ASSUME ScannerRecurs
    PROVE  ReferenceSpec => []StrictOnlyRefuses
<1>1. ReferenceInv => StrictOnlyRefuses
  <2> SUFFICES ASSUME ReferenceInv, Finished("string") PROVE StrictOnlyRefuses
    BY DEF StrictOnlyRefuses
  <2> DEFINE s == job.text
             env == job.env
  <2>1. s \in Strings /\ env \in Environments /\ answer = Expansions(s)
    BY DEF ReferenceInv, ReferenceJob, Finished
  <2>2. s \in Seq(Symbol) /\ IsEnvironment(env)
    BY <2>1, SymbolAssumption DEF SymbolAssumption, IsEnvironment, Texts
  <2> DEFINE strict == expandVariables(s, env, TRUE)
             lenient == expandVariables(s, env, FALSE)
  <2>3. answer.strict = strict /\ answer.lenient = lenient
    BY <2>1 DEF Expansions
  <2> HIDE DEF s, env
  <2>4. FineText(s)
    BY <2>2, TextsAreFine
  <2>5. /\ Agrees(strict, lenient, env)
        /\ Failed(strict) => Shows(expandVariables(s, Having(env, strict.unset), FALSE))
    BY <2>2, <2>4 DEF FineText
  <2> HIDE DEF strict, lenient
  <2> QED  BY <2>3, <2>5 DEF StrictOnlyRefuses, Agrees, Shows, s, env
<1> QED
  BY <1>1, ReferenceInvariant, PTL

-----------------------------------------------------------------------------
(* Texts with references *)

IsName(n) ==
    /\ n \in Seq(Symbol) /\ n # <<>> /\ n[1] \in Letter
    /\ \A i \in 1..Len(n) : n[i] \in Letter \cup Digit

\* An item a reader can take apart: in a fallback, a "}" is none.
IsItem(item, nested) ==
    \/ /\ DOMAIN item = {"lit"} /\ item.lit \in Symbol \ {"$"} /\ (nested => item.lit # "}")
    \/ DOMAIN item = {"dollar"}
    \/ /\ DOMAIN item = {"amount"} /\ item.amount \in Symbol \ (Letter \cup {"$", "{"}) /\ (nested => item.amount # "}")
    \/ DOMAIN item = {"bare"} /\ IsName(item.bare)
    \/ DOMAIN item \in {{"ref"}, {"ref", "fallback"}} /\ IsName(item.ref)

\* A text is looked at together with whether it is a fallback.
IsTextOf(p) ==
    LET text == p[1]
    IN /\ p = <<text, p[2]>> /\ p[2] \in BOOLEAN
       /\ text \in Seq({text[i] : i \in DOMAIN text})
       /\ text # <<>> => IsItem(text[1], p[2])
       /\ WellWritten(text)
PartsOf(p) ==
    IF p[1] = <<>> THEN {}
    ELSE {<<Tail(p[1]), p[2]>>} \cup (IF "fallback" \in DOMAIN p[1][1] THEN {<<p[1][1].fallback, TRUE>>} ELSE {})

\* A set of texts that has the parts of each, and can be gone through from the
\* parts to the whole.
FoundedTexts(S) ==
    /\ \A p \in S : IsTextOf(p) /\ PartsOf(p) \subseteq S
    /\ \A T \in SUBSET S : (\A p \in S : PartsOf(p) \subseteq T => p \in T) => T = S
IsTerm(p) == \E S : p \in S /\ FoundedTexts(S)

\* What asks for the rest of a text, or for a fallback, is given what the whole
\* of it would get.
TermsRecur ==
    \A p : IsTerm(p) =>
      /\ InnerWritten(p[1]) = Written(p[1])
      /\ \A env : \A strict \in BOOLEAN : InnerMeaning(p[1], env, strict) = Meaning(p[1], env, strict)

\* Terms are finite texts a reader can take apart.
TermsAreTexts == \A t \in Terms : IsTerm(<<t, FALSE>>)

LEMMA PartsAreTerms ==
    ASSUME NEW p, IsTerm(p)
    PROVE  IsTextOf(p) /\ \A q \in PartsOf(p) : IsTerm(q)
  BY DEF IsTerm, FoundedTexts

-----------------------------------------------------------------------------
(* What the search for the closing brace passes *)

\* w is in s from its place i on.
HasAt(s, i, w) ==
    /\ (i - 1) + Len(w) <= Len(s)
    /\ \A k \in 1..Len(w) : s[(i - 1) + k] = w[k]

Passes(w) ==
    \A s \in Seq(Symbol) : \A i \in Nat \ {0} : \A depth \in Nat :
      HasAt(s, i, w) => closesAt(s, i, depth) = closesAt(s, i + Len(w), depth)

LEMMA Joined ==
    ASSUME NEW v \in Seq(Symbol), NEW w \in Seq(Symbol)
    PROVE  /\ v \o w \in Seq(Symbol) /\ Len(v \o w) = Len(v) + Len(w) /\ Len(v) \in Nat /\ Len(w) \in Nat
           /\ \A k \in 1..Len(v) : (v \o w)[k] = v[k]
           /\ \A k \in 1..Len(w) : (v \o w)[Len(v) + k] = w[k]
<1>1. v \o w \in Seq(Symbol)
  OBVIOUS
<1>2. Len(v) \in Nat /\ Len(w) \in Nat
  OBVIOUS
<1>3. Len(v \o w) = Len(v) + Len(w) /\ \A k \in 1..(Len(v) + Len(w)) : (v \o w)[k] = IF k <= Len(v) THEN v[k] ELSE w[k - Len(v)]
  BY ConcatProperties
<1> DEFINE m == Len(v)
           n == Len(w)
           vw == v \o w
<1> HIDE DEF m, n, vw
<1>4. m \in Nat /\ n \in Nat /\ \A k \in 1..(m + n) : vw[k] = IF k <= m THEN v[k] ELSE w[k - m]
  BY <1>2, <1>3 DEF m, n, vw
<1>5. \A k \in 1..m : vw[k] = v[k]
  BY <1>4
<1>6. ASSUME NEW k \in 1..n PROVE vw[m + k] = w[k]
  <2>1. m + k \in 1..(m + n) /\ ~(m + k <= m) /\ (m + k) - m = k
    BY <1>4
  <2> QED  BY <2>1, <1>4
<1> QED
  BY <1>1, <1>2, <1>3, <1>5, <1>6 DEF m, n, vw

LEMMA Associate ==
    ASSUME NEW u \in Seq(Symbol), NEW v \in Seq(Symbol), NEW w \in Seq(Symbol)
    PROVE  (u \o v) \o w = u \o (v \o w)
  BY ConcatAssociative

LEMMA AssociateAll ==
    ASSUME NEW u \in Seq(Symbol), NEW v \in Seq(Symbol), NEW w \in Seq(Symbol), NEW x \in Seq(Symbol)
    PROVE  ((u \o v) \o w) \o x = u \o ((v \o w) \o x)
<1>1. (u \o v) \o w = u \o (v \o w)
  BY Associate
<1> DEFINE c == v \o w
<1>2. c \in Seq(Symbol)
  OBVIOUS
<1> HIDE DEF c
<1>3. (u \o c) \o x = u \o (c \o x)
  BY <1>2, Associate
<1> QED
  BY <1>1, <1>3 DEF c

\* What stands between u and w.
LEMMA Middle ==
    ASSUME NEW u \in Seq(Symbol), NEW v \in Seq(Symbol), NEW w \in Seq(Symbol)
    PROVE  SubSeq((u \o v) \o w, Len(u) + 1, Len(u) + Len(v)) = v
<1> DEFINE s == (u \o v) \o w
           l == Len(u)
           m == Len(v)
           part == SubSeq(s, l + 1, l + m)
<1>1. /\ u \o v \in Seq(Symbol) /\ Len(u \o v) = l + m /\ l \in Nat /\ m \in Nat
      /\ \A k \in 1..m : (u \o v)[l + k] = v[k]
  BY Joined
<1> DEFINE uv == u \o v
<1>2. /\ s \in Seq(Symbol) /\ Len(s) = Len(uv) + Len(w) /\ Len(w) \in Nat
      /\ \A k \in 1..Len(uv) : s[k] = uv[k]
  <2> HIDE DEF uv
  <2> QED  BY <1>1, Joined DEF uv
<1> HIDE DEF l, m, uv, s
<1>3. l + 1 \in Nat /\ l + 1 >= 1 /\ l + m \in Nat /\ l + m <= Len(s)
  BY <1>1, <1>2 DEF uv
<1>4. /\ part \in Seq(Symbol) /\ Len(part) = IF l + 1 <= l + m THEN (l + m) + 1 - (l + 1) ELSE 0
      /\ \A k \in 1..Len(part) : part[k] = s[(l + 1) + k - 1]
  BY <1>2, <1>3, Portion
<1> HIDE DEF part
<1>5. Len(part) = m
  BY <1>1, <1>4
<1>6. ASSUME NEW k \in 1..m PROVE part[k] = v[k]
  <2>1. (l + 1) + k - 1 = l + k /\ l + k \in 1..(l + m)
    BY <1>1
  <2>2. part[k] = s[l + k]
    <3>1. part[k] = s[(l + 1) + k - 1]
      BY <1>4, <1>5
    <3> QED  BY <3>1, <2>1
  <2>3. s[l + k] = uv[l + k]
    <3>1. Len(uv) = l + m
      BY <1>1 DEF uv
    <3> QED  BY <3>1, <2>1, <1>2
  <2>4. uv[l + k] = v[k]
    BY <1>1 DEF uv
  <2> QED  BY <2>2, <2>3, <2>4
<1>7. part = v
  BY <1>4, <1>5, <1>6, SeqEqual DEF m
<1> QED
  BY <1>7 DEF part, s, l, m

LEMMA After ==
    ASSUME NEW u \in Seq(Symbol), NEW v \in Seq(Symbol)
    PROVE  From(u \o v, Len(u) + 1) = v
<1> DEFINE s == u \o v
           l == Len(u)
           m == Len(v)
           part == From(s, l + 1)
<1>1. s \in Seq(Symbol) /\ Len(s) = l + m /\ l \in Nat /\ m \in Nat /\ \A k \in 1..m : s[l + k] = v[k]
  BY Joined
<1> HIDE DEF l, m, s
<1>2. l + 1 \in Nat /\ l + 1 >= 1
  BY <1>1
<1>3. /\ part \in Seq(Symbol) /\ Len(part) = IF l + 1 <= Len(s) THEN Len(s) + 1 - (l + 1) ELSE 0
      /\ \A k \in 1..Len(part) : part[k] = s[(l + 1) + k - 1]
  BY <1>1, <1>2, Rest
<1> HIDE DEF part
<1>4. Len(part) = m
  BY <1>1, <1>3
<1>5. ASSUME NEW k \in 1..m PROVE part[k] = v[k]
  <2>1. (l + 1) + k - 1 = l + k
    BY <1>1
  <2> QED  BY <2>1, <1>1, <1>3, <1>4
<1>6. part = v
  BY <1>3, <1>4, <1>5, SeqEqual DEF m
<1> QED
  BY <1>6 DEF part, s, l

LEMMA HasStart ==
    ASSUME NEW v \in Seq(Symbol), NEW w \in Seq(Symbol)
    PROVE  HasAt(v \o w, 1, v)
<1> DEFINE s == v \o w
<1>1. Len(s) = Len(v) + Len(w) /\ Len(v) \in Nat /\ Len(w) \in Nat /\ \A k \in 1..Len(v) : s[k] = v[k]
  BY Joined
<1> HIDE DEF s
<1>2. (1 - 1) + Len(v) <= Len(s) /\ \A k \in 1..Len(v) : (1 - 1) + k = k
  BY <1>1
<1>3. HasAt(s, 1, v)
  BY <1>1, <1>2 DEF HasAt
<1> QED
  BY <1>3 DEF s

LEMMA HasBoth ==
    ASSUME NEW s \in Seq(Symbol), NEW i \in Nat \ {0}, NEW v \in Seq(Symbol), NEW w \in Seq(Symbol), HasAt(s, i, v \o w)
    PROVE  HasAt(s, i, v) /\ HasAt(s, i + Len(v), w) /\ i + Len(v) \in Nat \ {0}
<1> DEFINE m == Len(v)
           n == Len(w)
           vw == v \o w
<1>1. m \in Nat /\ n \in Nat /\ Len(s) \in Nat
  OBVIOUS
<1>2. Len(vw) = m + n /\ \A k \in 1..(m + n) : vw[k] = IF k <= m THEN v[k] ELSE w[k - m]
  BY ConcatProperties
<1>3. (i - 1) + Len(vw) <= Len(s) /\ \A k \in 1..Len(vw) : s[(i - 1) + k] = vw[k]
  BY DEF HasAt
<1> HIDE DEF m, n, vw
<1>4. (i - 1) + m <= Len(s) /\ ((i + m) - 1) + n <= Len(s) /\ i + m \in Nat \ {0}
  BY <1>1, <1>2, <1>3
<1>5. ASSUME NEW k \in 1..m PROVE s[(i - 1) + k] = v[k]
  <2>1. k \in 1..(m + n) /\ k <= m
    BY <1>1
  <2> QED  BY <2>1, <1>2, <1>3
<1>6. ASSUME NEW k \in 1..n PROVE s[((i + m) - 1) + k] = w[k]
  <2>1. m + k \in 1..(m + n) /\ ~(m + k <= m) /\ (m + k) - m = k /\ ((i + m) - 1) + k = (i - 1) + (m + k)
    BY <1>1
  <2> QED  BY <2>1, <1>2, <1>3
<1> QED
  BY <1>4, <1>5, <1>6 DEF HasAt, m, n

LEMMA PassesJoin ==
    ASSUME NEW v \in Seq(Symbol), Passes(v), NEW w \in Seq(Symbol), Passes(w)
    PROVE  Passes(v \o w)
<1> SUFFICES ASSUME NEW s \in Seq(Symbol), NEW i \in Nat \ {0}, NEW depth \in Nat, HasAt(s, i, v \o w)
             PROVE  closesAt(s, i, depth) = closesAt(s, i + Len(v \o w), depth)
  BY DEF Passes
<1>1. HasAt(s, i, v) /\ HasAt(s, i + Len(v), w) /\ i + Len(v) \in Nat \ {0}
  BY HasBoth
<1>2. closesAt(s, i, depth) = closesAt(s, i + Len(v), depth)
  BY <1>1 DEF Passes
<1>3. closesAt(s, i + Len(v), depth) = closesAt(s, (i + Len(v)) + Len(w), depth)
  BY <1>1 DEF Passes
<1>4. (i + Len(v)) + Len(w) = i + Len(v \o w)
  <2>1. Len(v \o w) = Len(v) + Len(w) /\ Len(v) \in Nat /\ Len(w) \in Nat
    BY ConcatProperties
  <2> QED  BY <2>1
<1> QED
  BY <1>2, <1>3, <1>4

\* A symbol that neither opens nor closes anything, where it is.
Inert(s, i) == s[i] # "}" /\ (s[i] = "$" => i < Len(s) /\ s[i + 1] \notin {"$", "{"})
Plain(c) == c \notin {"$", "}"}

LEMMA InertSymbol ==
    ASSUME ScannerRecurs, NEW s \in Seq(Symbol), NEW i \in Nat \ {0}, NEW depth \in Nat, i <= Len(s), Inert(s, i)
    PROVE  closesAt(s, i, depth) = closesAt(s, i + 1, depth)
<1>1. ~(i > Len(s))
  <2>1. Len(s) \in Nat
    OBVIOUS
  <2> QED  BY <2>1
<1>2. i + 1 \in Nat
  OBVIOUS
<1>3. closesAt(s, i, depth) = InnerClosesAt(s, i + 1, depth)
  BY <1>1 DEF closesAt, Inert
<1> QED
  BY <1>2, <1>3 DEF ScannerRecurs

LEMMA PlainPasses ==
    ASSUME ScannerRecurs, NEW w \in Seq(Symbol), \A k \in 1..Len(w) : Plain(w[k])
    PROVE  Passes(w)
<1> SUFFICES ASSUME NEW s \in Seq(Symbol), NEW i \in Nat \ {0}, NEW depth \in Nat, HasAt(s, i, w)
             PROVE  closesAt(s, i, depth) = closesAt(s, i + Len(w), depth)
  BY DEF Passes
<1> DEFINE n == Len(w)
           S == {k \in 0..n : closesAt(s, i, depth) = closesAt(s, i + k, depth)}
<1>1. n \in Nat /\ Len(s) \in Nat /\ (i - 1) + n <= Len(s) /\ \A k \in 1..n : s[(i - 1) + k] = w[k]
  BY DEF HasAt
<1> HIDE DEF n
<1>2. 0 \in S
  BY <1>1
<1>3. ASSUME NEW k \in 1..n, k - 1 \in S PROVE k \in S
  <2> DEFINE j == i + (k - 1)
  <2>1. j \in Nat \ {0} /\ j <= Len(s) /\ j = (i - 1) + k /\ j + 1 = i + k /\ k \in 0..n
    BY <1>1
  <2> HIDE DEF j
  <2>2. Plain(s[j])
    BY <2>1, <1>1 DEF n
  <2>3. Inert(s, j)
    BY <2>2 DEF Plain, Inert
  <2>4. closesAt(s, j, depth) = closesAt(s, j + 1, depth)
    BY <2>1, <2>3, InertSymbol
  <2> QED  BY <2>1, <2>4, <1>3 DEF j
<1>4. \A k \in 0..n : k \in S
  <2> HIDE DEF S
  <2> QED  BY <1>1, <1>2, <1>3, Counting!LoopInvariant
<1>5. n \in 0..n
  BY <1>1
<1> QED
  BY <1>4, <1>5 DEF n

LEMMA MarksAreSymbols ==
    /\ \A c \in Marks : c \in Symbol /\ c \notin Letter \cup Digit
    /\ {"$", "{", "}", ":", "-"} = Marks
  BY SymbolAssumption DEF SymbolAssumption, Marks

Dollar == <<"$">>
Escape == <<"$", "$">>
Opening == <<"$", "{">>
Closing == <<"}">>
Cut == <<":", "-">>

LEMMA MarkTexts ==
    /\ Dollar \in Seq(Symbol) /\ Closing \in Seq(Symbol) /\ Len(Dollar) = 1 /\ Len(Closing) = 1
    /\ Escape \in Seq(Symbol) /\ Opening \in Seq(Symbol) /\ Cut \in Seq(Symbol)
    /\ Len(Escape) = 2 /\ Len(Opening) = 2 /\ Len(Cut) = 2
<1>1. "$" \in Symbol /\ "{" \in Symbol /\ "}" \in Symbol /\ ":" \in Symbol /\ "-" \in Symbol
  BY MarksAreSymbols
<1>2. ASSUME NEW a \in Symbol PROVE <<a>> \in Seq(Symbol) /\ Len(<<a>>) = 1
  OBVIOUS
<1>3. ASSUME NEW a \in Symbol, NEW b \in Symbol PROVE <<a, b>> \in Seq(Symbol) /\ Len(<<a, b>>) = 2
  OBVIOUS
<1>4. Dollar \in Seq(Symbol) /\ Len(Dollar) = 1
  BY <1>1, <1>2, Zenon DEF Dollar
<1>5. Closing \in Seq(Symbol) /\ Len(Closing) = 1
  BY <1>1, <1>2, Zenon DEF Closing
<1>6. Escape \in Seq(Symbol) /\ Len(Escape) = 2
  BY <1>1, <1>3, Zenon DEF Escape
<1>7. Opening \in Seq(Symbol) /\ Len(Opening) = 2
  BY <1>1, <1>3, Zenon DEF Opening
<1>8. Cut \in Seq(Symbol) /\ Len(Cut) = 2
  BY <1>1, <1>3, Zenon DEF Cut
<1> QED
  BY <1>4, <1>5, <1>6, <1>7, <1>8

LEMMA NamesArePlain ==
    ASSUME NEW n, IsName(n)
    PROVE  n \in Seq(Symbol) /\ Len(n) \in Nat \ {0} /\ \A k \in 1..Len(n) : Plain(n[k])
<1>1. n \in Seq(Symbol) /\ n # <<>> /\ \A k \in 1..Len(n) : n[k] \notin Marks
  BY MarksAreSymbols DEF IsName
<1>2. \A k \in 1..Len(n) : Plain(n[k])
  BY <1>1, MarksAreSymbols DEF Plain
<1> QED
  BY <1>1, <1>2

LEMMA HasOne ==
    ASSUME NEW s \in Seq(Symbol), NEW i \in Nat \ {0}, NEW a, HasAt(s, i, <<a>>)
    PROVE  i <= Len(s) /\ s[i] = a
<1>1. Len(<<a>>) = 1 /\ <<a>>[1] = a /\ 1 \in 1..1 /\ (i - 1) + 1 = i
  OBVIOUS
<1> QED
  BY <1>1 DEF HasAt

LEMMA HasTwo ==
    ASSUME NEW s \in Seq(Symbol), NEW i \in Nat \ {0}, NEW a, NEW b, HasAt(s, i, <<a, b>>)
    PROVE  i < Len(s) /\ i + 1 <= Len(s) /\ ~(i > Len(s)) /\ s[i] = a /\ s[i + 1] = b
<1>1. /\ Len(<<a, b>>) = 2 /\ <<a, b>>[1] = a /\ <<a, b>>[2] = b /\ 1 \in 1..2 /\ 2 \in 1..2
      /\ (i - 1) + 1 = i /\ (i - 1) + 2 = i + 1 /\ Len(s) \in Nat
  OBVIOUS
<1>2. i + 1 <= Len(s)
  BY <1>1 DEF HasAt
<1>3. s[i] = a /\ s[i + 1] = b
  BY <1>1 DEF HasAt
<1>4. i < Len(s) /\ ~(i > Len(s))
  BY <1>1, <1>2
<1> QED
  BY <1>2, <1>3, <1>4

Opens(c) == c \in {"$", "{"}

LEMMA HasDollar ==
    ASSUME NEW s \in Seq(Symbol), NEW i \in Nat \ {0}, HasAt(s, i, Dollar), i < Len(s), ~Opens(s[i + 1])
    PROVE  i <= Len(s) /\ Inert(s, i)
<1>1. i <= Len(s) /\ s[i] = "$"
  BY HasOne DEF Dollar
<1> QED
  BY <1>1 DEF Inert, Opens

LEMMA DollarPasses ==
    ASSUME ScannerRecurs, NEW u \in Seq(Symbol), u # <<>>, ~Opens(u[1]), \A k \in 1..Len(u) : Plain(u[k])
    PROVE  Passes(Dollar \o u)
<1>1. Dollar \in Seq(Symbol) /\ Len(Dollar) = 1
  BY MarkTexts
<1>2. Passes(u)
  BY PlainPasses
<1> SUFFICES ASSUME NEW s \in Seq(Symbol), NEW i \in Nat \ {0}, NEW depth \in Nat, HasAt(s, i, Dollar \o u)
             PROVE  closesAt(s, i, depth) = closesAt(s, i + Len(Dollar \o u), depth)
  BY DEF Passes
<1>3. HasAt(s, i, Dollar) /\ HasAt(s, i + 1, u) /\ i + 1 \in Nat \ {0}
  BY <1>1, HasBoth
<1>4. i < Len(s) /\ s[i + 1] = u[1]
  <2>1. Len(u) \in Nat \ {0} /\ 1 \in 1..Len(u) /\ ((i + 1) - 1) + 1 = i + 1 /\ Len(s) \in Nat
    OBVIOUS
  <2>2. ((i + 1) - 1) + Len(u) <= Len(s) /\ s[i + 1] = u[1]
    BY <2>1, <1>3 DEF HasAt
  <2> QED  BY <2>1, <2>2
<1>5. i <= Len(s) /\ Inert(s, i)
  BY <1>3, <1>4, HasDollar
<1>6. closesAt(s, i, depth) = closesAt(s, i + 1, depth)
  BY <1>5, InertSymbol
<1>7. closesAt(s, i + 1, depth) = closesAt(s, (i + 1) + Len(u), depth)
  BY <1>2, <1>3 DEF Passes
<1>8. (i + 1) + Len(u) = i + Len(Dollar \o u)
  <2>1. Len(Dollar \o u) = 1 + Len(u) /\ Len(u) \in Nat
    BY <1>1, ConcatProperties
  <2> QED  BY <2>1
<1> QED
  BY <1>6, <1>7, <1>8

LEMMA EscapePasses ==
    ASSUME ScannerRecurs
    PROVE  Passes(Escape)
<1> SUFFICES ASSUME NEW s \in Seq(Symbol), NEW i \in Nat \ {0}, NEW depth \in Nat, HasAt(s, i, Escape)
             PROVE  closesAt(s, i, depth) = closesAt(s, i + Len(Escape), depth)
  BY DEF Passes
<1>1. i < Len(s) /\ ~(i > Len(s)) /\ s[i] = "$" /\ s[i + 1] = "$"
  BY HasTwo DEF Escape
<1>2. closesAt(s, i, depth) = InnerClosesAt(s, i + 2, depth)
  BY <1>1 DEF closesAt
<1>3. i + 2 \in Nat
  OBVIOUS
<1> QED
  BY <1>2, <1>3, MarkTexts DEF ScannerRecurs

LEMMA Opened ==
    ASSUME ScannerRecurs, NEW s \in Seq(Symbol), NEW i \in Nat \ {0}, NEW depth \in Nat, HasAt(s, i, Opening)
    PROVE  closesAt(s, i, depth) = closesAt(s, i + 2, depth + 1)
<1>1. i + 2 \in Nat /\ depth + 1 \in Nat
  OBVIOUS
<1>2. i < Len(s) /\ ~(i > Len(s)) /\ s[i] = "$" /\ s[i + 1] = "{"
  BY HasTwo DEF Opening
<1>3. closesAt(s, i, depth) = InnerClosesAt(s, i + 2, depth + 1)
  BY <1>2 DEF closesAt
<1> QED
  BY <1>1, <1>3 DEF ScannerRecurs

LEMMA HasBrace ==
    ASSUME NEW s \in Seq(Symbol), NEW i \in Nat \ {0}, HasAt(s, i, Closing)
    PROVE  ~(i > Len(s)) /\ s[i] = "}"
<1>1. HasAt(s, i, <<"}">>)
  BY DEF Closing
<1>2. i <= Len(s) /\ s[i] = "}"
  BY <1>1, HasOne
<1>3. Len(s) \in Nat
  OBVIOUS
<1>4. ~(i > Len(s))
  <2> DEFINE n == Len(s)
  <2>1. n \in Nat /\ i <= n
    BY <1>2, <1>3
  <2> HIDE DEF n
  <2>2. ~(i > n)
    BY <2>1
  <2> QED  BY <2>2 DEF n
<1> QED
  BY <1>2, <1>4

LEMMA AtBrace ==
    ASSUME NEW s \in Seq(Symbol), NEW i \in Nat \ {0}, NEW depth, ~(i > Len(s)), s[i] = "}"
    PROVE  closesAt(s, i, depth) = IF depth = 0 THEN i ELSE InnerClosesAt(s, i + 1, depth - 1)
  BY DEF closesAt

\* A brace closes the innermost reference that is open.
LEMMA ClosesInner ==
    ASSUME ScannerRecurs, NEW s \in Seq(Symbol), NEW i \in Nat \ {0}, HasAt(s, i, Closing)
    PROVE  closesAt(s, i, 0) = i /\ \A depth \in Nat : closesAt(s, i, depth + 1) = closesAt(s, i + 1, depth)
<1>1. ~(i > Len(s)) /\ s[i] = "}"
  BY HasBrace
<1>2. \A depth : closesAt(s, i, depth) = IF depth = 0 THEN i ELSE InnerClosesAt(s, i + 1, depth - 1)
  BY <1>1, AtBrace, Zenon
<1>3. ASSUME NEW depth \in Nat PROVE closesAt(s, i, depth + 1) = closesAt(s, i + 1, depth)
  <2>1. depth + 1 # 0 /\ (depth + 1) - 1 = depth /\ i + 1 \in Nat
    OBVIOUS
  <2> QED  BY <2>1, <1>2 DEF ScannerRecurs
<1> QED
  BY <1>2, <1>3

LEMMA ReferencePasses ==
    ASSUME ScannerRecurs, NEW body \in Seq(Symbol), Passes(body)
    PROVE  Passes((Opening \o body) \o Closing)
<1> DEFINE ob == Opening \o body
           w == ob \o Closing
           m == Len(body)
<1>1. Opening \in Seq(Symbol) /\ Closing \in Seq(Symbol) /\ Len(Opening) = 2 /\ Len(Closing) = 1
  BY MarkTexts
<1>2. ob \in Seq(Symbol) /\ Len(ob) = 2 + m /\ Len(w) = (2 + m) + 1 /\ m \in Nat
  <2>1. ob \in Seq(Symbol) /\ Len(ob) = 2 + m
    <3>1. ob \in Seq(Symbol) /\ Len(ob) = Len(Opening) + m
      BY <1>1, Joined, Zenon
    <3> QED  BY <3>1, <1>1
  <2>2. m \in Nat
    OBVIOUS
  <2> HIDE DEF ob
  <2>3. Len(w) = Len(ob) + Len(Closing)
    BY <2>1, <1>1, ConcatProperties
  <2> QED  BY <2>1, <2>3, <2>2, <1>1
<1> SUFFICES ASSUME NEW s \in Seq(Symbol), NEW i \in Nat \ {0}, NEW depth \in Nat, HasAt(s, i, w)
             PROVE  closesAt(s, i, depth) = closesAt(s, i + Len(w), depth)
  BY DEF Passes
<1> HIDE DEF ob
<1>3. HasAt(s, i, ob) /\ HasAt(s, i + (2 + m), Closing) /\ i + (2 + m) \in Nat \ {0}
  <2> HIDE DEF m
  <2> QED  BY <1>1, <1>2, HasBoth
<1>4. HasAt(s, i, Opening) /\ HasAt(s, i + 2, body) /\ i + 2 \in Nat \ {0}
  BY <1>1, <1>3, HasBoth DEF ob
<1>5. closesAt(s, i, depth) = closesAt(s, i + 2, depth + 1)
  BY <1>4, Opened
<1>6. closesAt(s, i + 2, depth + 1) = closesAt(s, (i + 2) + m, depth + 1)
  <2>1. depth + 1 \in Nat
    OBVIOUS
  <2> QED  BY <2>1, <1>4 DEF Passes
<1>7. closesAt(s, i + (2 + m), depth + 1) = closesAt(s, (i + (2 + m)) + 1, depth)
  BY <1>3, ClosesInner
<1>8. (i + 2) + m = i + (2 + m) /\ (i + (2 + m)) + 1 = i + Len(w)
  BY <1>2
<1> HIDE DEF m, w
<1> QED
  BY <1>5, <1>6, <1>7, <1>8

-----------------------------------------------------------------------------
(* What is written for an item *)

\* What stands between the braces of a reference.
BodyOf(item, fallback) == IF "fallback" \in DOMAIN item THEN (item.ref \o Cut) \o fallback ELSE item.ref

\* What is written for an item when f is written for its fallback.
Forms(item, f) ==
    CASE "lit" \in DOMAIN item -> <<item.lit>>
      [] "dollar" \in DOMAIN item -> Escape
      [] "amount" \in DOMAIN item -> Dollar \o <<item.amount>>
      [] "bare" \in DOMAIN item -> Dollar \o item.bare
      [] "ref" \in DOMAIN item -> (Opening \o BodyOf(item, f)) \o Closing

LEMMA WrittenForms ==
    ASSUME NEW item, NEW nested, IsItem(item, nested), NEW f \in Seq(Symbol),
           "fallback" \in DOMAIN item => InnerWritten(item.fallback) = f
    PROVE  WrittenItem(item) = Forms(item, f)
<1>1. CASE DOMAIN item = {"lit"}
  BY <1>1 DEF WrittenItem, Forms
<1>2. CASE DOMAIN item = {"dollar"}
  BY <1>2 DEF WrittenItem, Forms, Escape
<1>3. CASE DOMAIN item = {"amount"}
  <2>1. <<"$", item.amount>> = <<"$">> \o <<item.amount>>
    OBVIOUS
  <2>2. WrittenItem(item) = <<"$", item.amount>>
    BY <1>3 DEF WrittenItem
  <2>3. Forms(item, f) = Dollar \o <<item.amount>>
    BY <1>3 DEF Forms
  <2> QED  BY <2>1, <2>2, <2>3 DEF Dollar
<1>4. CASE DOMAIN item = {"bare"}
  BY <1>4 DEF WrittenItem, Forms, Dollar
<1>5. CASE DOMAIN item = {"ref"}
  BY <1>5 DEF WrittenItem, Forms, BodyOf, Opening, Closing
<1>6. CASE DOMAIN item = {"ref", "fallback"}
  <2> DEFINE n == item.ref
  <2>1. n \in Seq(Symbol) /\ Opening \in Seq(Symbol) /\ Cut \in Seq(Symbol) /\ Closing \in Seq(Symbol)
    BY <1>6, MarkTexts DEF IsItem, IsName
  <2>2. WrittenItem(item) = (((Opening \o n) \o Cut) \o f) \o Closing
    <3>1. WrittenItem(item) = <<"$", "{">> \o n \o <<":", "-">> \o InnerWritten(item.fallback) \o <<"}">>
      <4>1. /\ "lit" \notin DOMAIN item /\ "dollar" \notin DOMAIN item /\ "amount" \notin DOMAIN item
            /\ "bare" \notin DOMAIN item /\ "fallback" \in DOMAIN item /\ DOMAIN item # {"ref"}
        BY <1>6
      <4> QED  BY <4>1, Zenon DEF WrittenItem
    <3>2. InnerWritten(item.fallback) = f
      BY <1>6
    <3> QED  BY <3>1, <3>2, Zenon DEF Opening, Closing, Cut
  <2>3. Forms(item, f) = (Opening \o ((n \o Cut) \o f)) \o Closing
    BY <1>6 DEF Forms, BodyOf
  <2> HIDE DEF n
  <2>4. ((Opening \o n) \o Cut) \o f = Opening \o ((n \o Cut) \o f)
    <3>1. \A u, v, w, x \in Seq(Symbol) : ((u \o v) \o w) \o x = u \o ((v \o w) \o x)
      BY AssociateAll, Zenon
    <3>2. \A v, w, x \in Seq(Symbol) : ((Opening \o v) \o w) \o x = Opening \o ((v \o w) \o x)
      BY <2>1, <3>1, Zenon
    <3>3. \A w, x \in Seq(Symbol) : ((Opening \o n) \o w) \o x = Opening \o ((n \o w) \o x)
      BY <2>1, <3>2, Zenon
    <3>4. \A x \in Seq(Symbol) : ((Opening \o n) \o Cut) \o x = Opening \o ((n \o Cut) \o x)
      BY <2>1, <3>3, Zenon
    <3> QED  BY <3>4, Zenon
  <2> QED  BY <2>2, <2>3, <2>4
<1> QED
  BY <1>1, <1>2, <1>3, <1>4, <1>5, <1>6 DEF IsItem

IsLit(item) == DOMAIN item = {"lit"}
IsEscape(item) == DOMAIN item = {"dollar"}
IsAmount(item) == DOMAIN item = {"amount"}
IsBare(item) == DOMAIN item = {"bare"}
IsRef(item) == DOMAIN item \in {{"ref"}, {"ref", "fallback"}}
HasFallback(item) == "fallback" \in DOMAIN item

LEMMA ItemKinds ==
    ASSUME NEW item, NEW nested \in BOOLEAN, IsItem(item, nested)
    PROVE  \/ IsLit(item) /\ item.lit \in Symbol /\ item.lit # "$" /\ (nested => Plain(item.lit))
           \/ IsEscape(item)
           \/ /\ IsAmount(item) /\ item.amount \in Symbol \ Letter /\ ~Opens(item.amount)
              /\ nested => Plain(item.amount)
           \/ IsBare(item) /\ IsName(item.bare)
           \/ IsRef(item) /\ IsName(item.ref)
  BY DEF IsItem, IsLit, IsEscape, IsAmount, IsBare, IsRef, Plain, Opens

LEMMA FormsOf ==
    ASSUME NEW item, NEW f
    PROVE  /\ IsLit(item) => Forms(item, f) = <<item.lit>>
           /\ IsEscape(item) => Forms(item, f) = Escape
           /\ IsAmount(item) => Forms(item, f) = Dollar \o <<item.amount>>
           /\ IsBare(item) => Forms(item, f) = Dollar \o item.bare
           /\ IsRef(item) => Forms(item, f) = (Opening \o BodyOf(item, f)) \o Closing
  BY DEF Forms, IsLit, IsEscape, IsAmount, IsBare, IsRef

LEMMA Bodies ==
    ASSUME ScannerRecurs, NEW item, IsName(item.ref), NEW f \in Seq(Symbol)
    PROVE  BodyOf(item, f) \in Seq(Symbol) /\ (Passes(f) => Passes(BodyOf(item, f)))
<1> DEFINE n == item.ref
<1>1. n \in Seq(Symbol) /\ Passes(n)
  BY NamesArePlain, PlainPasses
<1>2. Cut \in Seq(Symbol) /\ Passes(Cut)
  <2>1. \A k \in 1..Len(Cut) : Plain(Cut[k])
    <3>1. Len(Cut) = 2 /\ Cut[1] = ":" /\ Cut[2] = "-" /\ Plain(":") /\ Plain("-")
      BY DEF Cut, Plain
    <3>2. \A k \in 1..2 : k = 1 \/ k = 2
      OBVIOUS
    <3> QED  BY <3>1, <3>2
  <2> QED  BY <2>1, MarkTexts, PlainPasses
<1> DEFINE c == n \o Cut
<1>3. BodyOf(item, f) = IF HasFallback(item) THEN c \o f ELSE n
  BY DEF BodyOf, HasFallback
<1> HIDE DEF n
<1>4. c \in Seq(Symbol)
  BY <1>1, <1>2, Joined
<1>5. Passes(c)
  BY <1>1, <1>2, PassesJoin
<1> HIDE DEF c
<1>6. c \o f \in Seq(Symbol)
  BY <1>4, Joined
<1>7. Passes(f) => Passes(c \o f)
  BY <1>4, <1>5, PassesJoin
<1> QED
  BY <1>1, <1>3, <1>6, <1>7

LEMMA OneSymbol ==
    ASSUME NEW c \in Symbol
    PROVE  <<c>> \in Seq(Symbol) /\ <<c>> # <<>> /\ Len(<<c>>) = 1 /\ <<c>>[1] = c
  OBVIOUS

LEMMA FormsPass ==
    ASSUME ScannerRecurs, NEW item, IsItem(item, TRUE), NEW f \in Seq(Symbol), Passes(f)
    PROVE  Passes(Forms(item, f))
<1>1. CASE IsLit(item) /\ item.lit \in Symbol /\ Plain(item.lit)
  <2>1. \A k \in 1..Len(<<item.lit>>) : Plain(<<item.lit>>[k])
    BY <1>1
  <2> QED  BY <1>1, <2>1, OneSymbol, PlainPasses, FormsOf
<1>2. CASE IsEscape(item)
  BY <1>2, EscapePasses, FormsOf
<1>3. CASE IsAmount(item) /\ item.amount \in Symbol /\ ~Opens(item.amount) /\ Plain(item.amount)
  <2> DEFINE u == <<item.amount>>
  <2>1. u \in Seq(Symbol) /\ u # <<>> /\ u[1] = item.amount /\ \A k \in 1..Len(u) : Plain(u[k])
    BY <1>3
  <2>2. Forms(item, f) = Dollar \o u
    BY <1>3, FormsOf
  <2> HIDE DEF u
  <2>3. Passes(Dollar \o u)
    BY <1>3, <2>1, DollarPasses
  <2> QED  BY <2>2, <2>3
<1>4. CASE IsBare(item) /\ IsName(item.bare)
  <2> DEFINE u == item.bare
  <2>1. u \in Seq(Symbol) /\ u # <<>> /\ \A k \in 1..Len(u) : Plain(u[k])
    BY <1>4, NamesArePlain DEF IsName
  <2>2. ~Opens(u[1])
    BY <1>4, MarksAreSymbols DEF IsName, Opens
  <2>3. Forms(item, f) = Dollar \o u
    BY <1>4, FormsOf
  <2> HIDE DEF u
  <2>4. Passes(Dollar \o u)
    BY <2>1, <2>2, DollarPasses
  <2> QED  BY <2>3, <2>4
<1>5. CASE IsRef(item) /\ IsName(item.ref)
  BY <1>5, Bodies, ReferencePasses, FormsOf
<1> QED
  BY <1>1, <1>2, <1>3, <1>4, <1>5, ItemKinds

\* What is written for an item starts with a "$", but for a literal.
LEMMA FormsStart ==
    ASSUME ScannerRecurs, NEW item, NEW nested \in BOOLEAN, IsItem(item, nested), NEW f \in Seq(Symbol)
    PROVE  LET w == Forms(item, f) IN
           w \in Seq(Symbol) /\ w # <<>> /\ w[1] = IF IsLit(item) THEN item.lit ELSE "$"
<1>1. ASSUME NEW v \in Seq(Symbol) PROVE Dollar \o v \in Seq(Symbol) /\ Dollar \o v # <<>> /\ (Dollar \o v)[1] = "$"
  <2>1. Dollar \in Seq(Symbol) /\ Len(Dollar) = 1
    BY MarkTexts
  <2>2. 1 \in 1..Len(Dollar) /\ Dollar[1] = "$"
    BY <2>1 DEF Dollar
  <2> DEFINE w == Dollar \o v
  <2>3. w \in Seq(Symbol) /\ Len(w) = Len(Dollar) + Len(v) /\ Len(v) \in Nat /\ \A k \in 1..Len(Dollar) : w[k] = Dollar[k]
    BY <2>1, Joined
  <2> HIDE DEF w
  <2>4. Len(w) # 0 /\ w # <<>>
    BY <2>1, <2>3
  <2> QED  BY <2>2, <2>3, <2>4 DEF w
<1>2. CASE IsLit(item) /\ item.lit \in Symbol
  BY <1>2, OneSymbol, FormsOf
<1>3. CASE IsEscape(item)
  <2>1. Escape \in Seq(Symbol) /\ Escape # <<>> /\ Escape[1] = "$"
    BY MarkTexts DEF Escape
  <2> QED  BY <1>3, <2>1, FormsOf DEF IsEscape, IsLit
<1>4. CASE IsAmount(item) /\ item.amount \in Symbol
  <2>1. ~IsLit(item) /\ Forms(item, f) = Dollar \o <<item.amount>>
    BY <1>4, FormsOf DEF IsAmount, IsLit
  <2> QED  BY <1>1, <1>4, <2>1, OneSymbol
<1>5. CASE IsBare(item) /\ IsName(item.bare)
  <2>1. ~IsLit(item) /\ Forms(item, f) = Dollar \o item.bare
    BY <1>5, FormsOf DEF IsBare, IsLit
  <2> QED  BY <1>1, <1>5, <2>1 DEF IsName
<1>6. CASE IsRef(item) /\ IsName(item.ref)
  <2> DEFINE b == BodyOf(item, f)
             ob == Opening \o b
             w == ob \o Closing
  <2>1. ~IsLit(item) /\ Forms(item, f) = w
    BY <1>6, FormsOf DEF IsRef, IsLit
  <2>2. b \in Seq(Symbol) /\ Opening \in Seq(Symbol) /\ Len(Opening) = 2 /\ Closing \in Seq(Symbol)
    BY <1>6, Bodies, MarkTexts
  <2>3. Opening[1] = "$"
    BY DEF Opening
  <2> HIDE DEF b
  <2>4. ob \in Seq(Symbol) /\ Len(ob) = 2 + Len(b) /\ Len(b) \in Nat /\ ob[1] = Opening[1]
    <3>1. 1 \in 1..Len(Opening)
      BY <2>2
    <3>2. /\ ob \in Seq(Symbol) /\ Len(ob) = Len(Opening) + Len(b) /\ Len(b) \in Nat
          /\ \A k \in 1..Len(Opening) : ob[k] = Opening[k]
      BY <2>2, Joined
    <3> QED  BY <2>2, <3>1, <3>2
  <2> HIDE DEF ob
  <2>5. w \in Seq(Symbol) /\ Len(w) = Len(ob) + Len(Closing) /\ Len(Closing) \in Nat /\ w[1] = ob[1]
    <3>1. 1 \in 1..Len(ob)
      BY <2>4
    <3>2. /\ w \in Seq(Symbol) /\ Len(w) = Len(ob) + Len(Closing) /\ Len(Closing) \in Nat
          /\ \A k \in 1..Len(ob) : w[k] = ob[k]
      BY <2>2, <2>4, Joined
    <3> QED  BY <3>1, <3>2
  <2> HIDE DEF w
  <2>6. w # <<>>
    BY <2>4, <2>5
  <2> QED  BY <2>1, <2>3, <2>4, <2>5, <2>6
<1> QED
  BY <1>2, <1>3, <1>4, <1>5, <1>6, ItemKinds

-----------------------------------------------------------------------------
(* What the scanner finds in what is written *)

LEMMA BraceFound ==
    ASSUME ScannerRecurs, NEW body \in Seq(Symbol), Passes(body), NEW rest \in Seq(Symbol)
    PROVE  closingBrace((body \o Closing) \o rest) = Len(body) + 1
<1> DEFINE bc == body \o Closing
           s == bc \o rest
           m == Len(body)
<1>1. Closing \in Seq(Symbol) /\ m \in Nat
  BY MarkTexts
<1>2. bc \in Seq(Symbol)
  BY <1>1, Joined
<1> HIDE DEF bc
<1>3. s \in Seq(Symbol) /\ HasAt(s, 1, bc)
  BY <1>2, Joined, HasStart
<1> HIDE DEF s
<1>4. HasAt(s, 1, body) /\ HasAt(s, 1 + m, Closing) /\ 1 + m \in Nat \ {0}
  <2>1. 1 \in Nat \ {0}
    OBVIOUS
  <2> HIDE DEF m
  <2> QED  BY <2>1, <1>1, <1>3, HasBoth DEF bc, m
<1>5. closesAt(s, 1, 0) = closesAt(s, 1 + m, 0)
  <2>1. 1 \in Nat \ {0} /\ 0 \in Nat
    OBVIOUS
  <2> QED  BY <2>1, <1>3, <1>4 DEF Passes
<1>6. closesAt(s, 1 + m, 0) = 1 + m
  BY <1>3, <1>4, ClosesInner
<1>7. 1 + m = m + 1
  BY <1>1
<1> QED
  BY <1>5, <1>6, <1>7 DEF closingBrace, s, bc, m

LEMMA NoCut ==
    ASSUME NEW n, IsName(n)
    PROVE  CutAt(n) = 0
<1>1. {i \in 1..(Len(n) - 1) : n[i] = ":" /\ n[i + 1] = "-"} = {}
  <2>1. ASSUME NEW i \in 1..(Len(n) - 1) PROVE n[i] # ":"
    <3>1. i \in 1..Len(n)
      <4>1. Len(n) \in Nat
        BY DEF IsName
      <4> QED  BY <4>1
    <3>2. n[i] \notin Marks
      BY <3>1, MarksAreSymbols DEF IsName
    <3> QED  BY <3>2, MarksAreSymbols
  <2> QED  BY <2>1
<1> QED
  BY <1>1 DEF CutAt

LEMMA CutFound ==
    ASSUME NEW n, IsName(n), NEW f \in Seq(Symbol)
    PROVE  CutAt((n \o Cut) \o f) = Len(n) + 1
<1> DEFINE nc == n \o Cut
           s == nc \o f
           l == Len(n)
           at == {i \in 1..(Len(s) - 1) : s[i] = ":" /\ s[i + 1] = "-"}
<1>1. n \in Seq(Symbol) /\ l \in Nat /\ Cut \in Seq(Symbol) /\ Len(Cut) = 2 /\ Cut[1] = ":" /\ Cut[2] = "-"
  BY MarkTexts DEF IsName, Cut
<1>2. /\ nc \in Seq(Symbol) /\ Len(nc) = l + Len(Cut) /\ \A k \in 1..l : nc[k] = n[k]
      /\ \A k \in 1..Len(Cut) : nc[l + k] = Cut[k]
  BY <1>1, Joined
<1>3. nc[l + 1] = ":" /\ nc[l + 2] = "-"
  <2>1. 1 \in 1..Len(Cut) /\ 2 \in 1..Len(Cut)
    BY <1>1
  <2> QED  BY <2>1, <1>1, <1>2
<1> HIDE DEF nc
<1>4. /\ s \in Seq(Symbol) /\ Len(s) = Len(nc) + Len(f) /\ Len(f) \in Nat
      /\ \A k \in 1..Len(nc) : s[k] = nc[k]
  BY <1>2, Joined
<1> HIDE DEF s, l
<1>5. l + 1 \in 1..(Len(s) - 1) /\ l + 1 \in 1..Len(nc) /\ l + 2 \in 1..Len(nc) /\ (l + 1) + 1 = l + 2
  BY <1>1, <1>2, <1>4
<1>6. l + 1 \in at
  BY <1>3, <1>4, <1>5
<1>7. ASSUME NEW i \in 1..l PROVE i \notin at
  <2>1. i \in 1..Len(nc)
    BY <1>1, <1>2
  <2>2. s[i] = n[i]
    BY <2>1, <1>2, <1>4
  <2>3. n[i] \in Letter \cup Digit
    BY DEF IsName, l
  <2>4. n[i] # ":"
    BY <2>3, MarksAreSymbols
  <2> QED  BY <2>2, <2>4
<1>8. at \subseteq 1..(Len(s) - 1) /\ at \in SUBSET Nat
  OBVIOUS
<1>9. CutAt(s) = IF at = {} THEN 0 ELSE Min(at)
  BY DEF CutAt
<1> HIDE DEF at
<1>10. Min(at) \in at /\ Min(at) <= l + 1
  BY <1>6, <1>8, MinIsLeast
<1>11. Min(at) = l + 1
  <2> DEFINE k == Min(at)
  <2>1. k \in at /\ k <= l + 1
    BY <1>10
  <2> HIDE DEF k
  <2>2. k \in Nat /\ k >= 1
    BY <2>1, <1>8
  <2>3. k \notin 1..l
    BY <2>1, <1>7
  <2>4. k = l + 1
    BY <2>1, <2>2, <2>3, <1>1
  <2> QED  BY <2>4 DEF k
<1>12. at # {}
  BY <1>6
<1>13. CutAt(s) = l + 1
  BY <1>9, <1>11, <1>12
<1> QED
  BY <1>13 DEF s, nc, l

\* A name is found whole in front of what it does not go on with.
LEMMA NameFound ==
    ASSUME NEW n, IsName(n), NEW rest \in Seq(Symbol), rest # <<>> => rest[1] \notin Letter \cup Digit
    PROVE  identifierLen(n \o rest) = Len(n)
<1> DEFINE s == n \o rest
           l == Len(n)
           m == Len(rest)
           others == {i \in DOMAIN s : s[i] \notin Letter /\ (i = 1 \/ s[i] \notin Digit)}
<1>1. n \in Seq(Symbol) /\ l \in Nat \ {0} /\ m \in Nat
  BY NamesArePlain
<1>2. /\ s \in Seq(Symbol) /\ Len(s) = l + m /\ \A k \in 1..l : s[k] = n[k]
      /\ \A k \in 1..m : s[l + k] = rest[k]
  BY <1>1, Joined
<1>3. DOMAIN s = 1..(l + m)
  BY <1>2
<1>4. identifierLen(s) = IF others = {} THEN l + m ELSE Min(others) - 1
  BY <1>2 DEF identifierLen
<1>5. m = 0 => rest = <<>>
  OBVIOUS
<1> HIDE DEF s, l
<1>6. ASSUME NEW i \in 1..l PROVE i \notin others
  <2>1. s[i] = n[i] /\ n[i] \in Letter \cup Digit /\ (i = 1 => n[i] \in Letter)
    BY <1>2 DEF IsName, l
  <2> QED  BY <2>1
<1>7. CASE m = 0
  <2>1. others \subseteq 1..l
    BY <1>1, <1>3, <1>7
  <2>2. others = {}
    BY <2>1, <1>6
  <2>3. l + m = l
    BY <1>1, <1>7
  <2> QED  BY <1>4, <2>2, <2>3 DEF s, l
<1>8. CASE m # 0
  <2>1. 1 \in 1..m /\ l + 1 \in 1..(l + m) /\ l + 1 # 1
    BY <1>1, <1>8
  <2>2. s[l + 1] = rest[1] /\ rest # <<>>
    BY <2>1, <1>2, <1>8
  <2>3. l + 1 \in others
    BY <2>1, <2>2, <1>3
  <2>4. others \subseteq 1..(l + m) /\ others \in SUBSET Nat
    BY <1>1, <1>3
  <2> HIDE DEF others
  <2> DEFINE k == Min(others)
  <2>5. k \in others /\ k <= l + 1
    BY <2>3, <2>4, MinIsLeast
  <2>6. identifierLen(s) = k - 1
    BY <1>4, <2>3
  <2> HIDE DEF k
  <2>7. k \in Nat /\ k >= 1
    BY <2>4, <2>5, <1>1
  <2>8. k \notin 1..l
    BY <2>5, <1>6
  <2>9. k - 1 = l
    BY <2>5, <2>7, <2>8, <1>1
  <2> QED  BY <2>6, <2>9 DEF s, l
<1> QED
  BY <1>7, <1>8

-----------------------------------------------------------------------------
(* What the bodies of references become *)

LEMMA Prefix ==
    ASSUME NEW u \in Seq(Symbol), NEW v \in Seq(Symbol)
    PROVE  SubSeq(u \o v, 1, Len(u)) = u
<1> DEFINE s == u \o v
           l == Len(u)
           part == SubSeq(s, 1, l)
<1>1. s \in Seq(Symbol) /\ Len(s) = l + Len(v) /\ l \in Nat /\ Len(v) \in Nat /\ \A k \in 1..l : s[k] = u[k]
  BY Joined
<1> HIDE DEF l, s
<1>2. l <= Len(s) /\ 1 \in Nat /\ 1 >= 1
  BY <1>1
<1>3. /\ part \in Seq(Symbol) /\ Len(part) = IF 1 <= l THEN l + 1 - 1 ELSE 0
      /\ \A k \in 1..Len(part) : part[k] = s[1 + k - 1]
  BY <1>1, <1>2, Portion
<1> HIDE DEF part
<1>4. Len(part) = l
  BY <1>1, <1>3
<1>5. ASSUME NEW k \in 1..l PROVE part[k] = u[k]
  <2>1. 1 + k - 1 = k
    OBVIOUS
  <2> QED  BY <2>1, <1>1, <1>3, <1>4
<1>6. part = u
  BY <1>3, <1>4, <1>5, SeqEqual DEF l
<1> QED
  BY <1>6 DEF part, s, l

LEMMA NamesResolve ==
    ASSUME NEW n, IsName(n), NEW env, NEW strict
    PROVE  resolveVariable(n, env, strict) =
             IF IsSet(env, n) THEN Gives(env[n]) ELSE IF strict THEN Refuses(n) ELSE Gives(<<>>)
<1>1. CutAt(n) = 0 /\ n # <<>>
  BY NoCut DEF IsName
<1> QED
  BY <1>1 DEF resolveVariable

LEMMA FallbacksResolve ==
    ASSUME NEW n, IsName(n), NEW f \in Seq(Symbol), NEW env, NEW strict
    PROVE  resolveVariable((n \o Cut) \o f, env, strict) =
             IF IsSet(env, n) THEN Gives(env[n]) ELSE InnerExpandVariables(f, env, strict)
<1> DEFINE s == (n \o Cut) \o f
           l == Len(n)
           nc == n \o Cut
<1>1. n \in Seq(Symbol) /\ n # <<>> /\ l \in Nat /\ Cut \in Seq(Symbol) /\ Len(Cut) = 2
  BY MarkTexts DEF IsName
<1>2. CutAt(s) = l + 1
  BY CutFound
<1>3. nc \in Seq(Symbol) /\ Len(nc) = l + 2
  <2>1. nc \in Seq(Symbol) /\ Len(nc) = Len(n) + Len(Cut)
    BY <1>1, Joined
  <2> QED  BY <2>1, <1>1
<1>4. From(s, Len(nc) + 1) = f
  <2> HIDE DEF nc
  <2>1. From(nc \o f, Len(nc) + 1) = f
    BY <1>3, After
  <2> QED  BY <2>1 DEF nc
<1>5. s = n \o (Cut \o f) /\ Cut \o f \in Seq(Symbol)
  BY <1>1, Associate, Joined
<1>6. SubSeq(s, 1, l) = n
  BY <1>1, <1>5, Prefix
<1> HIDE DEF s, nc
<1>7. (l + 1) - 1 = l /\ (l + 1) + 2 = Len(nc) + 1 /\ l + 1 # 0
  <2> HIDE DEF l
  <2> QED  BY <1>1, <1>3
<1>8. SubSeq(s, 1, CutAt(s) - 1) = n /\ From(s, CutAt(s) + 2) = f /\ CutAt(s) # 0
  BY <1>2, <1>4, <1>6, <1>7
<1>9. resolveVariable(s, env, strict) = IF IsSet(env, n) THEN Gives(env[n]) ELSE InnerExpandVariables(f, env, strict)
  <2>1. n # <<>>
    BY <1>1
  <2> QED  BY <2>1, <1>8 DEF resolveVariable
<1> QED
  BY <1>9 DEF s

-----------------------------------------------------------------------------
(* What a round takes of what is written *)

LEMMA RoundTakes ==
    ASSUME ScannerRecurs, NEW w \in Seq(Symbol), w # <<>>, NEW rest \in Seq(Symbol), NEW env, NEW strict \in BOOLEAN,
           NEW g, Round(w \o rest, env, strict) = Took(Len(w), g)
    PROVE  expandVariables(w \o rest, env, strict) = Before(g, expandVariables(rest, env, strict))
<1> DEFINE s == w \o rest
<1>1. From(s, Len(w) + 1) = rest
  BY After
<1>2. s # <<>>
  <2>1. Len(s) = Len(w) + Len(rest) /\ Len(w) \in Nat \ {0} /\ Len(rest) \in Nat
    BY Joined
  <2> HIDE DEF s
  <2>2. Len(s) # 0
    BY <2>1
  <2> QED  BY <2>2
<1>3. InnerExpandVariables(rest, env, strict) = expandVariables(rest, env, strict)
  BY DEF ScannerRecurs
<1>4. Round(s, env, strict).taken = Len(w) /\ Round(s, env, strict).gives = g
  BY DEF Took
<1> HIDE DEF s
<1>5. expandVariables(s, env, strict) = IF Failed(g) THEN g ELSE Before(g, InnerExpandVariables(rest, env, strict))
  BY <1>1, <1>2, <1>4 DEF expandVariables
<1>6. expandVariables(s, env, strict) = Before(g, expandVariables(rest, env, strict))
  BY <1>3, <1>5 DEF Before
<1> QED
  BY <1>6 DEF s

LEMMA RoundSymbol ==
    ASSUME NEW c \in Symbol, c # "$", NEW rest \in Seq(Symbol), NEW env, NEW strict
    PROVE  Round(<<c>> \o rest, env, strict) = Took(1, Gives(<<c>>))
<1>1. (<<c>> \o rest)[1] = c
  <2>1. 1 \in 1..Len(<<c>>) /\ <<c>>[1] = c /\ <<c>> \in Seq(Symbol)
    BY OneSymbol
  <2>2. \A k \in 1..Len(<<c>>) : (<<c>> \o rest)[k] = <<c>>[k]
    BY <2>1, Joined
  <2> QED  BY <2>1, <2>2
<1> QED
  BY <1>1 DEF Round, Took

LEMMA RoundEscape ==
    ASSUME NEW rest \in Seq(Symbol), NEW env, NEW strict
    PROVE  Round(Escape \o rest, env, strict) = Took(2, Gives(Dollar))
<1> DEFINE s == Escape \o rest
<1>1. s[1] = "$" /\ s[2] = "$"
  <2>1. Escape \in Seq(Symbol) /\ Len(Escape) = 2 /\ Escape[1] = "$" /\ Escape[2] = "$"
    BY MarkTexts DEF Escape
  <2>2. \A k \in 1..Len(Escape) : s[k] = Escape[k]
    BY <2>1, Joined
  <2>3. 1 \in 1..Len(Escape) /\ 2 \in 1..Len(Escape)
    BY <2>1
  <2> QED  BY <2>1, <2>2, <2>3
<1> HIDE DEF s
<1>2. Round(s, env, strict) = Took(2, Gives(Dollar))
  BY <1>1 DEF Round, Took, Dollar
<1> QED
  BY <1>2 DEF s

\* What follows a dollar that starts a text.
LEMMA AfterDollar ==
    ASSUME NEW v \in Seq(Symbol), v # <<>>
    PROVE  LET s == Dollar \o v IN
           /\ s \in Seq(Symbol) /\ Len(s) # 1 /\ s[1] = "$" /\ s[2] = v[1] /\ Tail(s) = v
<1> DEFINE s == Dollar \o v
           m == Len(v)
<1>1. Dollar \in Seq(Symbol) /\ Len(Dollar) = 1 /\ Dollar[1] = "$" /\ m \in Nat \ {0}
  BY MarkTexts DEF Dollar
<1>2. /\ s \in Seq(Symbol) /\ Len(s) = Len(Dollar) + m /\ \A k \in 1..Len(Dollar) : s[k] = Dollar[k]
      /\ \A k \in 1..m : s[Len(Dollar) + k] = v[k]
  BY <1>1, Joined
<1>3. s[1] = "$" /\ s[2] = v[1] /\ Len(s) = 1 + m /\ Len(s) # 1 /\ \A k \in 1..m : s[1 + k] = v[k]
  <2>1. 1 \in 1..Len(Dollar) /\ 1 \in 1..m /\ Len(Dollar) + 1 = 2
    BY <1>1
  <2> HIDE DEF s, m
  <2> QED  BY <2>1, <1>1, <1>2
<1> HIDE DEF s
<1>4. Tail(s) \in Seq(Symbol) /\ Len(Tail(s)) = m /\ \A k \in 1..m : Tail(s)[k] = s[k + 1]
  <2>1. s # <<>>
    BY <1>1, <1>3
  <2>2. Tail(s) \in Seq(Symbol) /\ Len(Tail(s)) = Len(s) - 1 /\ \A k \in 1..Len(Tail(s)) : Tail(s)[k] = s[k + 1]
    BY <2>1, <1>2, HeadTailProperties
  <2>3. Len(s) - 1 = m
    BY <1>1, <1>3
  <2> QED  BY <2>2, <2>3
<1>5. ASSUME NEW k \in 1..m PROVE Tail(s)[k] = v[k]
  <2>1. k + 1 = 1 + k
    OBVIOUS
  <2> QED  BY <2>1, <1>3, <1>4
<1>6. Tail(s) = v
  BY <1>4, <1>5, SeqEqual
<1> QED
  BY <1>2, <1>3, <1>6 DEF s

LEMMA RoundDollar ==
    ASSUME NEW c \in Symbol \ Letter, ~Opens(c), NEW rest \in Seq(Symbol), NEW env, NEW strict
    PROVE  Round(Dollar \o (<<c>> \o rest), env, strict) = Took(1, Gives(Dollar))
<1> DEFINE v == <<c>> \o rest
           s == Dollar \o v
<1>1. v \in Seq(Symbol) /\ v # <<>> /\ v[1] = c /\ DOMAIN v = 1..Len(v) /\ Len(v) \in Nat \ {0}
  <2>1. <<c>> \in Seq(Symbol) /\ Len(<<c>>) = 1 /\ <<c>>[1] = c /\ 1 \in 1..Len(<<c>>)
    BY OneSymbol
  <2>2. v \in Seq(Symbol) /\ Len(v) = Len(<<c>>) + Len(rest) /\ Len(rest) \in Nat /\ \A k \in 1..Len(<<c>>) : v[k] = <<c>>[k]
    BY <2>1, Joined
  <2> HIDE DEF v
  <2> QED  BY <2>1, <2>2
<1> HIDE DEF v
<1>2. s \in Seq(Symbol) /\ Len(s) # 1 /\ s[1] = "$" /\ s[2] = c /\ Tail(s) = v
  BY <1>1, AfterDollar
<1>3. identifierLen(v) = 0
  <2> DEFINE others == {i \in DOMAIN v : v[i] \notin Letter /\ (i = 1 \/ v[i] \notin Digit)}
  <2>1. 1 \in others /\ others \subseteq 1..Len(v) /\ others \in SUBSET Nat
    BY <1>1
  <2>2. identifierLen(v) = IF others = {} THEN Len(v) ELSE Min(others) - 1
    BY DEF identifierLen
  <2> HIDE DEF others
  <2>3. Min(others) \in 1..Len(v) /\ Min(others) <= 1
    BY <2>1, MinIsLeast
  <2>4. Min(others) = 1
    BY <2>3, <1>1
  <2>5. others # {} /\ 1 - 1 = 0
    BY <2>1
  <2> QED  BY <2>2, <2>4, <2>5
<1> HIDE DEF s
<1>4. s[2] # "$" /\ s[2] # "{"
  BY <1>2 DEF Opens
<1>5. Round(s, env, strict) = Took(1, Gives(Dollar))
  BY <1>2, <1>3, <1>4 DEF Round, Took, Dollar
<1> QED
  BY <1>5 DEF s, v

LEMMA RoundName ==
    ASSUME NEW n, IsName(n), NEW rest \in Seq(Symbol), rest # <<>> => rest[1] \notin Letter \cup Digit, NEW env, NEW strict
    PROVE  Round((Dollar \o n) \o rest, env, strict) = Took(1 + Len(n), resolveVariable(n, env, strict))
<1> DEFINE v == n \o rest
           s == Dollar \o v
           l == Len(n)
<1>1. n \in Seq(Symbol) /\ l \in Nat \ {0} /\ Dollar \in Seq(Symbol) /\ Len(Dollar) = 1
  BY NamesArePlain, MarkTexts
<1>2. v \in Seq(Symbol) /\ v # <<>> /\ v[1] = n[1]
  <2>1. v \in Seq(Symbol) /\ Len(v) = l + Len(rest) /\ Len(rest) \in Nat /\ \A k \in 1..l : v[k] = n[k]
    BY <1>1, Joined
  <2> HIDE DEF v, l
  <2>2. Len(v) # 0 /\ 1 \in 1..l
    BY <1>1, <2>1
  <2> QED  BY <2>1, <2>2
<1>3. identifierLen(v) = l
  BY NameFound
<1>4. SubSeq((Dollar \o n) \o rest, Len(Dollar) + 1, Len(Dollar) + l) = n
  BY <1>1, Middle
<1>5. (Dollar \o n) \o rest = s
  BY <1>1, Associate
<1> HIDE DEF v
<1>6. s \in Seq(Symbol) /\ Len(s) # 1 /\ s[1] = "$" /\ s[2] = n[1] /\ Tail(s) = v
  BY <1>2, AfterDollar
<1>7. s[2] # "$" /\ s[2] # "{"
  BY <1>6, MarksAreSymbols DEF IsName
<1> HIDE DEF s
<1>8. SubSeq(s, 2, 1 + l) = n
  <2>1. Len(Dollar) + 1 = 2 /\ Len(Dollar) + l = 1 + l
    BY <1>1
  <2> QED  BY <2>1, <1>4, <1>5
<1>9. l # 0
  BY <1>1
<1> HIDE DEF l
<1>10. Round(s, env, strict) = Took(1 + l, resolveVariable(n, env, strict))
  BY <1>3, <1>6, <1>7, <1>8, <1>9 DEF Round, Took
<1> QED
  BY <1>5, <1>10 DEF l

LEMMA RoundReference ==
    ASSUME ScannerRecurs, NEW b \in Seq(Symbol), Passes(b), NEW rest \in Seq(Symbol), NEW env, NEW strict
    PROVE  LET w == (Opening \o b) \o Closing IN
           Round(w \o rest, env, strict) = Took(Len(w), resolveVariable(b, env, strict))
<1> DEFINE o == Opening
           c == Closing
           m == Len(b)
           ob == o \o b
           w == ob \o c
           s == w \o rest
           x == (b \o c) \o rest
           close == closingBrace(x)
<1>1. o \in Seq(Symbol) /\ Len(o) = 2 /\ c \in Seq(Symbol) /\ Len(c) = 1 /\ m \in Nat
  BY MarkTexts
<1>2. o[1] = "$" /\ o[2] = "{"
  BY DEF Opening
<1>3. close = m + 1
  BY BraceFound
<1> HIDE DEF o, c
<1>4. ob \in Seq(Symbol) /\ Len(ob) = Len(o) + m /\ \A k \in 1..Len(o) : ob[k] = o[k]
  BY <1>1, Joined
<1> HIDE DEF m
<1>5. w \in Seq(Symbol) /\ Len(w) = Len(ob) + Len(c) /\ \A k \in 1..Len(ob) : w[k] = ob[k]
  <2> HIDE DEF ob
  <2> QED  BY <1>1, <1>4, Joined
<1>6. s \in Seq(Symbol) /\ Len(s) = Len(w) + Len(rest) /\ Len(rest) \in Nat /\ \A k \in 1..Len(w) : s[k] = w[k]
  <2> HIDE DEF w
  <2> QED  BY <1>5, Joined
<1>7. s = o \o x
  <2>1. \A z \in Seq(Symbol) : (ob \o c) \o z = o \o ((b \o c) \o z)
    <3>1. \A u, v, y, z \in Seq(Symbol) : ((u \o v) \o y) \o z = u \o ((v \o y) \o z)
      BY AssociateAll, Zenon
    <3>2. \A v, y, z \in Seq(Symbol) : ((o \o v) \o y) \o z = o \o ((v \o y) \o z)
      BY <1>1, <3>1, Zenon
    <3>3. \A y, z \in Seq(Symbol) : ((o \o b) \o y) \o z = o \o ((b \o y) \o z)
      BY <3>2, Zenon
    <3> QED  BY <1>1, <3>3, Zenon
  <2> QED  BY <2>1
<1>8. x \in Seq(Symbol)
  <2>1. b \o c \in Seq(Symbol)
    BY <1>1, Joined
  <2> DEFINE bc == b \o c
  <2> HIDE DEF bc
  <2>2. bc \o rest \in Seq(Symbol)
    BY <2>1, Joined DEF bc
  <2> QED  BY <2>2 DEF bc
<1>9. From(s, Len(o) + 1) = x
  <2>1. From(o \o x, Len(o) + 1) = x
    <3> HIDE DEF x
    <3> QED  BY <1>1, <1>8, After
  <2> QED  BY <2>1, <1>7
<1>10. SubSeq(s, Len(o) + 1, Len(o) + m) = b
  <2>1. c \o rest \in Seq(Symbol)
    BY <1>1, Joined
  <2>2. SubSeq(ob \o (c \o rest), Len(o) + 1, Len(o) + m) = b
    BY <1>1, <2>1, Middle DEF m
  <2>3. s = ob \o (c \o rest)
    <3> HIDE DEF ob
    <3> QED  BY <1>1, <1>4, Associate
  <2> QED  BY <2>2, <2>3
<1> HIDE DEF ob, w, s, x
<1>11. s[1] = o[1] /\ s[2] = o[2] /\ Len(s) # 1
  <2>1. 1 \in 1..Len(o) /\ 2 \in 1..Len(o) /\ 1 \in 1..Len(ob) /\ 2 \in 1..Len(ob) /\ 1 \in 1..Len(w) /\ 2 \in 1..Len(w)
    BY <1>1, <1>4, <1>5
  <2>2. Len(s) # 1
    BY <1>1, <1>4, <1>5, <1>6
  <2> QED  BY <2>1, <2>2, <1>4, <1>5, <1>6
<1> HIDE DEF close
<1>12. Len(o) + 1 = 3 /\ Len(o) + m = 1 + close /\ 2 + close = Len(w) /\ close # 0
  BY <1>1, <1>3, <1>4, <1>5
<1>13. From(s, 3) = x /\ SubSeq(s, 3, 1 + close) = b
  BY <1>9, <1>10, <1>12
<1>14. closingBrace(From(s, 3)) = close
  BY <1>13 DEF close
<1>15. s[1] = "$" /\ s[2] = "{" /\ Len(s) # 1 /\ close # 0
  BY <1>2, <1>11, <1>12
<1>16. Round(s, env, strict) = Took(2 + close, resolveVariable(b, env, strict))
  BY <1>13, <1>14, <1>15 DEF Round, Took
<1>17. Round(s, env, strict) = Took(Len(w), resolveVariable(b, env, strict))
  BY <1>12, <1>16
<1> QED
  BY <1>17 DEF s, w, ob, o, c

-----------------------------------------------------------------------------
(* What an item becomes *)

ValueOr(env, name, otherwise) == IF IsSet(env, name) THEN Gives(env[name]) ELSE otherwise

LEMMA MeaningsOf ==
    ASSUME NEW item, NEW env, NEW strict
    PROVE  LET means == MeaningOf(item, env, strict)
               unset(name) == IF strict THEN Refuses(name) ELSE Gives(<<>>)
           IN /\ IsLit(item) => means = Gives(<<item.lit>>)
              /\ IsEscape(item) => means = Gives(Dollar)
              /\ IsAmount(item) => means = Gives(<<"$", item.amount>>)
              /\ IsBare(item) => means = ValueOr(env, item.bare, unset(item.bare))
              /\ IsRef(item) =>
                   means = ValueOr(env, item.ref,
                                 IF HasFallback(item) THEN InnerMeaning(item.fallback, env, strict) ELSE unset(item.ref))
<1>1. ASSUME IsLit(item) PROVE MeaningOf(item, env, strict) = Gives(<<item.lit>>)
  BY <1>1 DEF MeaningOf, IsLit
<1>2. ASSUME IsEscape(item) PROVE MeaningOf(item, env, strict) = Gives(Dollar)
  BY <1>2 DEF MeaningOf, IsEscape, Dollar
<1>3. ASSUME IsAmount(item) PROVE MeaningOf(item, env, strict) = Gives(<<"$", item.amount>>)
  BY <1>3 DEF MeaningOf, IsAmount
<1>4. ASSUME IsBare(item)
      PROVE  MeaningOf(item, env, strict) = ValueOr(env, item.bare, IF strict THEN Refuses(item.bare) ELSE Gives(<<>>))
  BY <1>4 DEF MeaningOf, IsBare, ValueOr
<1>5. ASSUME IsRef(item)
      PROVE  MeaningOf(item, env, strict) =
               ValueOr(env, item.ref, IF HasFallback(item) THEN InnerMeaning(item.fallback, env, strict)
                                    ELSE IF strict THEN Refuses(item.ref) ELSE Gives(<<>>))
  <2>1. /\ "lit" \notin DOMAIN item /\ "dollar" \notin DOMAIN item /\ "amount" \notin DOMAIN item
        /\ "bare" \notin DOMAIN item /\ "ref" \in DOMAIN item /\ DOMAIN item \cap {"bare", "ref"} # {}
    BY <1>5 DEF IsRef
  <2> QED  BY <2>1 DEF MeaningOf, HasFallback, ValueOr
<1> QED
  BY <1>1, <1>2, <1>3, <1>4, <1>5

\* A value of an item: a text, or a name that is refused.
IsResult(r) == IsGiven(r) \/ (Failed(r) /\ r = Refuses(r.unset))

LEMMA ResultsOfTexts ==
    ASSUME ScannerRecurs, NEW s \in Seq(Symbol), NEW env, IsEnvironment(env), NEW strict \in BOOLEAN
    PROVE  IsResult(expandVariables(s, env, strict))
<1> DEFINE gave == expandVariables(s, env, TRUE)
           lenient == expandVariables(s, env, FALSE)
<1>1. IsGiven(lenient) /\ Agrees(gave, lenient, env)
  BY TextsAreFine DEF FineText
<1> HIDE DEF gave, lenient
<1>2. IsResult(gave) /\ IsResult(lenient)
  BY <1>1 DEF Agrees, IsResult
<1> QED
  BY <1>2 DEF gave, lenient

LEMMA BeforeBoth ==
    ASSUME NEW c \in Symbol, NEW r, IsResult(r)
    PROVE  Before(Gives(Dollar), Before(Gives(<<c>>), r)) = Before(Gives(<<"$", c>>), r)
<1>1. CASE Failed(r)
  <2>1. \A t : Before(Gives(t), r) = r
    BY <1>1, Results DEF Before
  <2> QED  BY <2>1
<1>2. CASE ~Failed(r)
  <2> DEFINE t == r.text
             d == Dollar
             u == <<c>>
  <2>1. r = Gives(t) /\ t \in Texts
    BY <1>2 DEF IsResult, IsGiven
  <2>2. d \in Texts /\ u \in Texts /\ <<"$", c>> = d \o u
    <3>1. d \in Seq(Symbol) /\ u \in Seq(Symbol)
      BY MarkTexts, OneSymbol
    <3>2. <<"$", c>> = <<"$">> \o <<c>>
      OBVIOUS
    <3> QED  BY <3>1, <3>2 DEF Texts, Dollar
  <2> HIDE DEF t, d, u
  <2>3. \A v, w : Before(Gives(v), Gives(w)) = Gives(v \o w)
    BY Results DEF Before
  <2>4. d \o (u \o t) = (d \o u) \o t
    BY <2>1, <2>2, ConcatAssociative DEF Texts
  <2>5. Before(Gives(u), r) = Gives(u \o t)
    BY <2>1, <2>3
  <2>6. Before(Gives(d), Gives(u \o t)) = Gives(d \o (u \o t))
    BY <2>3
  <2>7. Before(Gives(d \o u), r) = Gives((d \o u) \o t)
    BY <2>1, <2>3
  <2>8. Before(Gives(d), Before(Gives(u), r)) = Before(Gives(d \o u), r)
    BY <2>4, <2>5, <2>6, <2>7
  <2> QED  BY <2>2, <2>8 DEF d, u
<1> QED
  BY <1>1, <1>2

\* The fallback of an item, written as f, becomes what it means.
FineFallback(item, f) ==
    HasFallback(item) =>
      /\ Passes(f)
      /\ \A env : \A strict \in BOOLEAN :
           IsEnvironment(env) => InnerExpandVariables(f, env, strict) = InnerMeaning(item.fallback, env, strict)

LEMMA ItemsExpand ==
    ASSUME ScannerRecurs, NEW item, NEW nested \in BOOLEAN, IsItem(item, nested),
           NEW f \in Seq(Symbol), FineFallback(item, f),
           NEW rest \in Seq(Symbol), IsBare(item) /\ rest # <<>> => rest[1] \notin Letter \cup Digit,
           NEW env, IsEnvironment(env), NEW strict \in BOOLEAN
    PROVE  expandVariables(Forms(item, f) \o rest, env, strict) =
             Before(MeaningOf(item, env, strict), expandVariables(rest, env, strict))
<1> DEFINE w == Forms(item, f)
           means == MeaningOf(item, env, strict)
<1>1. w \in Seq(Symbol) /\ w # <<>>
  BY FormsStart
<1>2. SUFFICES ASSUME ~IsAmount(item) PROVE Round(w \o rest, env, strict) = Took(Len(w), means)
  <2>1. CASE ~IsAmount(item)
    <3>1. Round(w \o rest, env, strict) = Took(Len(w), means)
      BY <2>1, <1>2
    <3> HIDE DEF w, means
    <3>2. expandVariables(w \o rest, env, strict) = Before(means, expandVariables(rest, env, strict))
      BY <1>1, <3>1, RoundTakes
    <3> QED  BY <3>2 DEF w, means
  <2>2. CASE IsAmount(item)
    <3> DEFINE a == item.amount
               u == <<a>>
               r == expandVariables(rest, env, strict)
    <3>1. a \in Symbol \ Letter /\ ~Opens(a) /\ a # "$"
      BY <2>2, ItemKinds DEF IsAmount, IsLit, IsEscape, IsBare, IsRef, Opens
    <3>2. u \in Seq(Symbol) /\ u # <<>> /\ Len(u) = 1 /\ Dollar \in Seq(Symbol) /\ Dollar # <<>> /\ Len(Dollar) = 1
      BY <3>1, OneSymbol, MarkTexts DEF Dollar
    <3>3. w = Dollar \o u /\ means = Gives(<<"$", a>>)
      BY <2>2, FormsOf, MeaningsOf
    <3>4. Round(u \o rest, env, strict) = Took(1, Gives(u))
      BY <3>1, RoundSymbol
    <3>5. Round(Dollar \o (u \o rest), env, strict) = Took(1, Gives(Dollar))
      BY <3>1, RoundDollar
    <3>6. IsResult(r)
      BY ResultsOfTexts
    <3> HIDE DEF w, means
    <3>7. Before(Gives(Dollar), Before(Gives(u), r)) = Before(Gives(<<"$", a>>), r)
      BY <3>1, <3>6, BeforeBoth
    <3> HIDE DEF u, a
    <3>8. expandVariables(u \o rest, env, strict) = Before(Gives(u), r)
      <4>1. \A g : Round(u \o rest, env, strict) = Took(Len(u), g) =>
                     expandVariables(u \o rest, env, strict) = Before(g, r)
        <5>1. u \in Seq(Symbol) /\ u # <<>>
          BY <3>2
        <5> QED  BY <5>1, RoundTakes
      <4>2. Round(u \o rest, env, strict) = Took(Len(u), Gives(u))
        BY <3>2, <3>4
      <4> QED  BY <4>1, <4>2
    <3>9. u \o rest \in Seq(Symbol)
      BY <3>2, Joined
    <3>10. expandVariables(Dollar \o (u \o rest), env, strict) = Before(Gives(Dollar), expandVariables(u \o rest, env, strict))
      <4> DEFINE v == u \o rest
      <4>1. v \in Seq(Symbol) /\ Round(Dollar \o v, env, strict) = Took(Len(Dollar), Gives(Dollar))
        BY <3>2, <3>5, <3>9
      <4> HIDE DEF v
      <4>2. \A g : Round(Dollar \o v, env, strict) = Took(Len(Dollar), g) =>
                     expandVariables(Dollar \o v, env, strict) = Before(g, expandVariables(v, env, strict))
        <5>1. Dollar \in Seq(Symbol) /\ Dollar # <<>> /\ v \in Seq(Symbol)
          BY <3>2, <4>1
        <5> QED  BY <5>1, RoundTakes
      <4>3. expandVariables(Dollar \o v, env, strict) = Before(Gives(Dollar), expandVariables(v, env, strict))
        BY <4>1, <4>2
      <4> QED  BY <4>3 DEF v
    <3>11. w \o rest = Dollar \o (u \o rest)
      BY <3>2, <3>3, Associate
    <3>12. expandVariables(w \o rest, env, strict) = Before(means, r)
      BY <3>3, <3>7, <3>8, <3>10, <3>11
    <3> QED  BY <3>12 DEF w, means
  <2> QED  BY <2>1, <2>2
<1>3. CASE IsLit(item) /\ item.lit \in Symbol /\ item.lit # "$"
  <2>1. w = <<item.lit>> /\ means = Gives(<<item.lit>>) /\ Len(<<item.lit>>) = 1
    BY <1>3, FormsOf, MeaningsOf, OneSymbol
  <2>2. Round(<<item.lit>> \o rest, env, strict) = Took(1, Gives(<<item.lit>>))
    BY <1>3, RoundSymbol
  <2> QED  BY <2>1, <2>2
<1>4. CASE IsEscape(item)
  <2>1. w = Escape /\ means = Gives(Dollar) /\ Len(Escape) = 2
    BY <1>4, FormsOf, MeaningsOf, MarkTexts
  <2>2. Round(Escape \o rest, env, strict) = Took(2, Gives(Dollar))
    BY RoundEscape
  <2> QED  BY <2>1, <2>2
<1>5. CASE IsBare(item) /\ IsName(item.bare)
  <2> DEFINE n == item.bare
  <2>1. w = Dollar \o n /\ means = ValueOr(env, n, IF strict THEN Refuses(n) ELSE Gives(<<>>))
    BY <1>5, FormsOf, MeaningsOf
  <2>2. resolveVariable(n, env, strict) = means
    BY <1>5, <2>1, NamesResolve DEF ValueOr
  <2>3. Len(w) = 1 + Len(n)
    <3>1. Dollar \in Seq(Symbol) /\ Len(Dollar) = 1 /\ n \in Seq(Symbol)
      BY <1>5, MarkTexts DEF IsName
    <3> HIDE DEF n
    <3>2. Len(Dollar \o n) = Len(Dollar) + Len(n)
      BY <3>1, Joined
    <3> QED  BY <2>1, <3>1, <3>2
  <2>4. Round((Dollar \o n) \o rest, env, strict) = Took(1 + Len(n), resolveVariable(n, env, strict))
    BY <1>5, RoundName
  <2> QED  BY <2>1, <2>2, <2>3, <2>4
<1>6. CASE IsRef(item) /\ IsName(item.ref)
  <2> DEFINE n == item.ref
             b == BodyOf(item, f)
  <2>1. w = (Opening \o b) \o Closing
    BY <1>6, FormsOf
  <2>2. b \in Seq(Symbol) /\ Passes(b)
    <3>1. CASE HasFallback(item)
      BY <3>1, <1>6, Bodies DEF FineFallback
    <3>2. CASE ~HasFallback(item)
      BY <3>2, <1>6, NamesArePlain, PlainPasses DEF BodyOf, HasFallback
    <3> QED  BY <3>1, <3>2
  <2>3. resolveVariable(b, env, strict) = means
    <3>1. means = ValueOr(env, n, IF HasFallback(item) THEN InnerMeaning(item.fallback, env, strict)
                                ELSE IF strict THEN Refuses(n) ELSE Gives(<<>>))
      BY <1>6, MeaningsOf
    <3>2. CASE HasFallback(item)
      <4>1. b = (n \o Cut) \o f
        BY <3>2 DEF BodyOf, HasFallback
      <4>2. resolveVariable((n \o Cut) \o f, env, strict) = IF IsSet(env, n) THEN Gives(env[n]) ELSE InnerExpandVariables(f, env, strict)
        BY <1>6, FallbacksResolve
      <4>3. InnerExpandVariables(f, env, strict) = InnerMeaning(item.fallback, env, strict)
        BY <3>2 DEF FineFallback
      <4> QED  BY <3>1, <3>2, <4>1, <4>2, <4>3 DEF ValueOr
    <3>3. CASE ~HasFallback(item)
      <4>1. b = n
        BY <3>3 DEF BodyOf, HasFallback
      <4> QED  BY <1>6, <3>1, <3>3, <4>1, NamesResolve DEF ValueOr
    <3> QED  BY <3>2, <3>3
  <2> HIDE DEF b, w, means
  <2>4. Round(((Opening \o b) \o Closing) \o rest, env, strict) = Took(Len((Opening \o b) \o Closing), resolveVariable(b, env, strict))
    BY <2>2, RoundReference
  <2> QED  BY <2>1, <2>3, <2>4
<1> QED
  BY <1>2, <1>3, <1>4, <1>5, <1>6, ItemKinds

-----------------------------------------------------------------------------
(* What a text becomes *)

LEMMA EmptyPasses ==
    <<>> \in Seq(Symbol) /\ Passes(<<>>)
<1>1. <<>> \in Seq(Symbol) /\ Len(<<>>) = 0
  OBVIOUS
<1>2. \A i \in Nat : i + 0 = i
  OBVIOUS
<1> QED
  BY <1>1, <1>2 DEF Passes

\* A text starts as its first item does.
StartsAs(text, w) == w # <<>> => text # <<>> /\ w[1] = IF IsLit(text[1]) THEN text[1].lit ELSE "$"
Means(text, env, strict) == expandVariables(Written(text), env, strict) = Meaning(text, env, strict)
FineTerm(p) ==
    /\ Written(p[1]) \in Seq(Symbol)
    /\ StartsAs(p[1], Written(p[1]))
    /\ p[2] => Passes(Written(p[1]))
    /\ \A env : \A strict \in BOOLEAN : IsEnvironment(env) => Means(p[1], env, strict)

LEMMA TermsStep ==
    ASSUME ScannerRecurs, TermsRecur, NEW p, IsTerm(p), \A q \in PartsOf(p) : FineTerm(q)
    PROVE  FineTerm(p)
<1> DEFINE text == p[1]
           nested == p[2]
<1>1. IsTextOf(p) /\ \A q \in PartsOf(p) : IsTerm(q) /\ FineTerm(q)
  BY PartsAreTerms
<1>2. CASE text = <<>>
  <2>1. Written(text) = <<>> /\ \A env, strict : Meaning(text, env, strict) = Gives(<<>>)
    BY <1>2 DEF Written, Meaning
  <2>2. \A env, strict : expandVariables(<<>>, env, strict) = Gives(<<>>)
    BY DEF expandVariables
  <2> QED  BY <2>1, <2>2, EmptyPasses DEF FineTerm, StartsAs, Means
<1>3. CASE text # <<>>
  <2> DEFINE item == text[1]
             tail == Tail(text)
             f == IF HasFallback(item) THEN Written(item.fallback) ELSE <<>>
             head == Forms(item, f)
             rest == Written(tail)
             w == head \o rest
  <2>1. nested \in BOOLEAN /\ IsItem(item, nested) /\ WellWritten(text)
    BY <1>1, <1>3 DEF IsTextOf
  <2>2. Head(text) = item /\ (tail # <<>> => Len(text) \in Nat /\ 1 \in 1..(Len(text) - 1) /\ tail[1] = text[1 + 1])
    <3> DEFINE E == {text[i] : i \in DOMAIN text}
    <3>1. text \in Seq(E)
      BY <1>1 DEF IsTextOf
    <3> HIDE DEF E, text
    <3>2. Head(text) = text[1] /\ Tail(text) \in Seq(E) /\ Len(text) \in Nat
      BY <3>1, <1>3
    <3>3. Len(Tail(text)) = Len(text) - 1 /\ \A k \in 1..Len(Tail(text)) : Tail(text)[k] = text[k + 1]
      BY <3>1, <1>3, HeadTailProperties
    <3>4. Tail(text) # <<>> => Len(Tail(text)) \in Nat /\ Len(Tail(text)) >= 1
      BY <3>2
    <3>5. Tail(text) # <<>> => 1 \in 1..Len(Tail(text)) /\ 1 \in 1..(Len(text) - 1)
      BY <3>2, <3>3, <3>4
    <3> QED  BY <3>2, <3>3, <3>5
  <2>3. IsTerm(<<tail, nested>>) /\ FineTerm(<<tail, nested>>)
    BY <1>1, <1>3 DEF PartsOf
  <2>4. HasFallback(item) => IsTerm(<<item.fallback, TRUE>>) /\ FineTerm(<<item.fallback, TRUE>>)
    BY <1>1, <1>3 DEF PartsOf, HasFallback
  <2> HIDE DEF nested, text
  <2>5. /\ InnerWritten(tail) = rest /\ rest \in Seq(Symbol) /\ StartsAs(tail, rest) /\ (nested => Passes(rest))
        /\ \A env : \A strict \in BOOLEAN : IsEnvironment(env) =>
             /\ InnerMeaning(tail, env, strict) = Meaning(tail, env, strict)
             /\ expandVariables(rest, env, strict) = Meaning(tail, env, strict)
    <3> DEFINE q == <<tail, nested>>
    <3>1. q[1] = tail /\ q[2] = nested
      OBVIOUS
    <3>2. IsTerm(q) /\ FineTerm(q)
      BY <2>3
    <3> HIDE DEF q, tail
    <3>3. Written(tail) \in Seq(Symbol) /\ StartsAs(tail, Written(tail)) /\ (nested => Passes(Written(tail)))
      BY <3>1, <3>2 DEF FineTerm
    <3>4. \A env : \A strict \in BOOLEAN : IsEnvironment(env) => Means(tail, env, strict)
      BY <3>1, <3>2 DEF FineTerm
    <3>5. /\ InnerWritten(tail) = Written(tail)
          /\ \A env : \A strict \in BOOLEAN : InnerMeaning(tail, env, strict) = Meaning(tail, env, strict)
      BY <3>1, <3>2 DEF TermsRecur
    <3> QED  BY <3>3, <3>4, <3>5 DEF Means
  <2>6. /\ f \in Seq(Symbol) /\ Passes(f) /\ (HasFallback(item) => InnerWritten(item.fallback) = f)
        /\ FineFallback(item, f)
    <3>1. CASE HasFallback(item)
      <4>1. f = Written(item.fallback) /\ InnerWritten(item.fallback) = f /\ f \in Seq(Symbol) /\ Passes(f)
        BY <3>1, <2>4 DEF TermsRecur, FineTerm
      <4>2. ASSUME NEW env, NEW strict \in BOOLEAN, IsEnvironment(env)
            PROVE  InnerExpandVariables(f, env, strict) = InnerMeaning(item.fallback, env, strict)
        <5>1. InnerExpandVariables(f, env, strict) = expandVariables(f, env, strict)
          BY <4>1 DEF ScannerRecurs
        <5>2. expandVariables(f, env, strict) = Meaning(item.fallback, env, strict)
          BY <3>1, <2>4, <4>1, <4>2 DEF FineTerm, Means
        <5>3. InnerMeaning(item.fallback, env, strict) = Meaning(item.fallback, env, strict)
          BY <3>1, <2>4 DEF TermsRecur
        <5> QED  BY <5>1, <5>2, <5>3
      <4> HIDE DEF f
      <4> QED  BY <4>1, <4>2 DEF FineFallback
    <3>2. CASE ~HasFallback(item)
      BY <3>2, EmptyPasses DEF FineFallback
    <3> QED  BY <3>1, <3>2
  <2> HIDE DEF f
  <2>7. WrittenItem(item) = head /\ Written(text) = w
    <3>1. WrittenItem(item) = head
      BY <2>1, <2>6, WrittenForms DEF HasFallback
    <3> QED  BY <3>1, <1>3, <2>2, <2>5 DEF Written
  <2>8. head \in Seq(Symbol) /\ head # <<>> /\ head[1] = IF IsLit(item) THEN item.lit ELSE "$"
    BY <2>1, <2>6, FormsStart
  <2>9. nested => Passes(head)
    BY <2>1, <2>6, FormsPass
  <2>10. IsBare(item) /\ rest # <<>> => rest[1] \notin Letter \cup Digit
    <3> SUFFICES ASSUME IsBare(item), rest # <<>> PROVE rest[1] \notin Letter \cup Digit
      OBVIOUS
    <3>1. tail # <<>> /\ rest[1] = IF IsLit(tail[1]) THEN tail[1].lit ELSE "$"
      BY <2>5 DEF StartsAs
    <3>2. IsLit(tail[1]) => tail[1].lit \notin Letter \cup Digit
      BY <3>1, <2>1, <2>2 DEF WellWritten, IsBare, IsLit
    <3>3. "$" \notin Letter \cup Digit
      BY MarksAreSymbols
    <3> QED  BY <3>1, <3>2, <3>3
  <2>11. ASSUME NEW env, NEW strict \in BOOLEAN, IsEnvironment(env)
         PROVE  Means(text, env, strict)
    <3>1. expandVariables(w, env, strict) = Before(MeaningOf(item, env, strict), expandVariables(rest, env, strict))
      <4> HIDE DEF item, rest
      <4> QED  BY <2>1, <2>5, <2>6, <2>10, <2>11, ItemsExpand
    <3>2. Meaning(text, env, strict) = Before(MeaningOf(item, env, strict), InnerMeaning(tail, env, strict))
      BY <1>3, <2>2 DEF Meaning
    <3>3. InnerMeaning(tail, env, strict) = expandVariables(rest, env, strict)
      BY <2>5, <2>11
    <3> QED  BY <2>7, <3>1, <3>2, <3>3 DEF Means
  <2> HIDE DEF item, head, rest, tail
  <2>12. w \in Seq(Symbol) /\ (nested => Passes(w)) /\ StartsAs(text, w)
    <3>1. w \in Seq(Symbol)
      BY <2>5, <2>8, Joined
    <3>2. nested => Passes(w)
      BY <2>5, <2>8, <2>9, PassesJoin
    <3>3. w[1] = head[1]
      <4>1. \A k \in 1..Len(head) : w[k] = head[k]
        BY <2>5, <2>8, Joined
      <4>2. 1 \in 1..Len(head)
        BY <2>8
      <4> QED  BY <4>1, <4>2
    <3> QED  BY <3>1, <3>2, <3>3, <2>8, <1>3 DEF StartsAs, item
  <2> QED  BY <2>7, <2>11, <2>12 DEF FineTerm, text, nested
<1> QED
  BY <1>2, <1>3

LEMMA TermsAreFine ==
    ASSUME ScannerRecurs, TermsRecur, NEW p, IsTerm(p)
    PROVE  FineTerm(p)
<1>1. PICK S : p \in S /\ FoundedTexts(S)
  BY DEF IsTerm
<1> DEFINE T == {q \in S : FineTerm(q)}
<1>2. ASSUME NEW q \in S, PartsOf(q) \subseteq T PROVE q \in T
  <2>1. IsTerm(q) /\ \A r \in PartsOf(q) : FineTerm(r)
    BY <1>1, <1>2 DEF IsTerm
  <2> QED  BY <2>1, TermsStep
<1>3. T = S
  <2>1. T \in SUBSET S
    OBVIOUS
  <2> HIDE DEF T
  <2> QED  BY <2>1, <1>1, <1>2 DEF FoundedTexts
<1> QED
  BY <1>1, <1>3

(* expandVariables: a text with references, of any length and any depth of
   fallbacks, becomes what it means. *)
THEOREM TextsGetTheirMeaning ==
    ASSUME ScannerRecurs, TermsRecur, TermsAreTexts
    PROVE  ReferenceSpec => []ExpansionIsTheMeaning
<1>1. ReferenceInv => ExpansionIsTheMeaning
  <2> SUFFICES ASSUME ReferenceInv, Finished("term") PROVE ExpansionIsTheMeaning
    BY DEF ExpansionIsTheMeaning
  <2> DEFINE t == job.term
             env == job.env
  <2>1. t \in Terms /\ env \in Environments /\ answer = Expansions(Written(t))
    BY DEF ReferenceInv, ReferenceJob, Finished
  <2>2. IsEnvironment(env)
    BY <2>1, SymbolAssumption DEF SymbolAssumption, IsEnvironment, Texts
  <2>3. FineTerm(<<t, FALSE>>)
    BY <2>1, TermsAreFine DEF TermsAreTexts
  <2>4. \A strict \in BOOLEAN : expandVariables(Written(t), env, strict) = Meaning(t, env, strict)
    BY <2>2, <2>3 DEF FineTerm, Means
  <2>5. /\ answer.strict = expandVariables(Written(t), env, TRUE)
        /\ answer.lenient = expandVariables(Written(t), env, FALSE)
    BY <2>1 DEF Expansions
  <2> QED  BY <2>4, <2>5 DEF ExpansionIsTheMeaning
<1> QED
  BY <1>1, ReferenceInvariant, PTL
=============================================================================
