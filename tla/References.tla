----------------------------- MODULE References -----------------------------
(***************************************************************************)
(* expandVariables: the scanner of $NAME, ${NAME} and ${NAME:-fallback},   *)
(* and what a text with references means.                                  *)
(*                                                                         *)
(* A text is a sequence of symbols: "$", "{", "}", ":", "-", the symbols   *)
(* of names, and others, which stand for themselves.  An environment is a  *)
(* function from names to texts; a name it gives <<>> is as good as unset. *)
(*                                                                         *)
(* What recurs through a text or a fallback is defined for one step, and   *)
(* asks a constant Inner... about the rest, as Documents does for nodes.   *)
(***************************************************************************)
EXTENDS Jobs, Integers, SequencesExt, FiniteSetsExt

CONSTANTS
    Symbol,         \* the symbols of texts and names
    Letter,         \* those a name starts with
    Digit,          \* those a name may go on with
    Fresh,          \* a symbol of no text and no environment
    Environments,   \* of the process
    Strings,        \* texts, whatever they mean
    Terms,          \* texts with references, as items
    InnerClosesAt(_, _, _), InnerExpandVariables(_, _, _), InnerWritten(_), InnerMeaning(_, _, _)

Marks == {"$", "{", "}", ":", "-"}

ASSUME SymbolAssumption ==
    /\ Marks \cup Letter \cup Digit \subseteq Symbol /\ Fresh \notin Symbol
    /\ Marks \cap (Letter \cup Digit) = {}
    /\ \A s \in Strings : s \in Seq(Symbol)
    /\ \A env \in Environments : \A name \in DOMAIN env : name \in Seq(Symbol) /\ env[name] \in Seq(Symbol)

\* What an expansion returns: a text, or the name that strict finds unset.
Gives(text) == [text |-> text]
Refuses(name) == [unset |-> name]
Failed(r) == "unset" \in DOMAIN r

\* The text of r after that of q; the first that fails stands.
Before(q, r) == IF Failed(q) THEN q ELSE IF Failed(r) THEN r ELSE Gives(q.text \o r.text)

From(s, i) == SubSeq(s, i, Len(s))

\* Wrong: the first "}" closes the reference, whatever was opened since.
closingBraceFirst(s) == LET at == {i \in DOMAIN s : s[i] = "}"} IN IF at = {} THEN 0 ELSE Min(at)

\* The place of the "}" that closes a reference whose body starts s; 0 when
\* none does.  A "${" opens another one, and "$$" opens nothing.
closesAt(s, i, depth) ==
    IF i > Len(s) THEN 0
    ELSE IF s[i] = "$" /\ i < Len(s) /\ s[i + 1] = "$" THEN InnerClosesAt(s, i + 2, depth)
    ELSE IF s[i] = "$" /\ i < Len(s) /\ s[i + 1] = "{" THEN InnerClosesAt(s, i + 2, depth + 1)
    ELSE IF s[i] = "}" /\ depth = 0 THEN i
    ELSE InnerClosesAt(s, i + 1, IF s[i] = "}" THEN depth - 1 ELSE depth)
closingBrace(s) == closesAt(s, 1, 0)

\* How many symbols at the start of s are a name.
identifierLen(s) ==
    LET others == {i \in DOMAIN s : s[i] \notin Letter /\ (i = 1 \/ s[i] \notin Digit)}
    IN IF others = {} THEN Len(s) ELSE Min(others) - 1

\* Where the first ":-" of s is; 0 when there is none.
CutAt(s) ==
    LET at == {i \in 1..(Len(s) - 1) : s[i] = ":" /\ s[i + 1] = "-"}
    IN IF at = {} THEN 0 ELSE Min(at)

IsSet(env, name) == name \in DOMAIN env /\ env[name] # <<>>

\* Wrong: a fallback is expanded before it is known whether it is needed.
resolveVariableEagerly(spec, env, strict) ==
    LET cut == CutAt(spec)
        name == IF cut = 0 THEN spec ELSE SubSeq(spec, 1, cut - 1)
        fallback == IF cut = 0 THEN Gives(<<>>) ELSE InnerExpandVariables(From(spec, cut + 2), env, strict)
    IN IF name = <<>> THEN Gives(<<>>)
       ELSE IF Failed(fallback) THEN fallback
       ELSE IF IsSet(env, name) THEN Gives(env[name])
       ELSE IF cut # 0 THEN fallback
       ELSE IF strict THEN Refuses(name)
       ELSE Gives(<<>>)

\* The body of a reference: a name, or a name and a fallback.  A value is taken
\* as it is, a fallback is expanded in its turn.
resolveVariable(spec, env, strict) ==
    LET cut == CutAt(spec)
        name == IF cut = 0 THEN spec ELSE SubSeq(spec, 1, cut - 1)
    IN IF name = <<>> THEN Gives(<<>>)
       ELSE IF IsSet(env, name) THEN Gives(env[name])
       ELSE IF cut # 0 THEN InnerExpandVariables(From(spec, cut + 2), env, strict)
       ELSE IF strict THEN Refuses(name)
       ELSE Gives(<<>>)

\* One round of the loop at the start of s: how many symbols it takes, and what
\* it writes for them.  A "$" that starts nothing is kept, and so is all that
\* follows a "${" without its "}".
Round(s, env, strict) ==
    LET Took(n, r) == [taken |-> n, gives |-> r]
        close == closingBrace(From(s, 3))
        length == identifierLen(Tail(s))
    IN IF s[1] # "$" THEN Took(1, Gives(<<s[1]>>))
       ELSE IF Len(s) = 1 \/ s[2] = "$" THEN Took(2, Gives(<<"$">>))
       ELSE IF s[2] = "{"
       THEN IF close = 0 THEN Took(Len(s), Gives(s))
            ELSE Took(2 + close, resolveVariable(SubSeq(s, 3, 1 + close), env, strict))
       ELSE IF length = 0 THEN Took(1, Gives(<<"$">>))
       ELSE Took(1 + length, resolveVariable(SubSeq(s, 2, 1 + length), env, strict))

expandVariables(s, env, strict) ==
    IF s = <<>> THEN Gives(<<>>)
    ELSE LET round == Round(s, env, strict)
         IN IF Failed(round.gives) THEN round.gives
            ELSE Before(round.gives, InnerExpandVariables(From(s, round.taken + 1), env, strict))

-----------------------------------------------------------------------------
(* What is written, and what it means.  An item of a text is              *)
(*   [lit |-> c]                      a symbol that stands for itself,     *)
(*   [dollar |-> TRUE]                a dollar, written twice,             *)
(*   [amount |-> c]                   a dollar before a symbol no name     *)
(*                                    starts with, written once,           *)
(*   [bare |-> n]                     $n, before what no name goes on with,*)
(*   [ref |-> n]                      ${n},                                *)
(*   [ref |-> n, fallback |-> text]   ${n:-text}, text without a "}" as a  *)
(*                                    literal.                             *)

WrittenItem(item) ==
    CASE "lit" \in DOMAIN item -> <<item.lit>>
      [] "dollar" \in DOMAIN item -> <<"$", "$">>
      [] "amount" \in DOMAIN item -> <<"$", item.amount>>
      [] "bare" \in DOMAIN item -> <<"$">> \o item.bare
      [] "fallback" \in DOMAIN item -> <<"$", "{">> \o item.ref \o <<":", "-">> \o InnerWritten(item.fallback) \o <<"}">>
      [] DOMAIN item = {"ref"} -> <<"$", "{">> \o item.ref \o <<"}">>
Written(text) == IF text = <<>> THEN <<>> ELSE WrittenItem(Head(text)) \o InnerWritten(Tail(text))

MeaningOf(item, env, strict) ==
    LET name == IF "bare" \in DOMAIN item THEN item.bare ELSE item.ref IN
    CASE "lit" \in DOMAIN item -> Gives(<<item.lit>>)
      [] "dollar" \in DOMAIN item -> Gives(<<"$">>)
      [] "amount" \in DOMAIN item -> Gives(<<"$", item.amount>>)
      [] DOMAIN item \cap {"bare", "ref"} # {} ->
           IF IsSet(env, name) THEN Gives(env[name])
           ELSE IF "fallback" \in DOMAIN item THEN InnerMeaning(item.fallback, env, strict)
           ELSE IF strict THEN Refuses(name) ELSE Gives(<<>>)
Meaning(text, env, strict) ==
    IF text = <<>> THEN Gives(<<>>)
    ELSE Before(MeaningOf(Head(text), env, strict), InnerMeaning(Tail(text), env, strict))

\* A text a reader can take apart: no name goes on into what follows it.
WellWritten(text) ==
    \A i \in 1..(Len(text) - 1) :
      "bare" \in DOMAIN text[i] /\ "lit" \in DOMAIN text[i + 1] => text[i + 1].lit \notin Letter \cup Digit

-----------------------------------------------------------------------------
ReferenceJob == [kind : {"term"}, term : Terms, env : Environments]
                \cup [kind : {"string"}, text : Strings, env : Environments]
ReferenceInit == job \in ReferenceJob /\ answer = NoAnswer

Expansions(text) == [strict |-> expandVariables(text, job.env, TRUE), lenient |-> expandVariables(text, job.env, FALSE)]

ExpandTerm == Begins("term") /\ answer' = Expansions(Written(job.term))
ExpandString == Begins("string") /\ answer' = Expansions(job.text)

ReferenceNext == ExpandTerm \/ ExpandString
ReferenceSpec == ReferenceInit /\ [][ReferenceNext]_<<job, answer>>

(* A text with references becomes what they mean: the values of the environment
   as they are, with no reference looked for in them, fallbacks expanded in
   their turn and ended by their own brace, dollars once, and in strict mode
   the first name without a value. *)
ExpansionIsTheMeaning ==
    Finished("term") =>
      /\ answer.lenient = Meaning(job.term, job.env, FALSE)
      /\ answer.strict = Meaning(job.term, job.env, TRUE)

\* An environment in which a name has the value <<Fresh>>.
Having(env, name) == [n \in DOMAIN env \cup {name} |-> IF n = name THEN <<Fresh>> ELSE env[n]]

(* Strict mode only refuses: a text it takes becomes what it becomes without
   it, and a name it refuses is one that has no value and that matters, as a
   value given to it shows in the text. *)
StrictOnlyRefuses ==
    Finished("string") =>
      LET strict == answer.strict IN
      IF ~Failed(strict) THEN strict = answer.lenient
      ELSE /\ ~IsSet(job.env, strict.unset)
           /\ Contains(expandVariables(job.text, Having(job.env, strict.unset), FALSE).text, Fresh)
=============================================================================
