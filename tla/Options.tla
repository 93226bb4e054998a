------------------------------ MODULE Options ------------------------------
(***************************************************************************)
(* New and its options, NewStructBinder and the options of a binder, and   *)
(* what Bind refuses before it looks at a document.                        *)
(*                                                                         *)
(* An option is a record that names the function that made it and its      *)
(* argument; Nil is a nil argument, and a nil option.  A name of a tag     *)
(* option is a sequence of symbols, as in TagText.                         *)
(***************************************************************************)
EXTENDS Jobs, Integers, SequencesExt

CONSTANTS
    Nil, DefaultRegistry, DefaultMatcher, DefaultKey,
    OptionLists,      \* what New is given
    Registrations     \* tag options a binder is given

OptionFunctions ==
    {"WithRegistry", "WithDecoder", "WithExpander", "WithEnvExpansion", "WithBinder", "WithTagKey",
     "WithTagOption", "WithKeyMatcher", "WithPrefix"}

ASSUME OptionsAssumption ==
    \A opts \in OptionLists :
      opts \in Seq(ToSet(opts)) /\ \A i \in DOMAIN opts : opts[i] # Nil => opts[i].fn \in OptionFunctions

BuiltIn == {<<"default">>, <<"env">>, <<"required">>, <<"options">>, <<"range">>}
tagOptionForbidden == {",", "=", "|", "\"", "'", "[", "]", "{", "}", "(", ")", " ", "\t"}

(* registerTagOption: what it says of a name, "" when it takes it *)

\* Wrong: only what separates the options of a tag is forbidden.
RefusalOfSeparators(name, handler) ==
    IF handler = Nil THEN "no handler" ELSE IF name = <<>> THEN "no name"
    ELSE IF ToSet(name) \cap {",", "="} # {} THEN "forbidden" ELSE IF name \in BuiltIn THEN "built in" ELSE ""

Refusal(name, handler) ==
    IF handler = Nil THEN "no handler"
    ELSE IF name = <<>> THEN "no name"
    ELSE IF ToSet(name) \cap tagOptionForbidden # {} THEN "forbidden"
    ELSE IF name \in BuiltIn THEN "built in"
    ELSE ""

registerTagOption(binder, name, handler) ==
    IF Refusal(name, handler) = "" THEN [binder EXCEPT !.tagOptions = (name :> handler) @@ @]
    ELSE IF binder.tagOptionErr = "" THEN [binder EXCEPT !.tagOptionErr = Refusal(name, handler)]
    ELSE binder

\* The options of a binder, one after another.
ApplyBinder(binder, opt) ==
    IF opt = Nil THEN binder
    ELSE CASE opt.fn = "WithBinderTagKey" -> IF opt.key = "" THEN binder ELSE [binder EXCEPT !.tagKey = opt.key]
           [] opt.fn = "WithBinderKeyMatcher" -> IF opt.arg = Nil THEN binder ELSE [binder EXCEPT !.matcher = opt.arg]
           [] opt.fn = "WithBinderEnvLookup" -> IF opt.arg = Nil THEN binder ELSE [binder EXCEPT !.env = opt.arg]
           [] opt.fn = "WithBinderTagOption" -> registerTagOption(binder, opt.name, opt.arg)

NextBinderOption(opts, binder, i) == ApplyBinder(binder, opts[i])
BinderOptionLoop == INSTANCE Iteration WITH Round <- NextBinderOption

DefaultBinder ==
    [tagKey |-> DefaultKey, matcher |-> DefaultMatcher, env |-> "OSLookup",
     tagOptions |-> [n \in {} |-> Nil], tagOptionErr |-> ""]

NewStructBinder(opts) == BinderOptionLoop!After(opts, DefaultBinder, Len(opts))

(* Bind, before bindStruct: a target is described by what it is *)
Target == {"pointer to struct", "pointer to other", "nil pointer", "value", "nil"}

BindRefusal(binder, target) ==
    IF binder.tagOptionErr # "" THEN "ErrInvalidTag"
    ELSE CASE target \in {"nil", "value", "nil pointer"} -> "ErrNilTarget"
           [] target = "pointer to other" -> "ErrTargetNotStruct"
           [] target = "pointer to struct" -> ""

(* option.go *)

WithRegistry(reader, registry) == IF registry = Nil THEN reader ELSE [reader EXCEPT !.registry = registry]
WithDecoder(reader, decoder) == IF decoder = Nil THEN reader ELSE [reader EXCEPT !.decoders = Append(@, decoder)]

\* Wrong: a nil expander is ignored like every other nil.
WithExpanderIfGiven(reader, expander) == IF expander = Nil THEN reader ELSE [reader EXCEPT !.expander = expander]

\* A nil expander takes the expander away.
WithExpander(reader, expander) == [reader EXCEPT !.expander = expander]

WithBinder(reader, binder) == IF binder = Nil THEN reader ELSE [reader EXCEPT !.binder = binder]

\* The options of the binder are kept until it is built.
BinderOpt(reader, opt) == [reader EXCEPT !.binderOpts = Append(@, opt)]

WithKeyMatcher(reader, matcher) ==
    IF matcher = Nil THEN reader
    ELSE BinderOpt([reader EXCEPT !.matcher = matcher], [fn |-> "WithBinderKeyMatcher", arg |-> matcher])

WithPrefix(reader, path) == IF path = "" THEN reader ELSE [reader EXCEPT !.prefix = path]

Apply(reader, opt) ==
    IF opt = Nil THEN reader
    ELSE CASE opt.fn = "WithRegistry" -> WithRegistry(reader, opt.arg)
           [] opt.fn = "WithDecoder" -> WithDecoder(reader, opt.arg)
           [] opt.fn = "WithExpander" -> WithExpander(reader, opt.arg)
           [] opt.fn = "WithEnvExpansion" -> WithExpander(reader, opt.arg)
           [] opt.fn = "WithBinder" -> WithBinder(reader, opt.arg)
           [] opt.fn = "WithTagKey" -> BinderOpt(reader, [fn |-> "WithBinderTagKey", key |-> opt.arg])
           [] opt.fn = "WithTagOption" ->
                BinderOpt(reader, [fn |-> "WithBinderTagOption", name |-> opt.name, arg |-> opt.arg])
           [] opt.fn = "WithKeyMatcher" -> WithKeyMatcher(reader, opt.arg)
           [] opt.fn = "WithPrefix" -> WithPrefix(reader, opt.arg)

\* The default binder is built last, when every option of it is known.
NextOption(opts, reader, i) == Apply(reader, opts[i])
OptionLoop == INSTANCE Iteration WITH Round <- NextOption

DefaultReader ==
    [registry |-> DefaultRegistry, decoders |-> <<>>, expander |-> Nil, binder |-> Nil,
     binderOpts |-> <<>>, matcher |-> DefaultMatcher, prefix |-> ""]

New(opts) ==
    LET reader == OptionLoop!After(opts, DefaultReader, Len(opts))
    IN IF reader.binder = Nil THEN [reader EXCEPT !.binder = NewStructBinder(reader.binderOpts)] ELSE reader

(* What a Reader does is told by its settings; the options of a binder it did
   not build are without effect. *)
Settings(reader) == [f \in DOMAIN reader \ {"binderOpts"} |-> reader[f]]

\* The setting an option is about, and whether there can be several of it.
Setting(opt) == IF opt.fn = "WithEnvExpansion" THEN "WithExpander" ELSE opt.fn
IsList(setting) == setting \in {"WithDecoder", "WithTagOption"}

\* An option that leaves its setting alone.
IsIgnored(opt) == opt.fn # "WithExpander" /\ opt.arg \in {Nil, ""}

-----------------------------------------------------------------------------
OptionJob == [kind : {"options"}, opts : OptionLists]
             \cup [kind : {"register"}, opts : Registrations, target : Target]
OptionInit == job \in OptionJob /\ answer = NoAnswer

BuildReader == Begins("options") /\ answer' = [reader |-> New(job.opts)]

RegisterOptions ==
    /\ Begins("register")
    /\ LET binder == NewStructBinder(job.opts)
       IN answer' = [binder |-> binder, refusal |-> BindRefusal(binder, job.target)]

OptionNext == BuildReader \/ RegisterOptions
OptionSpec == OptionInit /\ [][OptionNext]_<<job, answer>>

Swapped(s, i) == [s EXCEPT ![i] = s[i + 1], ![i + 1] = s[i]]
SettingsOf(opts) == Settings(New(opts))

(* The options of a Reader are settings of it: the order of two that are about
   different settings is immaterial, also that of a binder and what a binder is
   told; the last one of a setting counts; and the default binder matches the
   keys of a struct as the Reader matches those of its prefix. *)
OptionsAreSettings ==
    Finished("options") =>
      LET opts == job.opts
          settings == Settings(answer.reader)
          given == {i \in DOMAIN opts : opts[i] # Nil}
      IN /\ \A i \in given : (i + 1 \in given /\ Setting(opts[i]) # Setting(opts[i + 1])) =>
                SettingsOf(Swapped(opts, i)) = settings
         /\ \A i, j \in given :
                (/\ i < j /\ Setting(opts[i]) = Setting(opts[j])
                 /\ ~IsList(Setting(opts[i])) /\ ~IsIgnored(opts[j])) =>
                SettingsOf(RemoveAt(opts, i)) = settings
         /\ (\A i \in given : opts[i].fn # "WithBinder" \/ opts[i].arg = Nil) =>
                answer.reader.binder.matcher = answer.reader.matcher
=============================================================================
