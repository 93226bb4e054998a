---------------------------- MODULE ErrorChains ----------------------------
(***************************************************************************)
(* errors.go: what becomes of an error on its way out of a load, and what  *)
(* errors.Is and errors.As find in it.                                     *)
(*                                                                         *)
(* An error is a record:                                                   *)
(*   [leaf |-> name]                       a sentinel, of readin or of the *)
(*                                         application,                    *)
(*   [kind |-> err, field |-> path, cause |-> {} or {err}]  an *Error,     *)
(*   [wraps |-> err]                       fmt.Errorf with %w,             *)
(*   [joins |-> <<err, ...>>]              errors.Join.                    *)
(*                                                                         *)
(* What recurs through a chain is defined for one error, and asks a        *)
(* constant Inner... about those it wraps, as Documents does for nodes.    *)
(***************************************************************************)
EXTENDS Jobs, Integers, Sequences

CONSTANTS
    Failures,    \* the errors of a load, and the paths they pass on their way out
    InnerReaches(_, _), InnerIsError(_), InnerFieldOf(_), InnerSetField(_, _), InnerUnwrap(_)

ErrInvalidValue == [leaf |-> "ErrInvalidValue"]
NoPath == ""

newError(sentinel) == [kind |-> sentinel, field |-> NoPath, cause |-> {}]

\* errors.Is(err, the sentinel): some error that err wraps is the sentinel.
Reaches(err, sentinel) ==
    \/ err = sentinel
    \/ "kind" \in DOMAIN err /\ \E e \in {err.kind} \cup err.cause : InnerReaches(e, sentinel)
    \/ "wraps" \in DOMAIN err /\ InnerReaches(err.wraps, sentinel)
    \/ "joins" \in DOMAIN err /\ \E i \in DOMAIN err.joins : InnerReaches(err.joins[i], sentinel)

\* errors.As(err, &e): an *Error is in the chain, and the first one is e.
IsError(err) ==
    \/ "kind" \in DOMAIN err
    \/ "wraps" \in DOMAIN err /\ InnerIsError(err.wraps)
    \/ "joins" \in DOMAIN err /\ \E i \in DOMAIN err.joins : InnerIsError(err.joins[i])

FirstOf(joins) ==
    CHOOSE i \in DOMAIN joins : InnerIsError(joins[i]) /\ \A j \in DOMAIN joins : j < i => ~InnerIsError(joins[j])

\* The Field of that *Error, and the chain with a path written into it.
FieldOf(err) ==
    CASE "kind" \in DOMAIN err -> err.field
      [] "wraps" \in DOMAIN err -> InnerFieldOf(err.wraps)
      [] "joins" \in DOMAIN err -> InnerFieldOf(err.joins[FirstOf(err.joins)])
SetField(err, path) ==
    CASE "kind" \in DOMAIN err -> [err EXCEPT !.field = path]
      [] "wraps" \in DOMAIN err -> [err EXCEPT !.wraps = InnerSetField(@, path)]
      [] "joins" \in DOMAIN err -> [err EXCEPT !.joins[FirstOf(err.joins)] = InnerSetField(@, path)]

\* Wrong: the error of the application is not kept.
wrapInvalidValueBare(err) == IF IsError(err) THEN err ELSE newError(ErrInvalidValue)

\* An error of a Validate or of a handler becomes an invalid value, unless its
\* author chose a kind.
wrapInvalidValue(err) == IF IsError(err) THEN err ELSE [newError(ErrInvalidValue) EXCEPT !.cause = {err}]

\* The error at the end of the first links of a chain.
unwrapSentinel(err) ==
    CASE "kind" \in DOMAIN err -> InnerUnwrap(err.kind)
      [] "wraps" \in DOMAIN err -> InnerUnwrap(err.wraps)
      [] "joins" \in DOMAIN err -> InnerUnwrap(err.joins[1])
      [] OTHER -> err

\* The path goes into the *Error that is there already, if it has none.
fieldError(path, err) ==
    IF path = NoPath THEN err
    ELSE IF ~IsError(err) THEN [newError(unwrapSentinel(err)) EXCEPT !.field = path]
    ELSE IF FieldOf(err) = NoPath THEN SetField(err, path)
    ELSE err

-----------------------------------------------------------------------------
(* An error is reported where a Validate or a handler returned it ("own"), or
   where a conversion failed, and passes through the levels of the target on
   its way out; each may add its path. *)

IsLeaf(err) == DOMAIN err = {"leaf"}

\* A conversion fails with a sentinel, with one that is wrapped once, or with
\* newError.
OfConversion(err) ==
    IsLeaf(err) \/ (DOMAIN err = {"wraps"} /\ IsLeaf(err.wraps)) \/ (IsLeaf(err.kind) /\ err = newError(err.kind))

ASSUME FailuresAssumption ==
    \A f \in Failures : f.own \in BOOLEAN /\ f.paths \in Seq(STRING) \ {<<>>} /\ (~f.own => OfConversion(f.err))

ErrorJob == [kind : {"error"}, failure : Failures]
ErrorInit == job \in ErrorJob /\ answer = NoAnswer

Report ==
    /\ Begins("error")
    /\ LET f == job.failure IN
       answer' = [level |-> 1, err |-> fieldError(f.paths[1], IF f.own THEN wrapInvalidValue(f.err) ELSE f.err)]

PassOn ==
    /\ Finished("error") /\ answer.level < Len(job.failure.paths)
    /\ answer' = [level |-> answer.level + 1, err |-> fieldError(job.failure.paths[answer.level + 1], answer.err)]
    /\ UNCHANGED job

ErrorNext == Report \/ PassOn
ErrorSpec == ErrorInit /\ [][ErrorNext]_<<job, answer>>

Sentinels == {[leaf |-> l] : l \in {"ErrInvalidValue", "ErrMissingField", "ErrOfTheApplication"}}

(* An error of the application leads the caller of a load back to it: whatever
   errors.Is found in it, it finds in what the load returns; it is an invalid
   value unless its author chose a kind; and it carries the path nearest to the
   failure.  Of an error of a conversion the sentinel at its end is found. *)
ErrorsLeadBack ==
    Finished("error") =>
      LET f == job.failure
          named == {i \in 1..answer.level : f.paths[i] # NoPath}
          HasPath(path) == IsError(answer.err) /\ FieldOf(answer.err) = path
      IN /\ \A s \in Sentinels : Reaches(f.err, s) => Reaches(answer.err, s)
         /\ f.own /\ ~IsError(f.err) => Reaches(answer.err, ErrInvalidValue)
         /\ IF IsError(f.err) /\ FieldOf(f.err) # NoPath THEN HasPath(FieldOf(f.err))
            ELSE IF named = {} THEN f.own => HasPath(NoPath)
            ELSE \A i \in named : (\A j \in named : i <= j) => HasPath(f.paths[i])
=============================================================================
