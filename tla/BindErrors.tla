----------------------------- MODULE BindErrors -----------------------------
(***************************************************************************)
(* Goroutines that bind with one StructBinder, and the errors of malformed *)
(* tags they return.                                                       *)
(*                                                                         *)
(* bindStruct asks the tag cache for the tag of each field in turn.  A     *)
(* malformed tag ends the bind: the *Error of the cached entry is handed   *)
(* to fieldError, which fills in its Field when that is empty, and then to *)
(* the caller, who prints it.  The tags that are well formed are all that  *)
(* is left of the fields here; Binder models what a bind does with them.   *)
(*                                                                         *)
(* There is one *Error per malformed tag (TagCache, AnswersShared), so its *)
(* memory is named by the tag.  A Go string is two words, a pointer and a  *)
(* length, and a goroutine reads and writes them one at a time.            *)
(***************************************************************************)
EXTENDS TagCache, Sequences

CONSTANTS
    Struct,     \* the struct types goroutines bind
    Fields,     \* Fields[s]: the fields a bind of s visits, as [path, key]
    NoStruct,
    NoPath      \* the empty string

ASSUME StructAssumption ==
    \A s \in Struct :
      /\ Len(Fields[s]) \in Nat /\ DOMAIN Fields[s] = 1..Len(Fields[s])
      /\ \A i \in DOMAIN Fields[s] : Fields[s][i].key \in Key /\ Fields[s][i].path # NoPath

VARIABLES
    step,    \* step[p]: where goroutine p is in its bind
    target,  \* target[p]: the struct p binds, or bound last
    next,    \* next[p]: the field bindStruct is at
    left,    \* left[p]: the words of Field p has still to write or to read
    Field,   \* Field[k]: the two words of the Field of the error of tag k
    shown    \* shown[p]: the words p read to print the error it returned

bindVars == <<step, target, next, left, Field, shown>>
allVars == <<vars, bindVars>>

Empty == [ptr |-> NoPath, len |-> NoPath]
Words == {"ptr", "len"}

Here(p) == Fields[target[p]][next[p]]

InitBind ==
    /\ Init
    /\ step = [p \in Proc |-> "out"]
    /\ target = [p \in Proc |-> NoStruct]
    /\ next = [p \in Proc |-> 0]
    /\ left = [p \in Proc |-> {}]
    /\ Field = [k \in Key |-> Empty]
    /\ shown = [p \in Proc |-> Empty]

Jump(p, from, to) ==
    /\ step[p] = from
    /\ step' = [step EXCEPT ![p] = to]

Bind(p) ==
    /\ Jump(p, "out", "fields")
    /\ \E s \in Struct : target' = [target EXCEPT ![p] = s]
    /\ next' = [next EXCEPT ![p] = 1]
    /\ shown' = [shown EXCEPT ![p] = Empty]
    /\ UNCHANGED <<vars, left, Field>>

LookupTag(p) ==
    /\ Jump(p, "fields", "tag")
    /\ next[p] <= Len(Fields[target[p]])
    /\ LookupCall(p, Here(p).key)
    /\ UNCHANGED <<target, next, left, Field, shown>>

\* The cache is inside a lookup.
InCache(p) ==
    /\ Lock(p) \/ Progress(p)
    /\ UNCHANGED bindVars

\* Wrong: the error of the lookup is not looked at.
TagTaken(p) ==
    /\ Jump(p, "tag", "fields")
    /\ pc[p] = "idle"
    /\ next' = [next EXCEPT ![p] = @ + 1]
    /\ UNCHANGED <<vars, target, left, Field, shown>>

\* Wrong: a field that is skipped is visited again.
TagFineAgain(p) ==
    /\ Jump(p, "tag", "fields")
    /\ pc[p] = "idle" /\ ~answer[p].bad
    /\ UNCHANGED <<vars, target, next, left, Field, shown>>

TagFine(p) ==
    /\ Jump(p, "tag", "fields")
    /\ pc[p] = "idle" /\ ~answer[p].bad
    /\ next' = [next EXCEPT ![p] = @ + 1]
    /\ UNCHANGED <<vars, target, left, Field, shown>>

\* Every field is filled and the struct is valid: Bind returns nil.
BindSucceeds(p) ==
    /\ Jump(p, "fields", "out")
    /\ next[p] > Len(Fields[target[p]])
    /\ UNCHANGED <<vars, target, next, left, Field, shown>>

(* fieldError(path, err) on the cached error *)

\* Wrong: an error that is an *Error already is returned as it is.
FieldLeftAsItIs(p) ==
    /\ Jump(p, "tag", "print")
    /\ pc[p] = "idle" /\ answer[p].bad
    /\ left' = [left EXCEPT ![p] = Words]
    /\ UNCHANGED <<vars, target, next, Field, shown>>

\* e.Field == "" compares the length.
FieldIsSet(p) ==
    /\ Jump(p, "tag", "print")
    /\ pc[p] = "idle" /\ answer[p].bad
    /\ Field[answer[p].key].len # NoPath
    /\ left' = [left EXCEPT ![p] = Words]
    /\ UNCHANGED <<vars, target, next, Field, shown>>

FieldIsEmpty(p) ==
    /\ Jump(p, "tag", "attach")
    /\ pc[p] = "idle" /\ answer[p].bad
    /\ Field[answer[p].key].len = NoPath
    /\ left' = [left EXCEPT ![p] = Words]
    /\ UNCHANGED <<vars, target, next, Field, shown>>

\* e.Field = path stores the two words, in whichever order.
WriteWord(p) ==
    /\ step[p] = "attach"
    /\ \E w \in left[p] :
         /\ Field' = [Field EXCEPT ![answer[p].key][w] = Here(p).path]
         /\ left' = [left EXCEPT ![p] = @ \ {w}]
    /\ UNCHANGED <<vars, step, target, next, shown>>

Attached(p) ==
    /\ Jump(p, "attach", "print")
    /\ left[p] = {}
    /\ left' = [left EXCEPT ![p] = Words]
    /\ UNCHANGED <<vars, target, next, Field, shown>>

(* The caller prints the error it was given *)

ReadWord(p) ==
    /\ step[p] = "print"
    /\ \E w \in left[p] :
         /\ shown' = [shown EXCEPT ![p][w] = Field[answer[p].key][w]]
         /\ left' = [left EXCEPT ![p] = @ \ {w}]
    /\ UNCHANGED <<vars, step, target, next, Field>>

BindFails(p) ==
    /\ Jump(p, "print", "failed")
    /\ left[p] = {}
    /\ UNCHANGED <<vars, target, next, left, Field, shown>>

\* The caller goes on to its next bind.
Again(p) ==
    /\ Jump(p, "failed", "out")
    /\ UNCHANGED <<vars, target, next, left, Field, shown>>

BindStep(p) ==
    \/ LookupTag(p) \/ TagFine(p) \/ BindSucceeds(p) \/ FieldIsSet(p) \/ FieldIsEmpty(p)
    \/ WriteWord(p) \/ Attached(p) \/ ReadWord(p) \/ BindFails(p) \/ Again(p)

NextBind == \E p \in Proc : Bind(p) \/ InCache(p) \/ BindStep(p)

BindSpec == InitBind /\ [][NextBind]_allVars

BindFairness ==
    \A p \in Proc :
      /\ WF_allVars(BindStep(p))
      /\ WF_allVars(Progress(p) /\ UNCHANGED bindVars)
      /\ SF_allVars(Lock(p) /\ UNCHANGED bindVars)
FairBindSpec == BindSpec /\ BindFairness

-----------------------------------------------------------------------------
(* What must hold *)

\* The paths of the fields that have tag k.
TagPaths(k) ==
    UNION {{Fields[s][i].path : i \in {j \in DOMAIN Fields[s] : Fields[s][j].key = k}} : s \in Struct}

\* Whatever binds do to the Field of one error at the same time (errors.go:183),
\* it only ever holds words of paths at which its tag is written, and a bind
\* that fails prints no error without a path: it filled the Field itself, or
\* saw it filled.  Of the pointer it may be too early: the length is all that
\* is compared with "".
PathsOfTheTag ==
    /\ \A k \in Key, w \in Words : Field[k][w] \in TagPaths(k) \cup {NoPath}
    /\ \A p \in Proc : step[p] = "failed" =>
         /\ shown[p].len \in TagPaths(Here(p).key)
         /\ shown[p].ptr \in TagPaths(Here(p).key) \cup {NoPath}

FirstBad(s) ==
    {i \in DOMAIN Fields[s] : /\ Fields[s][i].key \in Malformed
                              /\ \A j \in 1..(i - 1) : Fields[s][j].key \notin Malformed}

\* A bind reports the first malformed tag of its struct, and only fails for
\* one, whichever goroutine parsed that tag and however the cache got it
\* (the error of a tag is cached with it, tag.go:179).
VerdictIsTheTags ==
    \A p \in Proc :
      /\ step[p] \in {"attach", "print", "failed"} =>
           /\ next[p] \in FirstBad(target[p])
           /\ answer[p] = entries[Here(p).key]
      /\ step[p] = "fields" /\ next[p] > Len(Fields[target[p]]) => FirstBad(target[p]) = {}

\* Every bind ends.
EveryBindEnds == \A p \in Proc : step[p] # "out" ~> step[p] = "out"

\* "Field is the dotted config path of the value that failed" (errors.go:93).
OwnPath ==
    \A p \in Proc : step[p] = "failed" =>
        shown[p] = [ptr |-> Here(p).path, len |-> Here(p).path]

\* "A Reader ... is safe for concurrent use afterwards: it holds no state that
\* Load modifies" (reader.go:18): what a caller prints is a string some bind
\* wrote, never the pointer of one path with the length of another.
NoTornField == \A p \in Proc : step[p] = "failed" => shown[p].ptr = shown[p].len
=============================================================================
