-------------------------- MODULE DecoderRegistry --------------------------
(***************************************************************************)
(* DecoderRegistry: lock-free readers over an immutable registryState that *)
(* writers replace under a mutex.                                          *)
(*                                                                         *)
(* Each goroutine of Proc calls Register, Lookup or Formats over and over. *)
(* One action stands for the code between two accesses to what goroutines  *)
(* share: the mutex "writes" and the atomic pointer "state".               *)
(***************************************************************************)
EXTENDS FormatNames, Sequences

CONSTANTS
    Proc,           \* the goroutines that share the registry
    NoProc,         \* the owner of a free mutex
    Constructions,  \* the argument lists NewRegistry is called with
    LookupNames     \* the format names callers look up

ASSUME ProcAssumption ==
    /\ NoProc \notin Proc
    /\ Constructions \subseteq Seq(Decoder \cup {NoDecoder})
    /\ LookupNames \subseteq Name

VARIABLES
    state,         \* the atomic pointer: the published registryState, or nil
    unregistered,  \* what NewRegistry has still to register
    writes,        \* the owner of the mutex
    pc,            \* pc[p]: where goroutine p is
    call,          \* call[p]: the operation p runs, or ran last
    current,       \* current[p]: the snapshot p loaded
    result         \* result[p]: what the last call of p returned

vars == <<state, unregistered, writes, pc, call, current, result>>

NoCall == [op |-> "none"]
RegisterCalls == {[op |-> "Register", decoder |-> d] : d \in Decoder \cup {NoDecoder}}
LookupCalls == {[op |-> "Lookup", format |-> n] : n \in LookupNames}
FormatsCalls == {[op |-> "Formats"]}

Answer(err, d, names) == [err |-> err, decoder |-> d, formats |-> names]
Nothing == Answer("none", NoDecoder, {})

\* A registryState: decoders by key, and the canonical names.  The sorted
\* slice of names is a set here: its order is a function of its members.
EmptyState == [decoders |-> [k \in {} |-> NoDecoder], formats |-> {}]
NilState == [nil |-> TRUE]

\* Wrong: forgets that the zero value of a registry has no state.
snapshotOfZero(s) == s

\* The zero value of a registry has no state, which reads as an empty one.
snapshot(s) == IF s = NilState THEN EmptyState ELSE s

\* Wrong: only the name of a decoder is checked, not its extensions.
TakenByName(s, d) == Canonical(d) \in DOMAIN s.decoders

Taken(s, d) == \E k \in Keys(d) : k \in DOMAIN s.decoders

\* The copy a registration builds: the old content, every key of d, its name.
Copy(s, d) ==
    [decoders |-> [k \in DOMAIN s.decoders \cup Keys(d) |->
                     IF k \in Keys(d) THEN d ELSE s.decoders[k]],
     formats |-> (s.formats \ {Canonical(d)}) \cup {Canonical(d)}]

\* Wrong: the name is looked up as the caller wrote it.
LookupAnswerAsWritten(s, format) ==
    IF format \in DOMAIN s.decoders
    THEN Answer("none", s.decoders[format], {})
    ELSE Answer("ErrUnsupportedFormat", NoDecoder, s.formats)

\* What Lookup answers from a snapshot; a miss lists the formats it knows.
LookupAnswer(s, format) ==
    LET key == normalizeFormat(format) IN
      IF key \in DOMAIN s.decoders
      THEN Answer("none", s.decoders[key], {})
      ELSE Answer("ErrUnsupportedFormat", NoDecoder, s.formats)

FormatsAnswer(s) == Answer("none", NoDecoder, s.formats)

-----------------------------------------------------------------------------
\* The zero value of the type, or what NewRegistry starts from.
Init ==
    /\ \/ state = NilState /\ unregistered = <<>>
       \/ state = EmptyState /\ unregistered \in Constructions
    /\ writes = NoProc
    /\ pc = [p \in Proc |-> "idle"]
    /\ call = [p \in Proc |-> NoCall]
    /\ current = [p \in Proc |-> EmptyState]
    /\ result = [p \in Proc |-> Nothing]

\* NewRegistry registers its next argument and drops the error.  Nobody else
\* has the registry yet, so the whole of Register is one step.
NewRegistryStep ==
    /\ unregistered # <<>>
    /\ unregistered' = Tail(unregistered)
    /\ LET d == Head(unregistered) IN
         state' = IF Usable(d) /\ ~Taken(snapshot(state), d)
                  THEN Copy(snapshot(state), d) ELSE state
    /\ UNCHANGED <<writes, pc, call, current, result>>

Goto(p, from, to) ==
    /\ pc[p] = from
    /\ pc' = [pc EXCEPT ![p] = to]

Call(p, c, to) ==
    /\ unregistered = <<>>
    /\ Goto(p, "idle", to)
    /\ call' = [call EXCEPT ![p] = c]
    /\ result' = [result EXCEPT ![p] = Nothing]
    /\ UNCHANGED <<state, unregistered, writes, current>>

Load(p) == current' = [current EXCEPT ![p] = snapshot(state)]

(* Register *)

RegisterCall(p) == \E c \in RegisterCalls : Call(p, c, "enter")

\* A nil decoder, or one without a format, is refused before the lock.
RegisterNil(p) ==
    /\ Goto(p, "enter", "return")
    /\ ~Usable(call[p].decoder)
    /\ result' = [result EXCEPT ![p] = Answer("ErrNilDecoder", NoDecoder, {})]
    /\ UNCHANGED <<state, unregistered, writes, call, current>>

\* Wrong: registers without the mutex.
RegisterWithoutLock(p) ==
    /\ Goto(p, "enter", "load")
    /\ Usable(call[p].decoder)
    /\ writes' = p
    /\ UNCHANGED <<state, unregistered, call, current, result>>

RegisterLock(p) ==
    /\ Goto(p, "enter", "load")
    /\ Usable(call[p].decoder)
    /\ writes = NoProc
    /\ writes' = p
    /\ UNCHANGED <<state, unregistered, call, current, result>>

\* Wrong: works from the snapshot of an earlier call when there is one.
RegisterLoadOnce(p) ==
    /\ Goto(p, "load", "check")
    /\ IF current[p] = EmptyState THEN Load(p) ELSE UNCHANGED current
    /\ UNCHANGED <<state, unregistered, writes, call, result>>

RegisterLoad(p) ==
    /\ Goto(p, "load", "check")
    /\ Load(p)
    /\ UNCHANGED <<state, unregistered, writes, call, result>>

\* Wrong: the way out that reports a duplicate does not unlock.
RegisterDuplicateLocked(p) ==
    /\ Goto(p, "check", "return")
    /\ Taken(current[p], call[p].decoder)
    /\ result' = [result EXCEPT ![p] = Answer("ErrDuplicateDecoder", NoDecoder, {})]
    /\ UNCHANGED <<state, unregistered, writes, call, current>>

\* One key that is taken refuses the whole decoder.
RegisterDuplicate(p) ==
    /\ Goto(p, "check", "unlock")
    /\ Taken(current[p], call[p].decoder)
    /\ result' = [result EXCEPT ![p] = Answer("ErrDuplicateDecoder", NoDecoder, {})]
    /\ UNCHANGED <<state, unregistered, writes, call, current>>

RegisterStore(p) ==
    /\ Goto(p, "check", "unlock")
    /\ ~Taken(current[p], call[p].decoder)
    /\ state' = Copy(current[p], call[p].decoder)
    /\ UNCHANGED <<unregistered, writes, call, current, result>>

\* The deferred Unlock runs on both ways out.
RegisterUnlock(p) ==
    /\ Goto(p, "unlock", "return")
    /\ writes' = NoProc
    /\ UNCHANGED <<state, unregistered, call, current, result>>

RegisterReturn(p) ==
    /\ Goto(p, "return", "idle")
    /\ UNCHANGED <<state, unregistered, writes, call, current, result>>

(* Lookup and Formats: one atomic load, then reads of what it returned *)

LookupCall(p) == \E c \in LookupCalls : Call(p, c, "lookup")

LookupLoad(p) ==
    /\ Goto(p, "lookup", "find")
    /\ Load(p)
    /\ UNCHANGED <<state, unregistered, writes, call, result>>

LookupFind(p) ==
    /\ Goto(p, "find", "idle")
    /\ result' = [result EXCEPT ![p] = LookupAnswer(current[p], call[p].format)]
    /\ UNCHANGED <<state, unregistered, writes, call, current>>

FormatsCall(p) == \E c \in FormatsCalls : Call(p, c, "formats")

FormatsLoad(p) ==
    /\ Goto(p, "formats", "copy")
    /\ Load(p)
    /\ UNCHANGED <<state, unregistered, writes, call, result>>

FormatsCopy(p) ==
    /\ Goto(p, "copy", "idle")
    /\ result' = [result EXCEPT ![p] = FormatsAnswer(current[p])]
    /\ UNCHANGED <<state, unregistered, writes, call, current>>

-----------------------------------------------------------------------------
Invoke(p) == RegisterCall(p) \/ LookupCall(p) \/ FormatsCall(p)

Progress(p) ==
    \/ RegisterNil(p) \/ RegisterLoad(p) \/ RegisterDuplicate(p)
    \/ RegisterStore(p) \/ RegisterUnlock(p) \/ RegisterReturn(p)
    \/ LookupLoad(p) \/ LookupFind(p) \/ FormatsLoad(p) \/ FormatsCopy(p)

Next ==
    \/ NewRegistryStep
    \/ \E p \in Proc : Invoke(p) \/ RegisterLock(p) \/ Progress(p)

Spec == Init /\ [][Next]_vars

\* A goroutine that is running keeps running, and sync.Mutex hands the lock to
\* a waiter in the end (its starvation mode), so the lock step is strongly fair.
Fairness == \A p \in Proc : WF_vars(Progress(p)) /\ SF_vars(RegisterLock(p))
FairSpec == Spec /\ Fairness

-----------------------------------------------------------------------------
(* What must hold *)

RegistryState ==
    [decoders : UNION {[K -> Decoder] : K \in SUBSET UNION {Keys(d) : d \in Decoder}},
     formats : SUBSET {Canonical(d) : d \in Decoder}]

Results ==
    [err : {"none", "ErrNilDecoder", "ErrDuplicateDecoder", "ErrUnsupportedFormat"},
     decoder : Decoder \cup {NoDecoder},
     formats : SUBSET {Canonical(d) : d \in Decoder}]

\* The operation a goroutine is running, by the place where it is.
OpAt(loc) ==
    IF loc \in {"enter", "load", "check", "unlock", "return"} THEN RegisterCalls
    ELSE IF loc \in {"lookup", "find"} THEN LookupCalls
    ELSE IF loc \in {"formats", "copy"} THEN FormatsCalls
    ELSE RegisterCalls \cup LookupCalls \cup FormatsCalls \cup {NoCall}

Locations == {"idle", "enter", "load", "check", "unlock", "return",
              "lookup", "find", "formats", "copy"}

\* The shape of the state, and that a goroutine runs what it was called for.
TypeOK ==
    /\ state \in RegistryState \cup {NilState}
    /\ unregistered \in Seq(Decoder \cup {NoDecoder})
    /\ writes \in Proc \cup {NoProc}
    /\ pc \in [Proc -> Locations]
    /\ call \in [Proc -> OpAt("idle")]
    /\ \A p \in Proc : call[p] \in OpAt(pc[p])
    /\ current \in [Proc -> RegistryState]
    /\ result \in [Proc -> Results]

\* A snapshot is whole: it holds all the keys of each of its decoders, nothing
\* under a key its decoder does not claim, and lists exactly their names.
Whole(s) ==
    /\ \A k \in DOMAIN s.decoders :
         /\ k \in Keys(s.decoders[k])
         /\ \A j \in Keys(s.decoders[k]) :
              j \in DOMAIN s.decoders /\ s.decoders[j] = s.decoders[k]
    /\ s.formats = {Canonical(s.decoders[k]) : k \in DOMAIN s.decoders}

\* Registration is atomic (decoder_registry.go:85): neither the published state
\* nor a snapshot some reader still works from shows half of a registration.
SnapshotsWhole ==
    /\ Whole(snapshot(state))
    /\ \A p \in Proc : Whole(current[p])

\* No lost update: whatever goroutines do at once, a key that was ever claimed
\* stays with its decoder for good (Register never replaces, :81).
NothingLost ==
    [][\A k \in DOMAIN snapshot(state).decoders :
         /\ k \in DOMAIN snapshot(state)'.decoders
         /\ snapshot(state)'.decoders[k] = snapshot(state).decoders[k]]_vars

\* The answer r of a call c is true of the content s.
TrueOf(s, c, r) ==
    /\ c \in RegisterCalls =>
         /\ r.err = "none" =>
              \A k \in Keys(c.decoder) : k \in DOMAIN s.decoders /\ s.decoders[k] = c.decoder
         /\ r.err = "ErrDuplicateDecoder" => Taken(s, c.decoder)
    /\ c \in LookupCalls /\ r.err = "none" =>
         LookupAnswer(s, c.format) = r
    /\ r.formats \subseteq s.formats

\* An answer a caller was given stays true however many registrations follow:
\* an accepted decoder is there under all its keys, a duplicate still conflicts,
\* a decoder that was found is still the one its name finds, and the formats
\* that were listed are still there.
AnswersStandForever ==
    \A p \in Proc : pc[p] \in {"return", "idle"} => TrueOf(snapshot(state), call[p], result[p])

\* Every call returns: no goroutine waits for ever for the mutex.
EveryCallReturns == \A p \in Proc : pc[p] # "idle" ~> pc[p] = "idle"

\* NewRegistry "returns a registry holding exactly the given decoders"
\* (decoder_registry.go:55): each usable decoder it is given ends up in it.
NewRegistryHoldsGiven ==
    [][unregistered # <<>> =>
         LET d == Head(unregistered) IN
         Usable(d) =>
           \A k \in Keys(d) :
             /\ k \in DOMAIN snapshot(state)'.decoders
             /\ snapshot(state)'.decoders[k] = d]_vars

-----------------------------------------------------------------------------
(***************************************************************************)
(* The registry is a linearizable map.  A reader takes effect when it      *)
(* loads the pointer, an accepted registration when it stores it, and a    *)
(* refused one when it compares its keys with what it loaded.              *)
(***************************************************************************)
absStatus ==
    [p \in Proc |->
       CASE pc[p] = "idle" -> "idle"
         [] pc[p] \in {"unlock", "return", "find", "copy"} -> "answered"
         [] OTHER -> "pending"]

absResult ==
    [p \in Proc |->
       CASE pc[p] = "find" -> LookupAnswer(current[p], call[p].format)
         [] pc[p] = "copy" -> FormatsAnswer(current[p])
         [] OTHER -> result[p]]

Atomic == INSTANCE AtomicRegistry
            WITH held <- snapshot(state).decoders, status <- absStatus, result <- absResult

\* Every behaviour of the code is a behaviour of the atomic registry.
ImplementsAtomic == Atomic!Spec
=============================================================================
