--------------------------- MODULE AtomicRegistry ---------------------------
(***************************************************************************)
(* What a registry promises: a map from keys to decoders on which every    *)
(* call takes effect at one instant between its invocation and its return. *)
(* A registration claims all the keys of a decoder or none of them.        *)
(***************************************************************************)
EXTENDS FormatNames, Sequences

CONSTANTS Proc, Constructions, LookupNames

VARIABLES
    held,          \* the partial map from key to decoder
    unregistered,  \* what NewRegistry has still to register
    status,        \* status[p]: "idle", "pending" or "answered"
    call,          \* call[p]: the last call of p
    result         \* result[p]: its answer, once there is one

vars == <<held, unregistered, status, call, result>>

NoCall == [op |-> "none"]
Calls ==
    {[op |-> "Register", decoder |-> d] : d \in Decoder \cup {NoDecoder}}
    \cup {[op |-> "Lookup", format |-> n] : n \in LookupNames}
    \cup {[op |-> "Formats"]}

\* An answer: the sentinel error, the decoder found, the format names listed.
Answer(err, d, names) == [err |-> err, decoder |-> d, formats |-> names]
Nothing == Answer("none", NoDecoder, {})

Listed == {Canonical(held[k]) : k \in DOMAIN held}
Taken(d) == Keys(d) \cap DOMAIN held # {}
With(d) == [k \in DOMAIN held \cup Keys(d) |-> IF k \in Keys(d) THEN d ELSE held[k]]

Init ==
    /\ held = [k \in {} |-> NoDecoder]
    /\ unregistered \in Constructions \cup {<<>>}
    /\ status = [p \in Proc |-> "idle"]
    /\ call = [p \in Proc |-> NoCall]
    /\ result = [p \in Proc |-> Nothing]

\* NewRegistry registers its arguments before anybody else sees the registry.
Construct ==
    /\ unregistered # <<>>
    /\ unregistered' = Tail(unregistered)
    /\ LET d == Head(unregistered) IN
         held' = IF Usable(d) /\ ~Taken(d) THEN With(d) ELSE held
    /\ UNCHANGED <<status, call, result>>

Invoke(p) ==
    /\ unregistered = <<>>
    /\ status[p] = "idle"
    /\ \E c \in Calls : call' = [call EXCEPT ![p] = c]
    /\ status' = [status EXCEPT ![p] = "pending"]
    /\ result' = [result EXCEPT ![p] = Nothing]
    /\ UNCHANGED <<held, unregistered>>

\* The call of p takes effect with answer r.
Effect(p, r) ==
    /\ status[p] = "pending"
    /\ status' = [status EXCEPT ![p] = "answered"]
    /\ result' = [result EXCEPT ![p] = r]
    /\ UNCHANGED <<unregistered, call>>

Register(p) ==
    /\ call[p].op = "Register"
    /\ LET d == call[p].decoder IN
         \/ /\ ~Usable(d)
            /\ Effect(p, Answer("ErrNilDecoder", NoDecoder, {}))
            /\ UNCHANGED held
         \/ /\ Usable(d) /\ Taken(d)
            /\ Effect(p, Answer("ErrDuplicateDecoder", NoDecoder, {}))
            /\ UNCHANGED held
         \/ /\ Usable(d) /\ ~Taken(d)
            /\ Effect(p, Nothing)
            /\ held' = With(d)

Lookup(p) ==
    /\ call[p].op = "Lookup"
    /\ LET key == normalizeFormat(call[p].format) IN
         \/ key \in DOMAIN held /\ Effect(p, Answer("none", held[key], {}))
         \/ key \notin DOMAIN held /\ Effect(p, Answer("ErrUnsupportedFormat", NoDecoder, Listed))
    /\ UNCHANGED held

Formats(p) ==
    /\ call[p].op = "Formats"
    /\ Effect(p, Answer("none", NoDecoder, Listed))
    /\ UNCHANGED held

Return(p) ==
    /\ status[p] = "answered"
    /\ status' = [status EXCEPT ![p] = "idle"]
    /\ UNCHANGED <<held, unregistered, call, result>>

Step(p) == Register(p) \/ Lookup(p) \/ Formats(p) \/ Return(p)

Next == Construct \/ \E p \in Proc : Invoke(p) \/ Step(p)

Spec == Init /\ [][Next]_vars
=============================================================================
