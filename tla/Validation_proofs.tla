------------------------- MODULE Validation_proofs -------------------------
(***************************************************************************)
(* Which structs a load that succeeds has validated, and when: what        *)
(* StructBinder_proofs leaves of the properties of StructBinder.  The      *)
(* calls of Validate that a bind logs are compared with the structs that   *)
(* have one inside the value it leaves (Ruled), and with those of them     *)
(* that it filled (Filled), by induction on the types.                     *)
(***************************************************************************)
EXTENDS StructBinder_proofs

\* InnerRuled is Ruled, and InnerFilled is Filled (see Recursion).
RuledRecurs == \A t \in Types : \A v, path : InnerRuled(t, v, path) = Ruled(t, v, path)
FilledRecurs ==
    \A t \in Types :
      /\ \A v, src, path, e : InnerFilled(t, v, src, path, e) = Filled(t, v, src, path, e)
      /\ \A v, node, path, e : InnerFilledStruct(t, v, node, path, e) = FilledStruct(t, v, node, path, e)

-----------------------------------------------------------------------------
(* Sequences of any elements *)

Members(s) == {s[i] : i \in DOMAIN s}
IsSequence(s) == s \in Seq(Members(s))

LEMMA SequenceOf ==
    ASSUME NEW S, NEW s \in Seq(S)
    PROVE  IsSequence(s)
<1>1. Len(s) \in Nat /\ DOMAIN s = 1..Len(s) /\ s = [i \in 1..Len(s) |-> s[i]]
  OBVIOUS
<1>2. \A i \in 1..Len(s) : s[i] \in Members(s)
  BY <1>1 DEF Members
<1>3. s \in Seq(Members(s))
  BY <1>1, <1>2
<1> QED
  BY <1>3 DEF IsSequence

LEMMA EmptySequence == IsSequence(<<>>) /\ Members(<<>>) = {}
BY DEF IsSequence, Members

LEMMA SequenceFacts ==
    ASSUME NEW s, IsSequence(s)
    PROVE  Len(s) \in Nat /\ DOMAIN s = 1..Len(s)
BY DEF IsSequence

LEMMA Joined ==
    ASSUME NEW s, IsSequence(s), NEW u, IsSequence(u)
    PROVE  /\ IsSequence(s \o u)
           /\ Members(s \o u) = Members(s) \cup Members(u)
           /\ Len(s \o u) = Len(s) + Len(u)
           /\ \A i \in 1..(Len(s) + Len(u)) : (s \o u)[i] = IF i <= Len(s) THEN s[i] ELSE u[i - Len(s)]
<1> DEFINE all == Members(s) \cup Members(u)
           w == s \o u
<1>1. s \in Seq(all) /\ u \in Seq(all)
  BY DEF IsSequence
<1> HIDE DEF all
<1>2. /\ w \in Seq(all) /\ Len(w) = Len(s) + Len(u) /\ DOMAIN w = 1..(Len(s) + Len(u))
      /\ \A i \in 1..(Len(s) + Len(u)) : w[i] = IF i <= Len(s) THEN s[i] ELSE u[i - Len(s)]
  BY <1>1
<1>3. IsSequence(w)
  BY <1>2, SequenceOf
<1> HIDE DEF w
<1>4. Len(s) \in Nat /\ Len(u) \in Nat /\ DOMAIN s = 1..Len(s) /\ DOMAIN u = 1..Len(u)
  BY <1>1
<1>5. ASSUME NEW x \in Members(w) PROVE x \in Members(s) \cup Members(u)
  <2>1. PICK i \in 1..(Len(s) + Len(u)) : x = w[i]
    BY <1>2 DEF Members
  <2>2. CASE i <= Len(s)
    BY <1>2, <1>4, <2>1, <2>2 DEF Members
  <2>3. CASE i > Len(s)
    <3>1. i - Len(s) \in 1..Len(u)
      BY <1>4, <2>3
    <3> QED  BY <1>2, <1>4, <2>1, <2>3, <3>1 DEF Members
  <2> QED  BY <1>4, <2>2, <2>3
<1>6. ASSUME NEW x \in Members(s) PROVE x \in Members(w)
  <2>1. PICK i \in 1..Len(s) : x = s[i]
    BY <1>4 DEF Members
  <2>2. i \in 1..(Len(s) + Len(u)) /\ i <= Len(s)
    BY <1>4
  <2> QED  BY <1>2, <2>1, <2>2 DEF Members
<1>7. ASSUME NEW x \in Members(u) PROVE x \in Members(w)
  <2>1. PICK i \in 1..Len(u) : x = u[i]
    BY <1>4 DEF Members
  <2>2. i + Len(s) \in 1..(Len(s) + Len(u)) /\ i + Len(s) > Len(s) /\ (i + Len(s)) - Len(s) = i
    BY <1>4
  <2> QED  BY <1>2, <1>4, <2>1, <2>2 DEF Members
<1>8. Members(w) = Members(s) \cup Members(u)
  BY <1>5, <1>6, <1>7
<1> QED
  BY <1>2, <1>3, <1>8 DEF w

LEMMA Appended ==
    ASSUME NEW s, IsSequence(s), NEW x
    PROVE  /\ IsSequence(Append(s, x))
           /\ Members(Append(s, x)) = Members(s) \cup {x}
           /\ Len(Append(s, x)) = Len(s) + 1
           /\ \A i \in 1..Len(s) : Append(s, x)[i] = s[i]
           /\ Append(s, x)[Len(s) + 1] = x
<1> DEFINE all == Members(s) \cup {x}
           w == Append(s, x)
<1>1. s \in Seq(all) /\ x \in all
  BY DEF IsSequence
<1> HIDE DEF all
<1>2. /\ w \in Seq(all) /\ Len(w) = Len(s) + 1 /\ DOMAIN w = 1..(Len(s) + 1)
      /\ \A i \in 1..Len(s) : w[i] = s[i]
      /\ w[Len(s) + 1] = x
  BY <1>1
<1>3. IsSequence(w)
  BY <1>2, SequenceOf
<1> HIDE DEF w
<1>4. Len(s) \in Nat /\ DOMAIN s = 1..Len(s)
  BY <1>1
<1>5. DOMAIN w = DOMAIN s \cup {Len(s) + 1}
  BY <1>2, <1>4
<1>6. Members(w) = Members(s) \cup {x}
  BY <1>2, <1>4, <1>5 DEF Members
<1> QED
  BY <1>2, <1>3, <1>6 DEF w

-----------------------------------------------------------------------------
(* Logs *)

\* The log has p in one piece.
Contains(log, p) ==
    \E m \in Nat : m + Len(p) <= Len(log) /\ \A j \in 1..Len(p) : log[m + j] = p[j]

LEMMA ContainsParts ==
    ASSUME NEW s, IsSequence(s), NEW u, IsSequence(u)
    PROVE  /\ Contains(s \o u, u)
           /\ \A p : IsSequence(p) /\ Contains(s, p) => Contains(s \o u, p)
<1> DEFINE w == s \o u
<1>1. /\ Len(w) = Len(s) + Len(u) /\ Len(s) \in Nat /\ Len(u) \in Nat
      /\ \A i \in 1..(Len(s) + Len(u)) : w[i] = IF i <= Len(s) THEN s[i] ELSE u[i - Len(s)]
  BY Joined, SequenceFacts
<1> HIDE DEF w
<1>2. Contains(w, u)
  <2>1. \A j \in 1..Len(u) : w[Len(s) + j] = u[j]
    <3> TAKE j \in 1..Len(u)
    <3>1. Len(s) + j \in 1..(Len(s) + Len(u)) /\ ~(Len(s) + j <= Len(s)) /\ (Len(s) + j) - Len(s) = j
      BY <1>1
    <3> QED  BY <1>1, <3>1
  <2> QED  BY <1>1, <2>1 DEF Contains
<1>3. ASSUME NEW p, IsSequence(p), Contains(s, p) PROVE Contains(w, p)
  <2>1. PICK m \in Nat : m + Len(p) <= Len(s) /\ \A j \in 1..Len(p) : s[m + j] = p[j]
    BY <1>3 DEF Contains
  <2>2. Len(p) \in Nat
    BY <1>3, SequenceFacts
  <2>3. \A j \in 1..Len(p) : w[m + j] = p[j]
    <3> TAKE j \in 1..Len(p)
    <3>1. m + j \in 1..(Len(s) + Len(u)) /\ m + j <= Len(s)
      BY <1>1, <2>1, <2>2
    <3> QED  BY <1>1, <2>1, <3>1
  <2> QED  BY <1>1, <2>1, <2>2, <2>3 DEF Contains
<1> QED
  BY <1>2, <1>3 DEF w

\* The log has the calls that are due, each after those inside it.
Covers(log, S) == \A s \in S : CalledInTurn(s, log)

LEMMA ContainsCovers ==
    ASSUME NEW log, IsSequence(log), NEW p, IsSequence(p), Contains(log, p), NEW S, Covers(p, S)
    PROVE  Covers(log, S)
<1>1. Len(log) \in Nat /\ DOMAIN log = 1..Len(log) /\ Len(p) \in Nat /\ DOMAIN p = 1..Len(p)
  BY SequenceFacts
<1>2. PICK m \in Nat : m + Len(p) <= Len(log) /\ \A j \in 1..Len(p) : log[m + j] = p[j]
  BY DEF Contains
<1> SUFFICES ASSUME NEW s \in S PROVE CalledInTurn(s, log)
  BY DEF Covers
<1>3. PICK i \in 1..Len(p) : p[i] = s.call /\ \A c \in s.inside : \E j \in 1..(i - 1) : p[j] = c
  BY <1>1 DEF Covers, CalledInTurn
<1>4. m + i \in DOMAIN log /\ log[m + i] = s.call
  BY <1>1, <1>2, <1>3
<1>5. ASSUME NEW c \in s.inside PROVE \E j \in 1..((m + i) - 1) : log[j] = c
  <2>1. PICK j \in 1..(i - 1) : p[j] = c
    BY <1>3
  <2>2. j \in 1..Len(p) /\ m + j \in 1..((m + i) - 1)
    BY <1>1, <1>3
  <2>3. log[m + j] = c
    BY <1>2, <2>1, <2>2
  <2> QED  BY <2>2, <2>3
<1> QED
  BY <1>4, <1>5 DEF CalledInTurn

LEMMA CoversNothing == \A log : Covers(log, {})
BY DEF Covers

\* The call that is appended comes after those in the log.
LEMMA CoversLast ==
    ASSUME NEW log, IsSequence(log), NEW S, Covers(log, S), NEW x
    PROVE  Covers(Append(log, x), S \cup {[call |-> x, inside |-> {s.call : s \in S}]})
<1> DEFINE w == Append(log, x)
           n == Len(log)
           last == [call |-> x, inside |-> {s.call : s \in S}]
<1>1. /\ n \in Nat /\ DOMAIN log = 1..n /\ IsSequence(w) /\ Len(w) = n + 1
      /\ \A i \in 1..n : w[i] = log[i]
      /\ w[n + 1] = x
  BY Appended, SequenceFacts
<1>2. DOMAIN w = 1..(n + 1)
  BY <1>1, SequenceFacts
<1> HIDE DEF w, n
<1>3. Covers(w, S)
  <2>1. Contains(w, log)
    <3>1. 0 \in Nat /\ 0 + n <= n + 1 /\ \A j \in 1..n : w[0 + j] = log[j]
      BY <1>1
    <3> QED  BY <1>1, <3>1 DEF Contains, n
  <2> QED  BY <1>1, <2>1, ContainsCovers
<1>4. CalledInTurn(last, w)
  <2>1. ASSUME NEW c \in last.inside PROVE \E j \in 1..((n + 1) - 1) : w[j] = c
    <3>1. PICK s \in S : c = s.call
      BY <2>1
    <3>2. PICK j \in DOMAIN log : log[j] = s.call
      BY <3>1 DEF Covers, CalledInTurn
    <3> QED  BY <1>1, <3>1, <3>2
  <2>2. n + 1 \in DOMAIN w /\ w[n + 1] = last.call
    BY <1>1, <1>2
  <2> QED  BY <2>1, <2>2 DEF CalledInTurn
<1> QED
  BY <1>3, <1>4 DEF Covers, w

-----------------------------------------------------------------------------
(* The structs with a Validate inside a value *)

LEMMA NothingRuled ==
    ASSUME NEW t, NEW path
    PROVE  /\ t.kind \notin {"array", "struct"} => Ruled(t, Nil, path) = {}
           /\ t.kind \in {"string", "int", "bool", "any"} => \A v : Ruled(t, v, path) = {}
<1>1. t.kind \notin {"array", "struct"} => Ruled(t, Nil, path) = {}
  BY DEF Ruled
<1>2. ASSUME t.kind \in {"string", "int", "bool", "any"}, NEW v, v # Nil PROVE Ruled(t, v, path) = {}
  BY <1>2 DEF Ruled
<1> QED
  BY <1>1, <1>2

LEMMA RuledBehind ==
    ASSUME Recursion, RuledRecurs, NEW t \in Types, t.kind = "pointer", NEW w, NEW path
    PROVE  Ruled(t, [ref |-> w], path) = Ruled(t.elem, w, path)
<1>1. [ref |-> w] # Nil /\ [ref |-> w].ref = w
  BY DEF Nil
<1>2. t.elem \in Types
  BY Elements DEF Containers
<1> DEFINE v == [ref |-> w]
<1>3. v # Nil /\ v.ref = w
  BY <1>1
<1> HIDE DEF v
<1>4. Ruled(t, v, path) = InnerRuled(t.elem, v.ref, path)
  BY <1>3 DEF Ruled
<1>5. Ruled(t, v, path) = Ruled(t.elem, w, path)
  BY <1>2, <1>3, <1>4 DEF Recursion, RuledRecurs
<1> QED
  BY <1>5 DEF v

\* The structs inside the items of a slice or an array, and the entries of a map.
RuledItem(t, items, path, i) == Ruled(t.elem, items[i], Append(path, ToString(i - 1)))
RuledInItems(t, items, path) == UNION {RuledItem(t, items, path, i) : i \in DOMAIN items}
RuledEntry(t, map, path, k) == Ruled(t.elem, map[k], Append(path, k))
RuledInEntries(t, map, path) == UNION {RuledEntry(t, map, path, k) : k \in DOMAIN map}

LEMMA RuledItems ==
    ASSUME Recursion, RuledRecurs, NEW t \in Types, NEW items, NEW path
    PROVE  /\ t.kind = "slice" => Ruled(t, [slice |-> items], path) = RuledInItems(t, items, path)
           /\ t.kind = "array" => Ruled(t, [array |-> items], path) = RuledInItems(t, items, path)
           /\ t.kind = "map" => Ruled(t, [map |-> items], path) = RuledInEntries(t, items, path)
<1>1. t.kind \in {"slice", "array", "map"} => t.elem \in Types
  BY Elements DEF Containers
<1>2. ASSUME t.kind = "slice"
      PROVE  Ruled(t, [slice |-> items], path) = RuledInItems(t, items, path)
  <2> DEFINE v == [slice |-> items]
  <2>1. v # Nil /\ v.slice = items
    BY DEF Nil
  <2> HIDE DEF v
  <2>2. Ruled(t, v, path)
          = UNION {InnerRuled(t.elem, v.slice[i], Append(path, ToString(i - 1))) : i \in DOMAIN v.slice}
    BY <1>2, <2>1 DEF Ruled
  <2>3. \A w, p : InnerRuled(t.elem, w, p) = Ruled(t.elem, w, p)
    BY <1>1, <1>2 DEF Recursion, RuledRecurs
  <2> QED  BY <2>1, <2>2, <2>3 DEF v, RuledInItems, RuledItem
<1>3. ASSUME t.kind = "array"
      PROVE  Ruled(t, [array |-> items], path) = RuledInItems(t, items, path)
  <2> DEFINE v == [array |-> items]
  <2>1. v # Nil /\ v.array = items
    BY DEF Nil
  <2> HIDE DEF v
  <2>2. Ruled(t, v, path)
          = UNION {InnerRuled(t.elem, v.array[i], Append(path, ToString(i - 1))) : i \in DOMAIN v.array}
    BY <1>3, <2>1 DEF Ruled
  <2>3. \A w, p : InnerRuled(t.elem, w, p) = Ruled(t.elem, w, p)
    BY <1>1, <1>3 DEF Recursion, RuledRecurs
  <2> QED  BY <2>1, <2>2, <2>3 DEF v, RuledInItems, RuledItem
<1>4. ASSUME t.kind = "map"
      PROVE  Ruled(t, [map |-> items], path) = RuledInEntries(t, items, path)
  <2> DEFINE v == [map |-> items]
  <2>1. v # Nil /\ v.map = items
    BY DEF Nil
  <2> HIDE DEF v
  <2>2. Ruled(t, v, path) = UNION {InnerRuled(t.elem, v.map[k], Append(path, k)) : k \in DOMAIN v.map}
    BY <1>4, <2>1 DEF Ruled
  <2>3. \A w, p : InnerRuled(t.elem, w, p) = Ruled(t.elem, w, p)
    BY <1>1, <1>4 DEF Recursion, RuledRecurs
  <2> QED  BY <2>1, <2>2, <2>3 DEF v, RuledInEntries, RuledEntry
<1> QED
  BY <1>2, <1>3, <1>4

\* Where a field of a struct at path is.
FieldPath(f, path) == IF Embedded(f) THEN path ELSE Append(path, Key(f))

\* What Validate is handed, of a struct at path.
Call(t, v, path) == [path |-> path, rule |-> t.rule, seen |-> v]

\* The structs inside one field.
RuledField(t, v, path, i) ==
    LET f == t.fields[i] IN
    IF Skipped(f) THEN {} ELSE Ruled(f.type, v.struct[f.name], FieldPath(f, path))

LEMMA RuledFields ==
    ASSUME Recursion, RuledRecurs, NEW t \in Types, t.kind = "struct", NEW v, HasType(v, t), NEW path
    PROVE  Ruled(t, v, path) = (IF Has(t, "rule") THEN {Call(t, v, path)} ELSE {})
                                 \cup UNION {RuledField(t, v, path, i) : i \in DOMAIN t.fields}
<1>1. v # Nil
  BY DEF HasType, Nil, Is, Has
<1>2. \A i \in DOMAIN t.fields : \A w, p : InnerRuled(t.fields[i].type, w, p) = Ruled(t.fields[i].type, w, p)
  BY FieldsOfTypes DEF Recursion, RuledRecurs
<1> DEFINE inner(i) ==
      LET f == t.fields[i] IN
      IF Skipped(f) THEN {}
      ELSE InnerRuled(f.type, v.struct[f.name], IF Embedded(f) THEN path ELSE Append(path, Key(f)))
<1>3. \A i \in DOMAIN t.fields : inner(i) = RuledField(t, v, path, i)
  BY <1>2 DEF RuledField, FieldPath
<1>4. Ruled(t, v, path) = (IF Has(t, "rule") THEN {[path |-> path, rule |-> t.rule, seen |-> v]} ELSE {})
                            \cup UNION {inner(i) : i \in DOMAIN t.fields}
  BY <1>1 DEF Ruled
<1> HIDE DEF inner
<1>5. UNION {inner(i) : i \in DOMAIN t.fields} = UNION {RuledField(t, v, path, i) : i \in DOMAIN t.fields}
  BY <1>3
<1> QED
  BY <1>4, <1>5 DEF Call

-----------------------------------------------------------------------------
(* The structs with a Validate that a bind fills *)

LEMMA FilledBehind ==
    ASSUME FilledRecurs, NEW t \in Types, t.kind = "pointer", NEW w, NEW src, NEW path, NEW e
    PROVE  Filled(t, [ref |-> w], src, path, e) \in {{}, Filled(t.elem, w, src, path, e)}
<1> DEFINE v == [ref |-> w]
<1>1. t.elem \in Types /\ v.ref = w
  BY Elements DEF Containers
<1>2. InnerFilled(t.elem, w, src, path, e) = Filled(t.elem, w, src, path, e)
  BY <1>1 DEF FilledRecurs
<1> HIDE DEF v
<1>3. CASE src = Null \/ Has(t, "hook")
  BY <1>3 DEF Filled, v
<1>4. CASE ~(src = Null \/ Has(t, "hook"))
  <2>1. Filled(t, v, src, path, e) = InnerFilled(t.elem, v.ref, src, path, e)
    BY <1>4 DEF Filled
  <2> QED  BY <1>1, <1>2, <2>1 DEF v
<1> QED
  BY <1>3, <1>4

\* The structs filled inside an item of a list, and an entry of a map.
FilledItem(t, items, nodes, path, e, i) == Filled(t.elem, items[i], nodes[i], Append(path, ToString(i - 1)), e)
FilledItems(t, items, nodes, path, e) == UNION {FilledItem(t, items, nodes, path, e, i) : i \in DOMAIN nodes}
FilledEntry(t, map, object, path, e, k) == Filled(t.elem, map[k], object[k], Append(path, k), e)
FilledEntries(t, map, object, path, e) == UNION {FilledEntry(t, map, object, path, e, k) : k \in DOMAIN object}

LEMMA FilledInside ==
    ASSUME FilledRecurs, NEW t \in Types, NEW items, NEW src, NEW path, NEW e
    PROVE  /\ t.kind = "slice" /\ Is(src, "array") =>
                Filled(t, [slice |-> items], src, path, e) \in {{}, FilledItems(t, items, src.array, path, e)}
           /\ t.kind = "array" /\ Is(src, "array") =>
                Filled(t, [array |-> items], src, path, e) \in {{}, FilledItems(t, items, src.array, path, e)}
           /\ t.kind = "map" /\ Is(src, "object") =>
                Filled(t, [map |-> items], src, path, e) \in {{}, FilledEntries(t, items, src.object, path, e)}
           /\ t.kind = "slice" /\ ~Is(src, "array") => \A v : Filled(t, v, src, path, e) = {}
           /\ t.kind = "array" /\ ~Is(src, "array") => \A v : Filled(t, v, src, path, e) = {}
           /\ t.kind = "map" /\ ~Is(src, "object") => \A v : Filled(t, v, src, path, e) = {}
<1>1. t.kind \in {"slice", "array", "map"} => t.elem \in Types
  BY Elements DEF Containers
<1>2. CASE src = Null \/ Has(t, "hook")
  BY <1>2 DEF Filled
<1>3. CASE ~(src = Null \/ Has(t, "hook"))
  <2>1. ASSUME t.kind = "slice", Is(src, "array")
        PROVE  Filled(t, [slice |-> items], src, path, e) = FilledItems(t, items, src.array, path, e)
    <3> DEFINE v == [slice |-> items]
    <3>1. v.slice = items
      OBVIOUS
    <3> HIDE DEF v
    <3>2. Filled(t, v, src, path, e)
            = UNION {InnerFilled(t.elem, v.slice[i], src.array[i], Append(path, ToString(i - 1)), e) :
                       i \in DOMAIN src.array}
      BY <1>3, <2>1 DEF Filled
    <3>3. \A w, n, p : InnerFilled(t.elem, w, n, p, e) = Filled(t.elem, w, n, p, e)
      BY <1>1, <2>1 DEF FilledRecurs
    <3> QED  BY <3>1, <3>2, <3>3 DEF v, FilledItems, FilledItem
  <2>2. ASSUME t.kind = "array", Is(src, "array")
        PROVE  Filled(t, [array |-> items], src, path, e) = FilledItems(t, items, src.array, path, e)
    <3> DEFINE v == [array |-> items]
    <3>1. v.array = items
      OBVIOUS
    <3> HIDE DEF v
    <3>2. Filled(t, v, src, path, e)
            = UNION {InnerFilled(t.elem, v.array[i], src.array[i], Append(path, ToString(i - 1)), e) :
                       i \in DOMAIN src.array}
      BY <1>3, <2>2 DEF Filled
    <3>3. \A w, n, p : InnerFilled(t.elem, w, n, p, e) = Filled(t.elem, w, n, p, e)
      BY <1>1, <2>2 DEF FilledRecurs
    <3> QED  BY <3>1, <3>2, <3>3 DEF v, FilledItems, FilledItem
  <2>3. ASSUME t.kind = "map", Is(src, "object")
        PROVE  Filled(t, [map |-> items], src, path, e) = FilledEntries(t, items, src.object, path, e)
    <3> DEFINE v == [map |-> items]
    <3>1. v.map = items
      OBVIOUS
    <3> HIDE DEF v
    <3>2. Filled(t, v, src, path, e)
            = UNION {InnerFilled(t.elem, v.map[k], src.object[k], Append(path, k), e) : k \in DOMAIN src.object}
      BY <1>3, <2>3 DEF Filled
    <3>3. \A w, n, p : InnerFilled(t.elem, w, n, p, e) = Filled(t.elem, w, n, p, e)
      BY <1>1, <2>3 DEF FilledRecurs
    <3> QED  BY <3>1, <3>2, <3>3 DEF v, FilledEntries, FilledEntry
  <2>4. ASSUME NEW v PROVE /\ t.kind = "slice" /\ ~Is(src, "array") => Filled(t, v, src, path, e) = {}
                           /\ t.kind = "array" /\ ~Is(src, "array") => Filled(t, v, src, path, e) = {}
                           /\ t.kind = "map" /\ ~Is(src, "object") => Filled(t, v, src, path, e) = {}
    BY <1>3 DEF Filled
  <2> QED  BY <2>1, <2>2, <2>3, <2>4
<1> QED
  BY <1>2, <1>3

\* The others are filled by nothing, or as a struct.
LEMMA FilledOthers ==
    ASSUME NEW t, NEW v, NEW src, NEW path, NEW e
    PROVE  /\ t.kind \in {"string", "int", "bool", "any"} => Filled(t, v, src, path, e) = {}
           /\ Hook(t, "text") \/ Hook(t, "json") => Filled(t, v, src, path, e) = {}
           /\ t.kind = "struct" /\ ~Is(src, "object") => Filled(t, v, src, path, e) = {}
           /\ t.kind = "struct" /\ Is(src, "object") =>
                Filled(t, v, src, path, e) \in {{}, FilledStruct(t, v, src.object, path, e)}
<1>1. CASE src = Null \/ Has(t, "hook")
  BY <1>1 DEF Filled
<1>2. CASE ~(src = Null \/ Has(t, "hook"))
  BY <1>2 DEF Filled, Hook
<1> QED
  BY <1>1, <1>2

-----------------------------------------------------------------------------
(* What a bind that succeeds has validated *)

\* No value of a type has a struct with a Validate inside.
Unruled(t) == \A v, path : HasType(v, t) => Ruled(t, v, path) = {}

\* The handlers of the application are on fields without a Validate inside
\* them: a handler may change a struct after its Validate has seen it
\* (tag.go:543).
HandlersOffRules ==
    \A t \in Types : t.kind = "struct" =>
      \A i \in DOMAIN t.fields :
        Has(t.fields[i].tag, "custom") => Unruled(t.fields[i].type)

Calls(r) == Members(r.log)

\* The log has the calls that are due, in turn; and unless a handler interferes
\* each call saw what is left.
ValidatesAs(t, r, path, due) ==
    r.err = NoError =>
      /\ IsSequence(r.log)
      /\ Covers(r.log, due)
      /\ HandlersOffRules => Calls(r) \subseteq Ruled(t, r.val, path)

LEMMA ErrorsValidate ==
    ASSUME NEW t, NEW path
    PROVE  /\ \A r, due : r.err # NoError => ValidatesAs(t, r, path, due)
           /\ \A v, p, due : \A kind \in ErrorKinds \ {"none"} : ValidatesAs(t, Fail(v, kind, p), path, due)
BY FailIsError DEF ValidatesAs

LEMMA QuietValidates == \A t, v, path : ValidatesAs(t, Ok(v), path, {})
<1>1. \A v : Ok(v).log = <<>>
  BY DEF Ok
<1>2. \A v : IsSequence(Ok(v).log) /\ Calls(Ok(v)) = {}
  BY <1>1, EmptySequence DEF Calls
<1> QED
  BY <1>2, CoversNothing DEF ValidatesAs

LEMMA LessIsDue ==
    ASSUME NEW t, NEW r, NEW path, NEW due, ValidatesAs(t, r, path, due), NEW less \in {{}, due}
    PROVE  ValidatesAs(t, r, path, less)
BY CoversNothing DEF ValidatesAs

LEMMA PointerValidates ==
    ASSUME Recursion, RuledRecurs, NEW t \in Types, t.kind = "pointer", NEW path,
           NEW r, IsResult(r, t.elem), NEW due, ValidatesAs(t.elem, r, path, due)
    PROVE  ValidatesAs(t, Pointing(r), path, due)
<1>1. Pointing(r) = [val |-> [ref |-> r.val], err |-> r.err, log |-> r.log]
  BY DEF Pointing, IsResult
<1>2. Ruled(t, [ref |-> r.val], path) = Ruled(t.elem, r.val, path)
  BY RuledBehind
<1>3. Calls(Pointing(r)) = Calls(r) /\ Pointing(r).log = r.log
  BY <1>1 DEF Calls
<1> QED
  BY <1>1, <1>2, <1>3 DEF ValidatesAs

\* assign, assignString and bindStruct validate what they fill.
Validating(t) ==
    /\ \A old, src, path, e : IsEnv(e) /\ src \in Inputs /\ HasType(old, t) =>
         LET r == assign(t, old, src, path, e) IN ValidatesAs(t, r, path, Filled(t, r.val, src, path, e))
    /\ \A old, raw, path, e : IsEnv(e) /\ raw \in STRING /\ HasType(old, t) =>
         ValidatesAs(t, assignString(t, old, raw, path, e), path, {})
    /\ t.kind = "struct" =>
         \A node, old, path, e : IsEnv(e) /\ IsTree(node) /\ HasType(old, t) =>
           LET r == bindStruct(node, t, old, path, e)
           IN ValidatesAs(t, r, path, FilledStruct(t, r.val, node, path, e))

SmallerValidating(t) == \A u \in Types : Depth[u] < Depth[t] => Validating(u)

(* fieldTag.apply *)

LEMMA HandlersAreQuiet ==
    ASSUME NEW handlers \in Seq(STRING), NEW path, NEW v
    PROVE  HandlerLoop!After([handlers |-> handlers, path |-> path], Ok(v), Len(handlers)).log = <<>>
<1> DEFINE n == Len(handlers)
           given == [handlers |-> handlers, path |-> path]
           after == LoopOfHandlers!Run(given, Ok(v), n)
           S == {i \in 0..n : after[i].log = <<>>}
<1>1. n \in Nat
  OBVIOUS
<1>2. /\ after[0] = Ok(v)
      /\ \A i \in 1..n : after[i] = NextHandler(given, after[i - 1], i)
  BY <1>1, LoopOfHandlers!RunOfRounds
<1>3. HandlerLoop!After(given, Ok(v), n) = after[n]
  BY DEF HandlerLoop!After, HandlerLoop!Run, LoopOfHandlers!Run
<1> HIDE DEF given, after, n
<1>4. 0 \in S
  BY <1>1, <1>2 DEF Ok
<1>5. \A acc, i : acc.log = <<>> => NextHandler(given, acc, i).log = <<>>
  BY DEF NextHandler, Ok, Fail
<1>6. \A i \in 1..n : i - 1 \in S => i \in S
  BY <1>2, <1>5
<1> HIDE DEF S
<1>7. n \in S
  <2>1. \A i \in 0..n : i \in S
    BY <1>1, <1>4, <1>6, LoopOfHandlers!LoopInvariant
  <2> QED  BY <1>1, <2>1
<1> QED
  BY <1>3, <1>7 DEF S, n, given

LEMMA CustomIsQuiet ==
    ASSUME Recursion, RuledRecurs, HandlersKeepTypes
    PROVE  \A t \in Types : \A tag, v, path : GoodTag(tag) /\ HasType(v, t) => runCustom(tag, v, path).log = <<>>
<1> DEFINE Quiet(t) == \A tag, v, path : GoodTag(tag) /\ HasType(v, t) => runCustom(tag, v, path).log = <<>>
           G == {t \in Types : Quiet(t)}
<1>1. ASSUME NEW t \in Types, \A u \in Types : Depth[u] < Depth[t] => u \in G
      PROVE  t \in G
  <2> SUFFICES ASSUME NEW tag, NEW v, NEW path, GoodTag(tag), HasType(v, t)
               PROVE  runCustom(tag, v, path).log = <<>>
    OBVIOUS
  <2>1. CASE v = Nil \/ ~Has(tag, "custom")
    BY <2>1 DEF runCustom, Ok
  <2>2. CASE v # Nil /\ Has(tag, "custom") /\ Is(v, "ref")
    <3> DEFINE r == runCustom(tag, v.ref, path)
    <3>1. t.kind = "pointer" /\ InnerHasType(v.ref, t.elem)
      BY <2>2, References
    <3>2. t.elem \in Types /\ HasType(v.ref, t.elem) /\ Depth[t.elem] < Depth[t]
      BY <3>1, Elements DEF Containers, Recursion, RuledRecurs
    <3>3. r.log = <<>> /\ IsResult(r, t.elem)
      BY <1>1, <3>2, CustomKeeps
    <3>4. runCustom(tag, v, path) = Pointing(r)
      BY <2>2, <3>2 DEF runCustom, Pointing, Recursion, RuledRecurs
    <3> HIDE DEF r
    <3> QED  BY <3>3, <3>4 DEF Pointing, IsResult
  <2>3. CASE v # Nil /\ Has(tag, "custom") /\ ~Is(v, "ref")
    <3>1. runCustom(tag, v, path)
            = HandlerLoop!After([handlers |-> tag.custom, path |-> path], Ok(v), Len(tag.custom))
      BY <2>3 DEF runCustom
    <3> QED  BY <2>3, <3>1, HandlersAreQuiet DEF GoodTag
  <2> QED  BY <2>1, <2>2, <2>3
<1> HIDE DEF G
<1>2. Types \subseteq G
  <2>1. G \in SUBSET Types  BY DEF G
  <2> QED  BY <1>1, <2>1, TypeInduction
<1> QED
  BY <1>2 DEF G

\* The tag of a field leaves to the value that was taken what it has, unless a
\* handler of it works on the value.
LEMMA ApplyValidates ==
    ASSUME Recursion, RuledRecurs, HandlersKeepTypes, NEW t \in Types, t.kind = "struct",
           NEW i \in DOMAIN t.fields, NEW r, IsResult(r, t.fields[i].type), NEW path, NEW p,
           NEW due, ValidatesAs(t.fields[i].type, r, path, due)
    PROVE  LET f == t.fields[i]
               done == apply(f.tag, r, p)
           IN /\ ValidatesAs(f.type, done, path, IF Has(f.tag, "custom") THEN {} ELSE due)
              /\ done.err = NoError /\ ~Has(f.tag, "custom") => done.val = r.val
<1> DEFINE f == t.fields[i]
           done == apply(f.tag, r, p)
           custom == runCustom(f.tag, r.val, p)
<1> SUFFICES ASSUME done.err = NoError
             PROVE  /\ ValidatesAs(f.type, done, path, IF Has(f.tag, "custom") THEN {} ELSE due)
                    /\ ~Has(f.tag, "custom") => done.val = r.val
  BY ErrorsValidate
<1>1. f.type \in Types /\ GoodTag(f.tag) /\ HasType(r.val, f.type)
  BY FieldsOfTypes, TagsAreGood DEF IsResult
<1>2. r.err = NoError
  BY ApplyOfAnError
<1>3. IsResult(custom, f.type) /\ custom.log = <<>>
  BY <1>1, CustomKeeps, CustomIsQuiet
<1>4. done = Put(r, custom, custom.val)
  <2>1. check(f.tag, r.val, p).err = NoError
    BY <1>2 DEF apply, Put
  <2> QED  BY <1>2, <2>1 DEF apply
<1>5. IsSequence(r.log) /\ Covers(r.log, due) /\ (HandlersOffRules => Calls(r) \subseteq Ruled(f.type, r.val, path))
  BY <1>2 DEF ValidatesAs
<1>6. done.val = custom.val /\ done.log = r.log
  BY <1>3, <1>4, <1>5 DEF Put, IsSequence
<1>7. CASE Has(f.tag, "custom")
  <2>1. HandlersOffRules => \A v : HasType(v, f.type) => Ruled(f.type, v, path) = {}
    BY <1>7 DEF HandlersOffRules, Unruled
  <2>2. HandlersOffRules => Ruled(f.type, done.val, path) = {} /\ Calls(r) = {}
    BY <1>1, <1>3, <1>5, <1>6, <2>1 DEF IsResult
  <2> HIDE DEF done
  <2> QED  BY <1>2, <1>5, <1>6, <1>7, <2>2, CoversNothing DEF ValidatesAs, Calls
<1>8. CASE ~Has(f.tag, "custom")
  <2>1. done.val = r.val
    BY <1>6, <1>8 DEF runCustom, Ok
  <2> HIDE DEF done
  <2> QED  BY <1>2, <1>5, <1>6, <1>8, <2>1 DEF ValidatesAs, Calls
<1> QED
  BY <1>7, <1>8

(* bindStruct *)

\* What a source provides, and what a section it provides is due.
DueTo(f, v, node, path, e) ==
    IF Source(f, node, e) = "file" THEN Filled(f.type, v, ValueOf(node, Key(f)), path, e) ELSE {}

LEMMA TakenValidates ==
    ASSUME Recursion, RuledRecurs, NEW t \in Types, t.kind = "struct", SmallerValidating(t), NEW i \in DOMAIN t.fields,
           NEW node, IsTree(node), NEW e, IsEnv(e), NEW old, HasType(old, t.fields[i].type), NEW path,
           Source(t.fields[i], node, e) \in FromOutside
    PROVE  LET f == t.fields[i]
               r == Taken(f, Source(f, node, e), old, node, path, e)
           IN ValidatesAs(f.type, r, path, DueTo(f, r.val, node, path, e))
<1> DEFINE f == t.fields[i]
           from == Source(f, node, e)
<1>1. f.type \in Types /\ Validating(f.type)
  BY FieldsOfTypes DEF SmallerValidating
<1>2. CASE from = "env"
  <2>1. e[f.tag.env] \in STRING
    BY <1>2 DEF Source, InEnv, IsEnv
  <2>2. Taken(f, from, old, node, path, e) = assignString(f.type, old, e[f.tag.env], path, e)
    BY <1>1, <1>2 DEF Taken, Recursion
  <2> QED  BY <1>1, <1>2, <2>1, <2>2 DEF Validating, DueTo
<1>3. CASE from = "file"
  <2>1. ValueOf(node, Key(f)) \in Inputs
    BY <1>3, SelectedValue, GivenValue
  <2>2. Taken(f, from, old, node, path, e) = assign(f.type, old, ValueOf(node, Key(f)), path, e)
    BY <1>1, <1>3 DEF Taken, Recursion
  <2> QED  BY <1>1, <1>3, <2>1, <2>2 DEF Validating, DueTo
<1>4. CASE from = "default"
  <2>1. f.tag.default \in STRING
    BY <1>4, TagsAreGood DEF Source
  <2>2. Taken(f, from, old, node, path, e) = assignString(f.type, old, f.tag.default, path, e)
    BY <1>1, <1>4 DEF Taken, Recursion
  <2> QED  BY <1>1, <1>4, <2>1, <2>2 DEF Validating, DueTo
<1> QED
  BY <1>2, <1>3, <1>4 DEF FromOutside

\* What a struct without a section of its own is due.
DueNested(t, v, path, e) ==
    IF t.kind = "struct" /\ isBindableStruct(t) THEN FilledStruct(t, v, EmptyTree, path, e) ELSE {}

LEMMA NestedValidates ==
    ASSUME Recursion, RuledRecurs, NEW t \in Types, Validating(t), NEW old, HasType(old, t), NEW path, NEW e, IsEnv(e)
    PROVE  LET r == bindNested(t, old, path, e) IN ValidatesAs(t, r, path, DueNested(t, r.val, path, e))
<1>1. CASE t.kind = "pointer" \/ ~isBindableStruct(t)
  <2>1. bindNested(t, old, path, e) = Ok(old)
    BY <1>1 DEF bindNested
  <2> QED  BY <1>1, <2>1, QuietValidates DEF DueNested
<1>2. CASE t.kind # "pointer" /\ isBindableStruct(t)
  <2>1. t.kind = "struct"
    BY <1>2 DEF isBindableStruct
  <2>2. bindNested(t, old, path, e) = bindStruct(EmptyTree, t, old, path, e)
    BY <1>2, <2>1 DEF bindNested, Recursion
  <2> QED  BY <1>2, <2>1, <2>2, EmptyIsTree DEF Validating, DueNested
<1> QED
  BY <1>1, <1>2

\* What an embedded struct is due.
DueEmbedded(u, v, node, path, e) ==
    IF u.kind = "pointer" THEN FilledStruct(u.elem, v.ref, node, path, e) ELSE FilledStruct(u, v, node, path, e)

LEMMA EmbeddedValidates ==
    ASSUME Recursion, RuledRecurs, HandlersKeepTypes, NEW t \in Types, t.kind = "struct", SmallerValidating(t),
           NEW i \in DOMAIN t.fields, Embedded(t.fields[i]),
           NEW node, IsTree(node), NEW e, IsEnv(e), NEW old, HasType(old, t.fields[i].type), NEW path
    PROVE  LET u == t.fields[i].type
               r == bindEmbedded(u, old, node, path, e)
           IN ValidatesAs(u, r, path, DueEmbedded(u, r.val, node, path, e))
<1> DEFINE u == t.fields[i].type
<1>1. u \in Types /\ Validating(u) /\ Depth[u] < Depth[t] /\ isBindableStruct(u)
  BY FieldsOfTypes DEF SmallerValidating, Embedded
<1>2. CASE u.kind # "pointer"
  <2>1. u.kind = "struct"
    BY <1>1, <1>2 DEF isBindableStruct
  <2>2. bindEmbedded(u, old, node, path, e) = bindStruct(node, u, old, path, e)
    BY <1>1, <1>2, <2>1 DEF bindEmbedded, Recursion
  <2> QED  BY <1>1, <1>2, <2>1, <2>2 DEF Validating, DueEmbedded
<1>3. CASE u.kind = "pointer"
  <2> DEFINE was == Allocated(u, old)
             r == bindStruct(node, u.elem, was, path, e)
             due == FilledStruct(u.elem, r.val, node, path, e)
  <2>1. u.elem \in Types /\ Depth[u.elem] < Depth[u] /\ isBindableStruct(u.elem)
    BY <1>1, <1>3, Elements DEF isBindableStruct, Recursion, Containers
  <2>2. u.elem.kind = "struct"
    BY <1>3, <2>1, TagsAreGood DEF Embedded, isBindableStruct
  <2>3. Validating(u.elem) /\ Keeps(u.elem)
    BY <1>1, <2>1, DepthIsNumber, AllKeep DEF SmallerValidating
  <2>4. HasType(was, u.elem)
    BY <1>1, <1>3, AllocatedHasType
  <2>5. ValidatesAs(u.elem, r, path, due) /\ IsResult(r, u.elem)
    BY <2>2, <2>3, <2>4 DEF Validating, Keeps
  <2>6. bindEmbedded(u, old, node, path, e) = Pointing(r)
    BY <1>3, <2>1, <2>2 DEF bindEmbedded, Recursion
  <2>7. DueEmbedded(u, Pointing(r).val, node, path, e) = due
    <3>1. Pointing(r).val = [ref |-> r.val]
      BY <2>5 DEF Pointing, IsResult
    <3> HIDE DEF r
    <3> QED  BY <1>3, <3>1 DEF DueEmbedded
  <2> HIDE DEF r, due
  <2>8. ValidatesAs(u, Pointing(r), path, due)
    BY <1>1, <1>3, <2>5, PointerValidates
  <2> QED  BY <2>6, <2>7, <2>8
<1> QED
  BY <1>2, <1>3

LEMMA DueOfAField ==
    ASSUME Recursion, FilledRecurs, NEW t \in Types, t.kind = "struct", NEW i \in DOMAIN t.fields, ~Skipped(t.fields[i]),
           NEW v, NEW node, NEW path, NEW e
    PROVE  LET f == t.fields[i]
               from == Source(f, node, e)
               here == Append(path, Key(f))
               due == FilledField(f, v, node, path, e)
           IN /\ Embedded(f) => due = DueEmbedded(f.type, v, node, path, e)
              /\ ~Embedded(f) /\ from \in FromOutside =>
                   due = IF Has(f.tag, "custom") THEN {} ELSE DueTo(f, v, node, here, e)
              /\ ~Embedded(f) /\ from = "none" => due = DueNested(f.type, v, here, e)
<1> DEFINE f == t.fields[i]
           from == Source(f, node, e)
           here == Append(path, Key(f))
           due == FilledField(f, v, node, path, e)
<1>1. f.type \in Types
  BY FieldsOfTypes
<1>2. Embedded(f) => due = DueEmbedded(f.type, v, node, path, e)
  <2> SUFFICES ASSUME Embedded(f) PROVE due = DueEmbedded(f.type, v, node, path, e)
    OBVIOUS
  <2>1. due = IF f.type.kind = "pointer" THEN InnerFilledStruct(f.type.elem, v.ref, node, path, e)
              ELSE InnerFilledStruct(f.type, v, node, path, e)
    BY DEF FilledField
  <2>2. f.type.kind = "pointer" => f.type.elem \in Types
    BY <1>1, Elements DEF Containers
  <2>3. f.type.kind = "pointer" =>
          InnerFilledStruct(f.type.elem, v.ref, node, path, e) = FilledStruct(f.type.elem, v.ref, node, path, e)
    BY <2>2 DEF FilledRecurs
  <2>4. InnerFilledStruct(f.type, v, node, path, e) = FilledStruct(f.type, v, node, path, e)
    BY <1>1 DEF FilledRecurs
  <2> HIDE DEF due, f
  <2> QED  BY <2>1, <2>3, <2>4 DEF DueEmbedded
<1>3. ~Embedded(f) /\ from \in FromOutside => due = IF Has(f.tag, "custom") THEN {} ELSE DueTo(f, v, node, here, e)
  <2>1. InnerFilled(f.type, v, ValueOf(node, Key(f)), here, e) = Filled(f.type, v, ValueOf(node, Key(f)), here, e)
    BY <1>1 DEF FilledRecurs
  <2>2. ~Embedded(f) /\ from = "file" /\ ~Has(f.tag, "custom") =>
          due = InnerFilled(f.type, v, ValueOf(node, Key(f)), here, e)
    BY DEF FilledField
  <2>3. ~Embedded(f) /\ from \in FromOutside /\ ~(from = "file" /\ ~Has(f.tag, "custom")) => due = {}
    BY DEF FilledField, FromOutside
  <2> QED  BY <2>1, <2>2, <2>3 DEF DueTo
<1>4. ~Embedded(f) /\ from = "none" => due = DueNested(f.type, v, here, e)
  <2>1. InnerFilledStruct(f.type, v, EmptyTree, here, e) = FilledStruct(f.type, v, EmptyTree, here, e)
    BY <1>1 DEF FilledRecurs
  <2>2. ~Embedded(f) /\ from = "none" /\ f.type.kind = "struct" /\ isBindableStruct(f.type) =>
          due = InnerFilledStruct(f.type, v, EmptyTree, here, e)
    BY DEF FilledField
  <2>3. ~Embedded(f) /\ from = "none" /\ ~(f.type.kind = "struct" /\ isBindableStruct(f.type)) => due = {}
    BY DEF FilledField
  <2> QED  BY <2>1, <2>2, <2>3 DEF DueNested
<1> QED
  BY <1>2, <1>3, <1>4

LEMMA OneValidates ==
    ASSUME Recursion, RuledRecurs, FilledRecurs, HandlersKeepTypes, NEW t \in Types, t.kind = "struct",
           SmallerValidating(t), NEW i \in DOMAIN t.fields, ~Skipped(t.fields[i]),
           NEW node, IsTree(node), NEW e, IsEnv(e), NEW old, HasType(old, t.fields[i].type), NEW path
    PROVE  LET f == t.fields[i]
               r == bindOne(f, old, node, path, e)
           IN ValidatesAs(f.type, r, FieldPath(f, path), FilledField(f, r.val, node, path, e))
<1> DEFINE f == t.fields[i]
           here == Append(path, Key(f))
           from == Source(f, node, e)
           r == bindOne(f, old, node, path, e)
           due(v) == FilledField(f, v, node, path, e)
<1>1. f.type \in Types /\ Validating(f.type)
  BY FieldsOfTypes DEF SmallerValidating
<1>2. SmallerKeep(t)
  BY AllKeep DEF SmallerKeep
<1>3. CASE Embedded(f)
  <2>1. r = bindEmbedded(f.type, old, node, path, e) /\ FieldPath(f, path) = path
    BY <1>3 DEF bindOne, FieldPath
  <2>2. due(r.val) = DueEmbedded(f.type, r.val, node, path, e)
    BY <1>3, DueOfAField
  <2> HIDE DEF due
  <2>3. ValidatesAs(f.type, r, path, DueEmbedded(f.type, r.val, node, path, e))
    BY <1>3, <2>1, EmbeddedValidates
  <2> QED  BY <2>1, <2>2, <2>3 DEF due
<1>4. CASE ~Embedded(f)
  <2>1. r = bindField(f, old, node, path, e) /\ FieldPath(f, path) = here
    BY <1>4 DEF bindOne, FieldPath
  <2>2. CASE from \in {"env", "file", "default"}
    <3> DEFINE taken == Taken(f, from, old, node, here, e)
               dueTo(v) == DueTo(f, v, node, here, e)
    <3>1. bindField(f, old, node, path, e) = apply(f.tag, taken, here)
      BY <2>2 DEF bindField
    <3>2. \A p : ValidatesAs(f.type, Taken(f, from, old, node, p, e), p, DueTo(f, Taken(f, from, old, node, p, e).val, node, p, e))
      BY <2>2, TakenValidates DEF FromOutside
    <3>3. \A p : IsResult(Taken(f, from, old, node, p, e), f.type)
      BY <1>2, <2>2, TakenKeeps
    <3>4. ValidatesAs(f.type, taken, here, dueTo(taken.val)) /\ IsResult(taken, f.type)
      BY <3>2, <3>3
    <3>5. \A v : due(v) = IF Has(f.tag, "custom") THEN {} ELSE dueTo(v)
      BY <1>4, <2>2, DueOfAField DEF FromOutside
    <3> HIDE DEF taken, here, dueTo, due, r, from
    <3>6. /\ ValidatesAs(f.type, r, here, IF Has(f.tag, "custom") THEN {} ELSE dueTo(taken.val))
          /\ r.err = NoError /\ ~Has(f.tag, "custom") => r.val = taken.val
      BY <2>1, <3>1, <3>4, ApplyValidates
    <3>7. r.err = NoError => due(r.val) = IF Has(f.tag, "custom") THEN {} ELSE dueTo(taken.val)
      BY <3>5, <3>6
    <3> QED  BY <2>1, <3>6, <3>7 DEF ValidatesAs, due, r
  <2>3. CASE from = "clash"
    BY <2>1, <2>3, ErrorsValidate DEF bindField, ErrorKinds
  <2>4. CASE from = "missing"
    BY <2>1, <2>4, ErrorsValidate DEF bindField, ErrorKinds
  <2>5. CASE from = "none"
    <3>1. bindField(f, old, node, path, e) = bindNested(f.type, old, here, e)
      BY <2>5 DEF bindField
    <3>2. due(r.val) = DueNested(f.type, r.val, here, e)
      BY <1>4, <2>5, DueOfAField
    <3> HIDE DEF due
    <3>3. ValidatesAs(f.type, r, here, DueNested(f.type, r.val, here, e))
      BY <1>1, <2>1, <3>1, NestedValidates
    <3> QED  BY <2>1, <3>2, <3>3 DEF due
  <2> QED  BY <2>2, <2>3, <2>4, <2>5, SourcesOfValues
<1> QED
  BY <1>3, <1>4

\* The calls of the first k fields, each bound alone.
CallsUpTo(t, old, node, path, e, k) == UNION {Calls(Alone(t, old, node, path, e, i)) : i \in 1..k}

\* A walk over the fields makes the calls that its fields make, those of each
\* field in one piece.
LEMMA FieldCalls ==
    ASSUME Recursion, RuledRecurs, HandlersKeepTypes, NEW t \in Types, t.kind = "struct",
           NEW old, HasType(old, t), NEW node, IsTree(node), NEW path, NEW e, IsEnv(e),
           \A i \in DOMAIN t.fields :
             Alone(t, old, node, path, e, i).err = NoError => IsSequence(Alone(t, old, node, path, e, i).log)
    PROVE  \A k \in 0..Len(t.fields) :
             LET r == FieldRun(t, old, node, path, e)[k]
             IN r.err = NoError => /\ IsSequence(r.log) /\ Calls(r) = CallsUpTo(t, old, node, path, e, k)
                                   /\ \A i \in 1..k : /\ Alone(t, old, node, path, e, i).err = NoError
                                                      /\ Contains(r.log, Alone(t, old, node, path, e, i).log)
<1> DEFINE n == Len(t.fields)
           given == [fields |-> t.fields, node |-> node, path |-> path, env |-> e]
           run == FieldRun(t, old, node, path, e)
           alone(i) == Alone(t, old, node, path, e, i)
           upTo(k) == CallsUpTo(t, old, node, path, e, k)
           Pieces(k) == \A i \in 1..k : alone(i).err = NoError /\ Contains(run[k].log, alone(i).log)
           Holds(k) == run[k].err = NoError => IsSequence(run[k].log) /\ Calls(run[k]) = upTo(k) /\ Pieces(k)
           S == {k \in 0..n : Holds(k)}
<1>1. n \in Nat /\ DOMAIN t.fields = 1..n
  BY FieldsOfTypes
<1>2. \A k \in 1..n : run[k - 1].err = NoError => run[k - 1].val.struct[t.fields[k].name] = old.struct[t.fields[k].name]
  BY FieldAhead
<1>3. run[0] = Ok(old) /\ \A k \in 1..n : run[k] = NextField(given, run[k - 1], k)
  BY FieldRounds
<1> HIDE DEF run
<1>4. upTo(0) = {} /\ \A k \in Nat \ {0} : upTo(k) = upTo(k - 1) \cup Calls(alone(k))
  <2>1. \A k \in Nat \ {0} : 1..k = (1..(k - 1)) \cup {k}
    OBVIOUS
  <2>2. 1..0 = {}
    OBVIOUS
  <2> HIDE DEF alone
  <2> QED  BY <2>1, <2>2 DEF CallsUpTo, alone
<1> HIDE DEF upTo
<1>5. 0 \in S
  <2>1. run[0].log = <<>>
    BY <1>3 DEF Ok
  <2>2. Pieces(0)
    OBVIOUS
  <2> HIDE DEF Pieces
  <2>3. Holds(0)
    BY <1>4, <2>1, <2>2, EmptySequence DEF Calls
  <2> QED  BY <1>1, <2>3
<1>6. ASSUME NEW k \in 1..n, k - 1 \in S PROVE k \in S
  <2> DEFINE acc == run[k - 1]
             part == alone(k)
             done == [acc.val EXCEPT !.struct[t.fields[k].name] = part.val]
  <2>1. acc.err = NoError => IsSequence(acc.log) /\ Calls(acc) = upTo(k - 1) /\ Pieces(k - 1)
    BY <1>6
  <2>2. run[k] = NextField(given, acc, k)
    BY <1>3
  <2>3. CASE acc.err # NoError
    <3>1. run[k] = acc
      BY <2>2, <2>3 DEF NextField
    <3>2. Holds(k)
      BY <2>3, <3>1
    <3> QED  BY <1>1, <3>2
  <2>4. CASE acc.err = NoError
    <3>1. part = bindOne(t.fields[k], acc.val.struct[t.fields[k].name], node, path, e)
      BY <1>2, <2>4 DEF Alone
    <3>2. run[k] = Put(acc, part, done)
      BY <2>2, <2>4, <3>1 DEF NextField
    <3>3. Pieces(k - 1) => \A i \in 1..(k - 1) : alone(i).err = NoError /\ Contains(acc.log, alone(i).log)
      OBVIOUS
    <3> HIDE DEF acc, part, done
    <3>4. run[k].err = part.err /\ run[k].log = acc.log \o part.log
      <4>1. Put(acc, part, done).err = part.err /\ Put(acc, part, done).log = acc.log \o part.log
        BY DEF Put
      <4> QED  BY <3>2, <4>1
    <3>5. ASSUME part.err = NoError
          PROVE  IsSequence(run[k].log) /\ Calls(run[k]) = upTo(k) /\ Pieces(k)
      <4>1. IsSequence(part.log)
        BY <1>1, <3>5 DEF part, Alone
      <4>2. IsSequence(run[k].log) /\ Members(run[k].log) = Members(acc.log) \cup Members(part.log)
        BY <2>1, <2>4, <3>4, <4>1, Joined
      <4>3. upTo(k) = upTo(k - 1) \cup Calls(part)
        BY <1>1, <1>4 DEF part
      <4>4. Calls(run[k]) = upTo(k)
        BY <2>1, <2>4, <4>2, <4>3 DEF Calls
      <4>5. ASSUME NEW i \in 1..k PROVE alone(i).err = NoError /\ Contains(run[k].log, alone(i).log)
        <5>1. CASE i = k
          BY <2>1, <2>4, <3>4, <3>5, <4>1, <5>1, ContainsParts DEF part
        <5>2. CASE i # k
          <6>1. i \in 1..(k - 1) /\ i \in DOMAIN t.fields
            BY <1>1, <5>2
          <6>2. alone(i).err = NoError /\ Contains(acc.log, alone(i).log)
            BY <2>1, <2>4, <3>3, <6>1
          <6>3. IsSequence(alone(i).log)
            BY <6>1, <6>2
          <6> HIDE DEF alone
          <6> QED  BY <2>1, <2>4, <3>4, <4>1, <6>2, <6>3, ContainsParts
        <5> QED  BY <5>1, <5>2
      <4> HIDE DEF alone
      <4> QED  BY <4>2, <4>4, <4>5
    <3>6. Holds(k)
      <4> HIDE DEF Pieces
      <4> QED  BY <3>4, <3>5
    <3> QED  BY <1>1, <3>6
  <2> QED  BY <2>3, <2>4
<1> HIDE DEF S
<1>7. \A k \in 1..n : k - 1 \in S => k \in S
  BY <1>6
<1> HIDE DEF n, Holds
<1>8. \A k \in 0..n : k \in S
  BY <1>1, <1>5, <1>7, LoopOfFields!LoopInvariant
<1> QED
  BY <1>8 DEF S, Holds, n, upTo, run

\* The calls of one field are those of the structs in it, and the ones due to
\* those it filled.
FieldValidates(t, part, v, node, path, e, i) ==
    /\ IsSequence(part.log)
    /\ Covers(part.log, FilledField(t.fields[i], part.val, node, path, e))
    /\ HandlersOffRules => Calls(part) \subseteq RuledField(t, v, path, i)

LEMMA EveryFieldValidates ==
    ASSUME Recursion, RuledRecurs, FilledRecurs, HandlersKeepTypes, NEW t \in Types, t.kind = "struct",
           SmallerValidating(t),
           NEW old, HasType(old, t), NEW node, IsTree(node), NEW path, NEW e, IsEnv(e),
           NEW i \in DOMAIN t.fields, Alone(t, old, node, path, e, i).err = NoError,
           NEW v, v.struct[t.fields[i].name] = Alone(t, old, node, path, e, i).val
    PROVE  FieldValidates(t, Alone(t, old, node, path, e, i), v, node, path, e, i)
<1> DEFINE f == t.fields[i]
           was == old.struct[f.name]
           part == Alone(t, old, node, path, e, i)
           due == FilledField(f, part.val, node, path, e)
<1>1. part = bindOne(f, was, node, path, e) /\ HasType(was, f.type)
  BY FieldHasType DEF Alone
<1>2. CASE Skipped(f)
  <2>1. part.log = <<>>
    BY <1>1, <1>2 DEF bindOne, Ok
  <2>2. RuledField(t, v, path, i) = {} /\ due = {}
    BY <1>2 DEF RuledField, FilledField
  <2> HIDE DEF part, due
  <2>3. IsSequence(part.log) /\ Calls(part) = {}
    BY <2>1, EmptySequence DEF Calls
  <2> QED  BY <2>2, <2>3, CoversNothing DEF FieldValidates, part, due
<1>3. CASE ~Skipped(f)
  <2>1. ValidatesAs(f.type, part, FieldPath(f, path), due)
    BY <1>1, <1>3, OneValidates
  <2>2. RuledField(t, v, path, i) = Ruled(f.type, part.val, FieldPath(f, path))
    BY <1>3 DEF RuledField
  <2> HIDE DEF part, was, due
  <2> QED  BY <2>1, <2>2 DEF FieldValidates, ValidatesAs, part, due
<1> QED
  BY <1>2, <1>3

LEMMA ValidateCalls ==
    ASSUME NEW t, NEW r, IsResult(r, t), IsSequence(r.log), NEW path, NEW due, Covers(r.log, due)
    PROVE  LET done == validate(t, r, path)
               call == Call(t, r.val, path)
           IN /\ IsSequence(done.log)
              /\ Calls(done) = Calls(r) \cup (IF Has(t, "rule") THEN {call} ELSE {})
              /\ Covers(done.log, due \cup IF ~Has(t, "rule") THEN {}
                                           ELSE {[call |-> call, inside |-> {s.call : s \in due}]})
<1>1. CASE ~Has(t, "rule")
  BY <1>1 DEF validate
<1>2. CASE Has(t, "rule")
  <2> DEFINE seen == [path |-> path, rule |-> t.rule, seen |-> r.val]
  <2>1. validate(t, r, path).log = Append(r.log, seen)
    BY <1>2 DEF validate, IsResult
  <2>2. seen = Call(t, r.val, path)
    BY DEF Call
  <2> HIDE DEF seen
  <2> QED  BY <1>2, <2>1, <2>2, Appended, CoversLast DEF Calls
<1> QED
  BY <1>1, <1>2

LEMMA StructValidates ==
    ASSUME Recursion, RuledRecurs, FilledRecurs, HandlersKeepTypes, NEW t \in Types, t.kind = "struct",
           SmallerValidating(t),
           NEW old, HasType(old, t), NEW node, IsTree(node), NEW path, NEW e, IsEnv(e)
    PROVE  LET done == bindStruct(node, t, old, path, e)
           IN ValidatesAs(t, done, path, FilledStruct(t, done.val, node, path, e))
<1> DEFINE n == Len(t.fields)
           r == bindFields(Ok(old), t, node, path, e)
           done == bindStruct(node, t, old, path, e)
           part(i) == Alone(t, old, node, path, e, i)
           call == Call(t, r.val, path)
           mine == IF Has(t, "rule") THEN {call} ELSE {}
           dueTo(i) == FilledField(t.fields[i], part(i).val, node, path, e)
           due == UNION {dueTo(i) : i \in 1..n}
<1> SUFFICES ASSUME done.err = NoError
             PROVE  ValidatesAs(t, done, path, FilledStruct(t, done.val, node, path, e))
  BY ErrorsValidate
<1>1. n \in Nat /\ DOMAIN t.fields = 1..n /\ n \in 0..n
  BY FieldsOfTypes
<1>2. IsResult(r, t) /\ IsResult(done, t)
  <2>1. SmallerKeep(t)
    BY AllKeep DEF SmallerKeep
  <2> QED  BY <2>1, AllFields, StructKeeps
<1>3. done = IF r.err = NoError THEN validate(t, r, path) ELSE r
  BY DEF bindStruct
<1>4. \A i \in 1..n : part(i).err = NoError /\ done.val.struct[t.fields[i].name] = part(i).val
  BY <1>1, StructFilled
<1>5. \A i \in 1..n : FieldValidates(t, part(i), done.val, node, path, e, i)
  BY <1>1, <1>4, EveryFieldValidates
<1>6. r = FieldRun(t, old, node, path, e)[n]
  BY AllRounds
<1> HIDE DEF r, part
<1>7. r.err = NoError /\ done = validate(t, r, path) /\ done.val = r.val
  BY <1>2, <1>3, ValidateKeeps
<1>8. /\ IsSequence(r.log) /\ Calls(r) = CallsUpTo(t, old, node, path, e, n)
      /\ \A i \in 1..n : Contains(r.log, part(i).log)
  <2>1. \A i \in DOMAIN t.fields :
          Alone(t, old, node, path, e, i).err = NoError => IsSequence(Alone(t, old, node, path, e, i).log)
    BY <1>1, <1>5 DEF FieldValidates, part
  <2> QED  BY <1>1, <1>6, <1>7, <2>1, FieldCalls DEF part
<1>9. Covers(r.log, due)
  <2>1. \A i \in 1..n : IsSequence(part(i).log) /\ Covers(part(i).log, dueTo(i))
    BY <1>5 DEF FieldValidates
  <2> HIDE DEF dueTo, n
  <2>2. \A i \in 1..n : Covers(r.log, dueTo(i))
    BY <1>8, <2>1, ContainsCovers
  <2> QED  BY <2>2 DEF Covers
<1>10. FilledStruct(t, done.val, node, path, e)
         = due \cup IF ~Has(t, "rule") THEN {} ELSE {[call |-> call, inside |-> {s.call : s \in due}]}
  <2> DEFINE inside == UNION {FilledField(t.fields[i], done.val.struct[t.fields[i].name], node, path, e) :
                                i \in DOMAIN t.fields}
  <2>1. inside = due
    BY <1>1, <1>4
  <2>2. FilledStruct(t, done.val, node, path, e)
          = inside \cup IF ~Has(t, "rule") THEN {}
                        ELSE {[call |-> [path |-> path, rule |-> t.rule, seen |-> done.val],
                               inside |-> {s.call : s \in inside}]}
    BY DEF FilledStruct
  <2> HIDE DEF inside, due, done
  <2> QED  BY <1>7, <2>1, <2>2 DEF Call
<1> HIDE DEF due
<1>11. /\ IsSequence(done.log) /\ Calls(done) = Calls(r) \cup mine
       /\ Covers(done.log, FilledStruct(t, done.val, node, path, e))
  <2> DEFINE w == validate(t, r, path)
  <2>1. /\ IsSequence(w.log) /\ Calls(w) = Calls(r) \cup mine
        /\ Covers(w.log, due \cup IF ~Has(t, "rule") THEN {} ELSE {[call |-> call, inside |-> {s.call : s \in due}]})
    BY <1>2, <1>8, <1>9, ValidateCalls
  <2> HIDE DEF w, done, mine, call
  <2>2. done = w
    BY <1>7 DEF w
  <2> QED  BY <1>10, <2>1, <2>2
<1>12. HandlersOffRules => Calls(done) \subseteq Ruled(t, done.val, path)
  <2>1. Ruled(t, done.val, path) = mine \cup UNION {RuledField(t, done.val, path, i) : i \in 1..n}
    BY <1>1, <1>2, <1>7, RuledFields DEF IsResult
  <2>2. Calls(r) = UNION {Calls(part(i)) : i \in 1..n}
    BY <1>8 DEF CallsUpTo, part
  <2> HIDE DEF n, done, mine
  <2> QED  BY <1>5, <1>11, <2>1, <2>2 DEF FieldValidates
<1> HIDE DEF done
<1> QED
  BY <1>11, <1>12 DEF ValidatesAs

(* assignItems *)

ItemPath(path, i) == Append(path, ToString(i - 1))

LEMMA OneItemValidates ==
    ASSUME Recursion, RuledRecurs, NEW t \in Types, t.kind \in Containers, SmallerValidating(t), NEW e, IsEnv(e),
           NEW path, NEW items \in Seq(Inputs), NEW i \in 1..Len(items), NEW w, HasType(w, t.elem)
    PROVE  LET r == ItemAlone(t, w, items, path, e, i)
           IN ValidatesAs(t.elem, r, ItemPath(path, i), Filled(t.elem, r.val, items[i], ItemPath(path, i), e))
<1> DEFINE here == ItemPath(path, i)
<1>1. t.elem \in Types /\ Validating(t.elem) /\ items[i] \in Inputs /\ i \in DOMAIN items
  BY Elements DEF SmallerValidating
<1>2. ItemAlone(t, w, items, path, e, i) = assign(t.elem, w, items[i], here, e)
  BY DEF ItemAlone, ItemPath
<1> HIDE DEF here
<1>3. LET r == assign(t.elem, w, items[i], here, e)
      IN ValidatesAs(t.elem, r, here, Filled(t.elem, r.val, items[i], here, e))
  BY <1>1 DEF Validating
<1> QED
  BY <1>2, <1>3 DEF here

\* The calls of the first k items, each alone in its place.
CallsOfItems(t, start, items, path, e, k) ==
    UNION {Calls(ItemAlone(t, start[i], items, path, e, i)) : i \in 1..k}

\* The walk over the items has converted the first k and made their calls,
\* those of each in one piece.
ItemsCalled(t, run, start, items, path, e, k) ==
    run[k].err = NoError =>
      /\ IsSequence(run[k].log)
      /\ Calls(run[k]) = CallsOfItems(t, start, items, path, e, k)
      /\ \A i \in 1..k : /\ ItemAlone(t, start[i], items, path, e, i).err = NoError /\ run[i - 1].err = NoError
                         /\ Contains(run[k].log, ItemAlone(t, start[i], items, path, e, i).log)

LEMMA ItemCalls ==
    ASSUME Recursion, RuledRecurs, HandlersKeepTypes, NEW t \in Types, t.kind \in Containers, NEW e, IsEnv(e), NEW path,
           NEW items \in Seq(Inputs), NEW start, start = [i \in 1..Len(items) |-> start[i]],
           \A i \in 1..Len(items) : HasType(start[i], t.elem),
           \A i \in 1..Len(items) :
             LET r == ItemAlone(t, start[i], items, path, e, i) IN r.err = NoError => IsSequence(r.log)
    PROVE  \A k \in 0..Len(items) :
             ItemsCalled(t, ItemRun(t, start, items, path, e), start, items, path, e, k)
<1> DEFINE n == Len(items)
           run == ItemRun(t, start, items, path, e)
           alone(i) == ItemAlone(t, start[i], items, path, e, i)
           upTo(k) == CallsOfItems(t, start, items, path, e, k)
           S == {k \in 0..n : ItemsCalled(t, run, start, items, path, e, k)}
<1>1. n \in Nat
  OBVIOUS
<1>2. \A k \in 1..n : run[k - 1].err = NoError => run[k - 1].val[k] = start[k]
  <2>1. SmallerKeep(t)
    BY AllKeep DEF SmallerKeep
  <2> QED  BY <2>1, ItemAhead, SMTT(20)
<1>3. ItemWalk(t, run, start, items, path, e)
  BY <1>1, ItemRounds
<1> HIDE DEF run
<1>4. run[0] = Ok(start) /\ \A k \in 1..n : run[k] = ItemStep(t, run[k - 1], items, path, e, k)
  BY <1>3 DEF ItemWalk
<1>5. upTo(0) = {} /\ \A k \in Nat \ {0} : upTo(k) = upTo(k - 1) \cup Calls(alone(k))
  <2> DEFINE calls(i) == Calls(alone(i))
  <2>1. \A k : upTo(k) = UNION {calls(i) : i \in 1..k}
    BY DEF CallsOfItems
  <2> HIDE DEF calls, upTo
  <2>2. 1..0 = {} /\ \A k \in Nat \ {0} : 1..k = (1..(k - 1)) \cup {k}
    OBVIOUS
  <2>3. upTo(0) = {}
    BY <2>1, <2>2
  <2>4. \A k \in Nat \ {0} : upTo(k) = upTo(k - 1) \cup calls(k)
    BY <2>1, <2>2
  <2> QED  BY <2>3, <2>4 DEF calls
<1> HIDE DEF upTo
<1>6. 0 \in S
  <2>1. run[0].log = <<>>
    BY <1>4 DEF Ok
  <2>2. IsSequence(run[0].log) /\ Calls(run[0]) = {}
    BY <2>1, EmptySequence DEF Calls
  <2>3. ItemsCalled(t, run, start, items, path, e, 0)
    BY <1>5, <2>2 DEF ItemsCalled, upTo
  <2> QED  BY <1>1, <2>3
<1>7. ASSUME NEW k \in 1..n, k - 1 \in S PROVE k \in S
  <2> DEFINE acc == run[k - 1]
             part == alone(k)
             done == [acc.val EXCEPT ![k] = part.val]
  <2>1. acc.err = NoError => /\ IsSequence(acc.log) /\ Calls(acc) = upTo(k - 1)
                             /\ \A i \in 1..(k - 1) : /\ alone(i).err = NoError /\ run[i - 1].err = NoError
                                                      /\ Contains(acc.log, alone(i).log)
    BY <1>7 DEF ItemsCalled, upTo
  <2>2. run[k] = ItemStep(t, acc, items, path, e, k)
    BY <1>4
  <2>3. CASE acc.err # NoError
    <3>1. run[k] = acc
      BY <2>2, <2>3 DEF ItemStep
    <3>2. ItemsCalled(t, run, start, items, path, e, k)
      BY <2>3, <3>1 DEF ItemsCalled
    <3> QED  BY <1>1, <3>2
  <2>4. CASE acc.err = NoError
    <3>1. acc.val[k] = start[k]
      BY <1>2, <2>4
    <3>2. run[k] = Put(acc, part, done)
      BY <2>2, <2>4, <3>1 DEF ItemStep
    <3> HIDE DEF acc, done, alone
    <3>3. run[k].err = part.err /\ run[k].log = acc.log \o part.log
      <4>1. Put(acc, part, done).err = part.err /\ Put(acc, part, done).log = acc.log \o part.log
        BY DEF Put
      <4> QED  BY <3>2, <4>1
    <3>4. ASSUME part.err = NoError
          PROVE  /\ IsSequence(run[k].log) /\ Calls(run[k]) = upTo(k)
                 /\ \A i \in 1..k : /\ alone(i).err = NoError /\ run[i - 1].err = NoError
                                    /\ Contains(run[k].log, alone(i).log)
      <4>1. IsSequence(part.log)
        BY <3>4 DEF alone
      <4>2. IsSequence(run[k].log) /\ Members(run[k].log) = Members(acc.log) \cup Members(part.log)
        BY <2>1, <2>4, <3>3, <4>1, Joined
      <4>3. upTo(k) = upTo(k - 1) \cup Calls(part)
        BY <1>1, <1>5
      <4>4. Calls(run[k]) = upTo(k)
        BY <2>1, <2>4, <4>2, <4>3 DEF Calls
      <4>5. ASSUME NEW i \in 1..k
            PROVE  alone(i).err = NoError /\ run[i - 1].err = NoError /\ Contains(run[k].log, alone(i).log)
        <5>1. CASE i = k
          BY <2>1, <2>4, <3>3, <3>4, <4>1, <5>1, ContainsParts DEF acc
        <5>2. CASE i # k
          <6>1. i \in 1..(k - 1) /\ i \in 1..n
            BY <1>1, <5>2
          <6>2. alone(i).err = NoError /\ run[i - 1].err = NoError /\ Contains(acc.log, alone(i).log)
            BY <2>1, <2>4, <6>1
          <6>3. IsSequence(alone(i).log)
            BY <6>1, <6>2 DEF alone
          <6> QED  BY <2>1, <2>4, <3>3, <4>1, <6>2, <6>3, ContainsParts
        <5> QED  BY <5>1, <5>2
      <4> QED  BY <4>2, <4>4, <4>5
    <3>5. ItemsCalled(t, run, start, items, path, e, k)
      BY <3>3, <3>4 DEF ItemsCalled, upTo, alone
    <3> QED  BY <1>1, <3>5
  <2> QED  BY <2>3, <2>4
<1> HIDE DEF S
<1>8. \A k \in 1..n : k - 1 \in S => k \in S
  BY <1>7
<1> HIDE DEF n
<1>9. \A k \in 0..n : k \in S
  BY <1>1, <1>6, <1>8, LoopOfItems!LoopInvariant
<1> QED
  BY <1>9 DEF S, n, run

\* What a walk over the items that ends well has validated.
ItemsValidated(t, r, items, path, e) ==
    r.err = NoError =>
      /\ IsSequence(r.log)
      /\ Covers(r.log, FilledItems(t, r.val, items, path, e))
      /\ HandlersOffRules => Calls(r) \subseteq RuledInItems(t, r.val, path)

LEMMA ItemsValidate ==
    ASSUME Recursion, RuledRecurs, HandlersKeepTypes, NEW t \in Types, t.kind \in Containers, SmallerValidating(t),
           NEW e, IsEnv(e), NEW path, NEW items \in Seq(Inputs),
           NEW start, start = [i \in 1..Len(items) |-> start[i]],
           \A i \in 1..Len(items) : HasType(start[i], t.elem)
    PROVE  ItemsValidated(t, Converted(t, start, items, path, e), items, path, e)
<1> DEFINE n == Len(items)
           run == ItemRun(t, start, items, path, e)
           alone(i) == ItemAlone(t, start[i], items, path, e, i)
           here(i) == ItemPath(path, i)
           dueTo(i) == Filled(t.elem, alone(i).val, items[i], here(i), e)
           r == Converted(t, start, items, path, e)
<1>1. n \in Nat /\ n \in 0..n /\ DOMAIN items = 1..n
  OBVIOUS
<1>2. SmallerKeep(t)
  BY AllKeep DEF SmallerKeep
<1>3. r = run[n]
  BY ItemsConverted
<1>4. IsList(r, t.elem, 1..n)
  BY <1>2, ItemsKeep
<1>5. \A i \in 1..n : ValidatesAs(t.elem, alone(i), here(i), dueTo(i))
  BY OneItemValidates
<1>6. \A i \in 1..n : run[i - 1].err = NoError => run[n].val[i] = alone(i).val
  BY <1>2, ItemAhead, SMTT(20)
<1>7. \A k \in 0..n : ItemsCalled(t, run, start, items, path, e, k)
  <2>1. \A i \in 1..n : alone(i).err = NoError => IsSequence(alone(i).log)
    BY <1>5 DEF ValidatesAs
  <2> HIDE DEF n
  <2> QED  BY <2>1, ItemCalls DEF n
<1> SUFFICES ASSUME r.err = NoError PROVE ItemsValidated(t, r, items, path, e)
  BY DEF ItemsValidated
<1>8. /\ IsSequence(r.log) /\ Calls(r) = UNION {Calls(alone(i)) : i \in 1..n}
      /\ \A i \in 1..n : alone(i).err = NoError /\ run[i - 1].err = NoError /\ Contains(r.log, alone(i).log)
  BY <1>1, <1>3, <1>7 DEF ItemsCalled, CallsOfItems
<1>9. \A i \in 1..n : r.val[i] = alone(i).val
  BY <1>3, <1>6, <1>8
<1>10. \A i \in 1..n : /\ RuledItem(t, r.val, path, i) = Ruled(t.elem, alone(i).val, here(i))
                       /\ FilledItem(t, r.val, items, path, e, i) = dueTo(i)
  BY <1>9 DEF RuledItem, FilledItem, ItemPath
<1>11. RuledInItems(t, r.val, path) = UNION {RuledItem(t, r.val, path, i) : i \in 1..n}
  BY <1>4 DEF RuledInItems, IsList
<1> HIDE DEF r, n, run, alone, here, dueTo
<1>12. HandlersOffRules => Calls(r) \subseteq RuledInItems(t, r.val, path)
  <2>1. HandlersOffRules => \A i \in 1..n : Calls(alone(i)) \subseteq RuledItem(t, r.val, path, i)
    BY <1>5, <1>8, <1>10 DEF ValidatesAs
  <2> QED  BY <1>8, <1>11, <2>1
<1>13. Covers(r.log, FilledItems(t, r.val, items, path, e))
  <2>1. \A i \in 1..n : IsSequence(alone(i).log) /\ Covers(alone(i).log, dueTo(i))
    BY <1>5, <1>8 DEF ValidatesAs
  <2>2. \A i \in 1..n : Covers(r.log, dueTo(i))
    BY <1>8, <2>1, ContainsCovers
  <2>3. FilledItems(t, r.val, items, path, e) = UNION {dueTo(i) : i \in 1..n}
    BY <1>1, <1>10 DEF FilledItems
  <2> QED  BY <2>2, <2>3 DEF Covers
<1> QED
  BY <1>8, <1>12, <1>13 DEF ItemsValidated

\* What a list that is assigned has validated, when it is a value v and when
\* its items are not all there is.
ListDue(t, v, items, path, e) ==
    CASE t.kind = "slice" -> FilledItems(t, v.slice, items, path, e)
      [] t.kind = "array" -> FilledItems(t, v.array, items, path, e)

LEMMA ArrayValidates ==
    ASSUME Recursion, RuledRecurs, HandlersKeepTypes, NEW t \in Types, t.kind = "array", SmallerValidating(t),
           NEW e, IsEnv(e), NEW path, NEW items \in Seq(Inputs), NEW old, HasType(old, t)
    PROVE  LET r == assignItems(t, old, items, path, e)
           IN /\ ValidatesAs(t, r, path, ListDue(t, r.val, items, path, e))
              /\ r.err = NoError => r.val = [array |-> r.val.array]
<1> DEFINE n == Len(items)
           start == old.array
           r == Converted(t, start, items, path, e)
           all == assignItems(t, old, items, path, e)
<1>1. t.elem \in Types /\ t.kind \in Containers
  BY Elements DEF Containers
<1>2. old = [array |-> start] /\ start = [i \in 1..t.len |-> start[i]] /\ \A i \in 1..t.len : HasType(start[i], t.elem)
  <2>1. \A i \in 1..t.len : InnerHasType(start[i], t.elem)
    BY DEF HasType
  <2> QED  BY <1>1, <2>1 DEF HasType, Recursion
<1>3. CASE n # t.len
  <2>1. all = Fail(old, "ErrInvalidValue", path)
    BY <1>3 DEF assignItems
  <2> HIDE DEF all
  <2>2. all.err # NoError
    BY <2>1, FailIsError DEF ErrorKinds
  <2> QED  BY <2>2, ErrorsValidate DEF all
<1>4. CASE n = t.len
  <2>1. all = [r EXCEPT !.val = [array |-> @]]
    BY <1>4 DEF assignItems
  <2>2. IsList(r, t.elem, 1..n)
    <3>1. SmallerKeep(t)
      BY AllKeep DEF SmallerKeep
    <3> QED  BY <1>1, <1>2, <1>4, <3>1, ItemsKeep
  <2>3. ItemsValidated(t, r, items, path, e)
    BY <1>1, <1>2, <1>4, ItemsValidate
  <2> DEFINE done == [val |-> [array |-> r.val], err |-> r.err, log |-> r.log]
  <2> HIDE DEF r
  <2>4. all = done
    <3>1. r = [val |-> r.val, err |-> r.err, log |-> r.log]
      BY <2>2 DEF IsList
    <3> QED  BY <2>1, <3>1
  <2>5. Ruled(t, done.val, path) = RuledInItems(t, r.val, path)
    BY RuledItems
  <2>6. ListDue(t, done.val, items, path, e) = FilledItems(t, r.val, items, path, e)
    BY DEF ListDue
  <2>7. done.err = r.err /\ done.log = r.log /\ Calls(done) = Calls(r) /\ done.val = [array |-> done.val.array]
    BY DEF Calls
  <2> HIDE DEF done, start, all
  <2>8. ValidatesAs(t, done, path, ListDue(t, done.val, items, path, e))
    BY <2>3, <2>5, <2>6, <2>7 DEF ItemsValidated, ValidatesAs
  <2> QED  BY <2>4, <2>7, <2>8 DEF all
<1> QED
  BY <1>3, <1>4

LEMMA SliceValidates ==
    ASSUME Recursion, RuledRecurs, HandlersKeepTypes, NEW t \in Types, t.kind = "slice", SmallerValidating(t),
           NEW e, IsEnv(e), NEW path, NEW items \in Seq(Inputs), NEW old, HasType(old, t)
    PROVE  LET r == assignItems(t, old, items, path, e)
           IN /\ ValidatesAs(t, r, path, ListDue(t, r.val, items, path, e))
              /\ r.err = NoError => r.val = [slice |-> r.val.slice]
<1> DEFINE n == Len(items)
           start == [i \in DOMAIN items |-> Zero(t.elem)]
           r == Converted(t, start, items, path, e)
           all == assignItems(t, old, items, path, e)
<1>1. t.elem \in Types /\ t.kind \in Containers /\ DOMAIN items = 1..n
  BY Elements DEF Containers
<1>2. start = [i \in 1..n |-> start[i]] /\ \A i \in 1..n : HasType(start[i], t.elem)
  BY <1>1, ZeroHasType
<1>3. all = [r EXCEPT !.val = IF r.err = NoError THEN [slice |-> @] ELSE old]
  BY DEF assignItems
<1> HIDE DEF start
<1>4. IsList(r, t.elem, 1..n)
  <2>1. SmallerKeep(t)
    BY AllKeep DEF SmallerKeep
  <2> QED  BY <1>1, <1>2, <2>1, ItemsKeep
<1>5. ItemsValidated(t, r, items, path, e)
  BY <1>1, <1>2, ItemsValidate
<1> HIDE DEF r
<1> DEFINE done == [val |-> IF r.err = NoError THEN [slice |-> r.val] ELSE old, err |-> r.err, log |-> r.log]
<1>6. all = done
  <2>1. r = [val |-> r.val, err |-> r.err, log |-> r.log]
    BY <1>4 DEF IsList
  <2> QED  BY <1>3, <2>1
<1>7. r.err = NoError => /\ Ruled(t, done.val, path) = RuledInItems(t, r.val, path)
                         /\ ListDue(t, done.val, items, path, e) = FilledItems(t, r.val, items, path, e)
                         /\ done.val = [slice |-> done.val.slice]
  BY RuledItems DEF ListDue
<1>8. done.err = r.err /\ done.log = r.log /\ Calls(done) = Calls(r)
  BY DEF Calls
<1> HIDE DEF done, all
<1>9. ValidatesAs(t, done, path, ListDue(t, done.val, items, path, e))
  BY <1>5, <1>7, <1>8 DEF ItemsValidated, ValidatesAs
<1> QED
  BY <1>6, <1>7, <1>8, <1>9 DEF all

(* assignMap *)

\* What an entry makes of the zero value it starts from.
EntryAlone(t, object, path, e, k) == assign(t.elem, Zero(t.elem), object[k], Append(path, k), e)

LEMMA OneEntryValidates ==
    ASSUME Recursion, RuledRecurs, HandlersKeepTypes, NEW t \in Types, t.kind = "map", SmallerValidating(t), NEW e, IsEnv(e),
           NEW path, NEW src \in Inputs, Is(src, "object"), NEW k \in DOMAIN src.object
    PROVE  LET r == EntryAlone(t, src.object, path, e, k)
           IN ValidatesAs(t.elem, r, Append(path, k), Filled(t.elem, r.val, src.object[k], Append(path, k), e))
<1> DEFINE here == Append(path, k)
<1>1. t.elem \in Types /\ Validating(t.elem) /\ HasType(Zero(t.elem), t.elem)
  BY Elements, ZeroHasType DEF SmallerValidating, Containers
<1>2. src.object[k] \in Inputs
  BY InputsAreNodes, NodesAssumption DEF Inputs
<1> HIDE DEF here
<1>3. LET r == assign(t.elem, Zero(t.elem), src.object[k], here, e)
      IN ValidatesAs(t.elem, r, here, Filled(t.elem, r.val, src.object[k], here, e))
  BY <1>1, <1>2 DEF Validating
<1> QED
  BY <1>3 DEF here, EntryAlone

\* The calls of the entries that a walk over the keys has made so far.
CallsOfEntries(t, object, path, e, K) == UNION {Calls(EntryAlone(t, object, path, e, k)) : k \in K}

EntriesCalled(t, object, path, e, acc) ==
    acc.err = NoError =>
      /\ IsSequence(acc.log)
      /\ Calls(acc) = CallsOfEntries(t, object, path, e, DOMAIN acc.val)
      /\ \A k \in DOMAIN acc.val :
           /\ k \in DOMAIN object
           /\ EntryAlone(t, object, path, e, k).err = NoError
           /\ acc.val[k] = EntryAlone(t, object, path, e, k).val
           /\ Contains(acc.log, EntryAlone(t, object, path, e, k).log)

\* The entries whose keys are among the first i have been converted, and no other.
EntriesMet(object, acc, i) ==
    acc.err = NoError => /\ \A k \in DOMAIN acc.val : \E j \in 1..i : k = KeyOrder[j]
                         /\ \A j \in 1..i : KeyOrder[j] \in DOMAIN object => KeyOrder[j] \in DOMAIN acc.val

LEMMA EntryCalls ==
    ASSUME Recursion, RuledRecurs, NEW t \in Types, t.kind = "map", NEW object, NEW path, NEW e,
           \A k \in DOMAIN object : LET r == EntryAlone(t, object, path, e, k)
                                    IN r.err = NoError => IsSequence(r.log)
    PROVE  LET given == [type |-> t.elem, object |-> object, path |-> path, env |-> e]
               r == EntryLoop!After(given, Ok(EmptyTree), Len(KeyOrder))
           IN EntriesCalled(t, object, path, e, r) /\ EntriesMet(object, r, Len(KeyOrder))
<1> DEFINE n == Len(KeyOrder)
           given == [type |-> t.elem, object |-> object, path |-> path, env |-> e]
           after == LoopOfEntries!Run(given, Ok(EmptyTree), n)
           Holds(r, i) == EntriesCalled(t, object, path, e, r) /\ EntriesMet(object, r, i)
           alone(k) == EntryAlone(t, object, path, e, k)
           S == {i \in 0..n : Holds(after[i], i)}
<1>1. n \in Nat /\ DOMAIN KeyOrder = 1..n /\ t.elem \in Types
  BY TextsAssumption, Elements DEF Containers
<1>2. /\ after[0] = Ok(EmptyTree)
      /\ \A i \in 1..n : after[i] = NextEntry(given, after[i - 1], i)
  BY <1>1, LoopOfEntries!RunOfRounds
<1>3. EntryLoop!After(given, Ok(EmptyTree), n) = after[n]
  BY DEF EntryLoop!After, EntryLoop!Run, LoopOfEntries!Run
<1> HIDE DEF after
<1>4. 0 \in S
  <2>1. after[0].log = <<>> /\ after[0].val = EmptyTree /\ DOMAIN after[0].val = {}
    BY <1>2 DEF Ok, EmptyTree
  <2>2. IsSequence(after[0].log) /\ Calls(after[0]) = {}
    BY <2>1, EmptySequence DEF Calls
  <2>3. CallsOfEntries(t, object, path, e, {}) = {}
    BY DEF CallsOfEntries
  <2>4. EntriesCalled(t, object, path, e, after[0])
    BY <2>1, <2>2, <2>3 DEF EntriesCalled
  <2>5. EntriesMet(object, after[0], 0)
    <3>1. 1..0 = {}
      OBVIOUS
    <3> QED  BY <2>1, <3>1 DEF EntriesMet
  <2> QED  BY <1>1, <2>4, <2>5
<1>5. ASSUME NEW i \in 1..n, i - 1 \in S PROVE i \in S
  <2> DEFINE acc == after[i - 1]
             k == KeyOrder[i]
             part == alone(k)
             done == WithEntry(acc.val, k, part.val)
  <2>1. EntriesCalled(t, object, path, e, acc) /\ EntriesMet(object, acc, i - 1) /\ after[i] = NextEntry(given, acc, i)
    BY <1>2, <1>5
  <2>2. /\ i \in 1..i /\ 1..(i - 1) \subseteq 1..i
        /\ \A m \in 1..i : m = i \/ m \in 1..(i - 1)
    BY <1>1
  <2> HIDE DEF acc
  <2>3. CASE acc.err # NoError \/ i \notin sortedKeys(object)
    <3>1. after[i] = acc
      BY <2>1, <2>3 DEF NextEntry
    <3>2. EntriesMet(object, acc, i)
      <4>1. acc.err = NoError => k \notin DOMAIN object
        BY <1>1, <2>3 DEF sortedKeys
      <4> QED  BY <2>1, <2>2, <4>1 DEF EntriesMet
    <3> QED  BY <1>1, <2>1, <3>1, <3>2
  <2>4. CASE acc.err = NoError /\ i \in sortedKeys(object)
    <3>1. k \in DOMAIN object
      BY <2>4 DEF sortedKeys
    <3>2. part = InnerAssign(t.elem, Zero(t.elem), object[k], Append(path, k), e)
      BY <1>1 DEF Recursion, EntryAlone
    <3>3. after[i] = Put(acc, part, done)
      BY <2>1, <2>4, <3>2 DEF NextEntry
    <3>4. /\ DOMAIN done = DOMAIN acc.val \cup {k}
          /\ done[k] = part.val
          /\ \A j \in DOMAIN acc.val : j # k => done[j] = acc.val[j]
      BY DEF WithEntry
    <3>5. k \notin DOMAIN acc.val
      <4>1. \A m \in 1..(i - 1) : m \in 1..n /\ m # i
        BY <1>1
      <4>2. \A m \in 1..(i - 1) : KeyOrder[m] # KeyOrder[i]
        BY <1>1, <4>1, TextsAssumption
      <4> QED  BY <2>1, <2>4, <4>2 DEF EntriesMet
    <3>6. EntriesMet(object, after[i], i)
      <4>1. after[i].val = done
        BY <3>3 DEF Put
      <4> HIDE DEF done
      <4>2. \A j \in DOMAIN done : \E m \in 1..i : j = KeyOrder[m]
        BY <2>1, <2>2, <2>4, <3>4 DEF EntriesMet
      <4>3. \A m \in 1..i : KeyOrder[m] \in DOMAIN object => KeyOrder[m] \in DOMAIN done
        BY <2>1, <2>2, <2>4, <3>4 DEF EntriesMet
      <4> QED  BY <4>1, <4>2, <4>3 DEF EntriesMet
    <3> HIDE DEF done, alone, k
    <3>7. after[i].val = done /\ after[i].err = part.err /\ after[i].log = acc.log \o part.log
      <4>1. /\ Put(acc, part, done).val = done /\ Put(acc, part, done).err = part.err
            /\ Put(acc, part, done).log = acc.log \o part.log
        BY DEF Put
      <4> QED  BY <3>3, <4>1
    <3>8. ASSUME part.err = NoError
          PROVE  /\ IsSequence(after[i].log)
                 /\ Calls(after[i]) = CallsOfEntries(t, object, path, e, DOMAIN done)
                 /\ \A j \in DOMAIN done : /\ j \in DOMAIN object /\ alone(j).err = NoError /\ done[j] = alone(j).val
                                           /\ Contains(after[i].log, alone(j).log)
      <4>1. /\ IsSequence(acc.log) /\ Calls(acc) = CallsOfEntries(t, object, path, e, DOMAIN acc.val)
            /\ \A j \in DOMAIN acc.val : /\ j \in DOMAIN object /\ alone(j).err = NoError /\ acc.val[j] = alone(j).val
                                         /\ Contains(acc.log, alone(j).log)
        BY <2>1, <2>4 DEF EntriesCalled, alone
      <4>2. IsSequence(part.log)
        BY <3>1, <3>8 DEF alone
      <4>3. IsSequence(after[i].log) /\ Calls(after[i]) = Calls(acc) \cup Calls(part)
        BY <3>7, <4>1, <4>2, Joined DEF Calls
      <4>4. CallsOfEntries(t, object, path, e, DOMAIN done)
              = CallsOfEntries(t, object, path, e, DOMAIN acc.val) \cup Calls(part)
        BY <3>4 DEF CallsOfEntries, alone
      <4>5. \A j \in DOMAIN done : j \in DOMAIN object /\ alone(j).err = NoError /\ done[j] = alone(j).val
        BY <3>1, <3>4, <3>8, <4>1
      <4>6. ASSUME NEW j \in DOMAIN done PROVE Contains(after[i].log, alone(j).log)
        <5>1. CASE j = k
          BY <3>7, <4>1, <4>2, <5>1, ContainsParts
        <5>2. CASE j # k
          <6>1. Contains(acc.log, alone(j).log) /\ IsSequence(alone(j).log)
            BY <3>4, <4>1, <5>2 DEF alone
          <6> QED  BY <3>7, <4>1, <4>2, <6>1, ContainsParts
        <5> QED  BY <5>1, <5>2
      <4> QED  BY <4>1, <4>3, <4>4, <4>5, <4>6
    <3>9. EntriesCalled(t, object, path, e, after[i])
      BY <3>7, <3>8 DEF EntriesCalled, alone
    <3> QED  BY <1>1, <3>9, <3>6
  <2> QED  BY <2>3, <2>4
<1> HIDE DEF S
<1>6. \A i \in 1..n : i - 1 \in S => i \in S
  BY <1>5
<1> HIDE DEF n, given, Holds
<1>7. n \in S
  <2>1. \A i \in 0..n : i \in S
    BY <1>1, <1>4, <1>6, LoopOfEntries!LoopInvariant
  <2> QED  BY <1>1, <2>1
<1> QED
  BY <1>3, <1>7 DEF S, Holds, n, given

LEMMA MapValidates ==
    ASSUME Recursion, RuledRecurs, FilledRecurs, HandlersKeepTypes, NEW t \in Types, t.kind = "map",
           SmallerValidating(t), NEW e, IsEnv(e), NEW path, NEW src \in Inputs, NEW old, HasType(old, t)
    PROVE  LET r == assignMap(t, old, src, path, e)
           IN ValidatesAs(t, r, path, Filled(t, r.val, src, path, e))
<1> DEFINE given == [type |-> t.elem, object |-> src.object, path |-> path, env |-> e]
           r == EntryLoop!After(given, Ok(EmptyTree), Len(KeyOrder))
           alone(k) == EntryAlone(t, src.object, path, e, k)
           dueTo(k) == Filled(t.elem, alone(k).val, src.object[k], Append(path, k), e)
           all == assignMap(t, old, src, path, e)
           done == [val |-> IF r.err = NoError THEN [map |-> r.val] ELSE old, err |-> r.err, log |-> r.log]
<1>1. CASE ~Is(src, "object")
  <2>1. all = Fail(old, "ErrInvalidValue", path)
    BY <1>1 DEF assignMap
  <2> HIDE DEF all
  <2>2. all.err # NoError
    BY <2>1, FailIsError DEF ErrorKinds
  <2> QED  BY <2>2, ErrorsValidate DEF all
<1>2. CASE Is(src, "object")
  <2>1. all = [r EXCEPT !.val = IF r.err = NoError THEN [map |-> @] ELSE old]
    BY <1>2 DEF assignMap
  <2>2. \E D : IsList(r, t.elem, D)
    <3>1. SmallerKeep(t)
      BY AllKeep DEF SmallerKeep
    <3> QED  BY <1>2, <3>1, EntriesKeep
  <2>3. \A k \in DOMAIN src.object : ValidatesAs(t.elem, alone(k), Append(path, k), dueTo(k))
    BY <1>2, OneEntryValidates
  <2>4. EntriesCalled(t, src.object, path, e, r) /\ EntriesMet(src.object, r, Len(KeyOrder))
    <3>1. \A k \in DOMAIN src.object : alone(k).err = NoError => IsSequence(alone(k).log)
      BY <2>3 DEF ValidatesAs
    <3> QED  BY <3>1, EntryCalls
  <2> HIDE DEF r
  <2>5. all = done
    <3>1. r = [val |-> r.val, err |-> r.err, log |-> r.log]
      BY <2>2 DEF IsList
    <3> QED  BY <2>1, <3>1
  <2>6. done.err = r.err /\ done.log = r.log /\ Calls(done) = Calls(r) /\ (r.err = NoError => done.val = [map |-> r.val])
    BY DEF Calls
  <2> HIDE DEF done, alone, all, dueTo
  <2> SUFFICES ASSUME r.err = NoError PROVE ValidatesAs(t, done, path, Filled(t, done.val, src, path, e))
    BY <2>5, <2>6, ErrorsValidate DEF all
  <2>7. Ruled(t, done.val, path) = RuledInEntries(t, r.val, path)
    BY <2>6, RuledItems
  <2>8. Filled(t, done.val, src, path, e) \in {{}, FilledEntries(t, r.val, src.object, path, e)}
    BY <1>2, <2>6, FilledInside
  <2>9. Calls(r) = UNION {Calls(alone(k)) : k \in DOMAIN r.val} /\ IsSequence(r.log)
    BY <2>4 DEF EntriesCalled, CallsOfEntries, alone
  <2>10. \A k \in DOMAIN r.val : /\ k \in DOMAIN src.object /\ alone(k).err = NoError /\ r.val[k] = alone(k).val
                                 /\ Contains(r.log, alone(k).log)
    BY <2>4 DEF EntriesCalled, alone
  <2>11. HandlersOffRules => Calls(r) \subseteq RuledInEntries(t, r.val, path)
    <3>1. HandlersOffRules => \A k \in DOMAIN r.val : Calls(alone(k)) \subseteq RuledEntry(t, r.val, path, k)
      BY <2>3, <2>10 DEF ValidatesAs, RuledEntry
    <3> QED  BY <2>9, <3>1 DEF RuledInEntries
  <2>12. Covers(r.log, FilledEntries(t, r.val, src.object, path, e))
    <3>1. DOMAIN src.object \subseteq DOMAIN r.val
      <4> SUFFICES ASSUME NEW k \in DOMAIN src.object PROVE k \in DOMAIN r.val
        OBVIOUS
      <4>1. src \in Node
        BY <1>2, InputsAreNodes DEF Inputs
      <4>2. PICK i \in DOMAIN KeyOrder : KeyOrder[i] = k
        BY <1>2, <4>1, KeysAssumption
      <4>3. DOMAIN KeyOrder = 1..Len(KeyOrder)
        BY TextsAssumption
      <4> QED  BY <2>4, <4>2, <4>3 DEF EntriesMet
    <3>2. ASSUME NEW k \in DOMAIN src.object
          PROVE  Covers(r.log, FilledEntry(t, r.val, src.object, path, e, k))
      <4>1. /\ alone(k).err = NoError /\ r.val[k] = alone(k).val /\ Contains(r.log, alone(k).log)
        BY <2>10, <3>1
      <4>2. IsSequence(alone(k).log) /\ Covers(alone(k).log, dueTo(k))
        BY <2>3, <4>1 DEF ValidatesAs
      <4>3. FilledEntry(t, r.val, src.object, path, e, k) = dueTo(k)
        BY <4>1 DEF FilledEntry, dueTo
      <4> QED  BY <2>9, <4>1, <4>2, <4>3, ContainsCovers
    <3> QED  BY <3>2 DEF FilledEntries, Covers
  <2> QED  BY <2>6, <2>7, <2>8, <2>9, <2>11, <2>12, CoversNothing DEF ValidatesAs
<1> QED
  BY <1>1, <1>2

(* assign and assignString *)

LEMMA UnmarshalValidates ==
    ASSUME NEW t, NEW old, NEW src, NEW path
    PROVE  ValidatesAs(t, Unmarshal(t, old, src, path), path, {})
<1>1. CASE ~Readable(src)
  BY <1>1, ErrorsValidate DEF Unmarshal, ErrorKinds
<1>2. CASE Readable(src)
  <2>1. PICK v : Unmarshal(t, old, src, path) = Ok(v)
    BY <1>2 DEF Unmarshal
  <2> QED  BY <2>1, QuietValidates
<1> QED
  BY <1>1, <1>2

LEMMA PlainValidates ==
    ASSUME NEW t, NEW old, NEW src, NEW path
    PROVE  /\ ValidatesAs(t, assignScalar(t, old, src, path), path, {})
           /\ ValidatesAs(t, assignInterface(t, old, src, path), path, {})
<1>1. ValidatesAs(t, Fail(old, "ErrInvalidValue", path), path, {})
  BY ErrorsValidate DEF ErrorKinds
<1>2. ValidatesAs(t, assignScalar(t, old, src, path), path, {})
  <2>1. CASE Scalar(t, src) = {}
    BY <1>1, <2>1 DEF assignScalar
  <2>2. CASE Scalar(t, src) # {}
    <3>1. PICK v : assignScalar(t, old, src, path) = Ok(v)
      BY <2>2 DEF assignScalar
    <3> QED  BY <3>1, QuietValidates
  <2> QED  BY <2>1, <2>2
<1>3. ValidatesAs(t, assignInterface(t, old, src, path), path, {})
  BY <1>1, QuietValidates DEF assignInterface
<1> QED
  BY <1>2, <1>3

LEMMA StructsValidate ==
    ASSUME Recursion, RuledRecurs, FilledRecurs, HandlersKeepTypes, NEW t \in Types, t.kind = "struct",
           SmallerValidating(t), NEW e, IsEnv(e), NEW path, NEW src \in Inputs, NEW old, HasType(old, t)
    PROVE  LET r == assignStruct(t, old, src, path, e)
           IN ValidatesAs(t, r, path, Filled(t, r.val, src, path, e))
<1> DEFINE r == assignStruct(t, old, src, path, e)
           due(v) == Filled(t, v, src, path, e)
<1>1. CASE Hook(t, "json")
  <2>1. due(r.val) = {}
    BY <1>1, FilledOthers
  <2> HIDE DEF due
  <2>2. r = Unmarshal(t, old, src, path)
    BY <1>1 DEF assignStruct
  <2>3. ValidatesAs(t, r, path, {})
    BY <2>2, UnmarshalValidates
  <2> QED  BY <2>1, <2>3 DEF due
<1>2. CASE ~Hook(t, "json") /\ Is(src, "object") /\ isBindableStruct(t)
  <2> DEFINE s == bindStruct(src.object, t, old, path, e)
  <2>1. r = s
    BY <1>2 DEF assignStruct
  <2>2. ValidatesAs(t, s, path, FilledStruct(t, s.val, src.object, path, e))
    BY <1>2, InputsAreNodes, StructValidates
  <2>3. due(s.val) \in {{}, FilledStruct(t, s.val, src.object, path, e)}
    BY <1>2, FilledOthers
  <2> HIDE DEF s, r, due
  <2>4. ValidatesAs(t, s, path, due(s.val))
    BY <2>2, <2>3, LessIsDue
  <2> QED  BY <2>1, <2>4 DEF due, r
<1>3. CASE ~Hook(t, "json") /\ ~(Is(src, "object") /\ isBindableStruct(t))
  <2>1. r = Fail(old, "ErrInvalidValue", path)
    BY <1>3 DEF assignStruct
  <2> HIDE DEF r
  <2>2. r.err # NoError
    BY <2>1, FailIsError DEF ErrorKinds
  <2> QED  BY <2>2, ErrorsValidate DEF r
<1> QED
  BY <1>1, <1>2, <1>3

LEMMA ListValidates ==
    ASSUME Recursion, RuledRecurs, FilledRecurs, HandlersKeepTypes, NEW t \in Types, t.kind \in {"slice", "array"},
           SmallerValidating(t), NEW e, IsEnv(e), NEW path, NEW old, HasType(old, t)
    PROVE  /\ \A src \in Inputs :
                LET r == assignSlice(t, old, src, path, e)
                IN ValidatesAs(t, r, path, Filled(t, r.val, src, path, e))
           /\ \A raw \in STRING :
                ValidatesAs(t, assignItems(t, old, [i \in DOMAIN ItemsIn(raw) |-> Text(ItemsIn(raw)[i])], path, e),
                            path, {})
<1>1. \A items \in Seq(Inputs) :
        LET r == assignItems(t, old, items, path, e)
        IN /\ ValidatesAs(t, r, path, ListDue(t, r.val, items, path, e))
           /\ r.err = NoError => \/ t.kind = "slice" /\ r.val = [slice |-> r.val.slice]
                                 \/ t.kind = "array" /\ r.val = [array |-> r.val.array]
  <2>1. CASE t.kind = "slice"
    BY <2>1, SliceValidates
  <2>2. CASE t.kind = "array"
    BY <2>2, ArrayValidates
  <2> QED  BY <2>1, <2>2
<1>2. ASSUME NEW src \in Inputs
      PROVE  LET r == assignSlice(t, old, src, path, e)
             IN ValidatesAs(t, r, path, Filled(t, r.val, src, path, e))
  <2> DEFINE r == assignSlice(t, old, src, path, e)
             due(v) == Filled(t, v, src, path, e)
  <2>1. CASE Is(src, "array")
    <3> DEFINE all == ListDue(t, r.val, src.array, path, e)
    <3>1. src.array \in Seq(Inputs)
      BY <2>1, InputsAreNodes
    <3>2. r = assignItems(t, old, src.array, path, e)
      BY <2>1 DEF assignSlice
    <3> HIDE DEF r
    <3>3. /\ ValidatesAs(t, r, path, all)
          /\ r.err = NoError => \/ t.kind = "slice" /\ r.val = [slice |-> r.val.slice]
                                \/ t.kind = "array" /\ r.val = [array |-> r.val.array]
      BY <1>1, <3>1, <3>2
    <3>4. ASSUME t.kind = "slice", r.val = [slice |-> r.val.slice] PROVE due(r.val) \in {{}, all}
      <4> DEFINE items == r.val.slice
      <4>1. due([slice |-> items]) \in {{}, FilledItems(t, items, src.array, path, e)}
        BY <2>1, <3>4, FilledInside
      <4>2. all = FilledItems(t, items, src.array, path, e)
        BY <3>4 DEF ListDue
      <4> HIDE DEF all, due
      <4> QED  BY <3>4, <4>1, <4>2
    <3>5. ASSUME t.kind = "array", r.val = [array |-> r.val.array] PROVE due(r.val) \in {{}, all}
      <4> DEFINE items == r.val.array
      <4>1. due([array |-> items]) \in {{}, FilledItems(t, items, src.array, path, e)}
        BY <2>1, <3>5, FilledInside
      <4>2. all = FilledItems(t, items, src.array, path, e)
        BY <3>5 DEF ListDue
      <4> HIDE DEF all, due
      <4> QED  BY <3>5, <4>1, <4>2
    <3> HIDE DEF all, due
    <3>6. r.err = NoError => due(r.val) \in {{}, all}
      BY <3>3, <3>4, <3>5
    <3>7. ValidatesAs(t, r, path, due(r.val))
      BY <3>3, <3>6, LessIsDue, ErrorsValidate
    <3> QED  BY <3>7 DEF r, due
  <2>2. CASE ~Is(src, "array")
    <3>1. r = Fail(old, "ErrInvalidValue", path)
      BY <2>2 DEF assignSlice
    <3> HIDE DEF r
    <3>2. r.err # NoError
      BY <3>1, FailIsError DEF ErrorKinds
    <3> QED  BY <3>2, ErrorsValidate DEF r
  <2> QED  BY <2>1, <2>2
<1>3. ASSUME NEW raw \in STRING
      PROVE  ValidatesAs(t, assignItems(t, old, [i \in DOMAIN ItemsIn(raw) |-> Text(ItemsIn(raw)[i])], path, e),
                         path, {})
  <2> DEFINE items == [i \in DOMAIN ItemsIn(raw) |-> Text(ItemsIn(raw)[i])]
  <2>1. items \in Seq(Inputs)
    BY TextsOfItems
  <2> HIDE DEF items
  <2>2. ValidatesAs(t, assignItems(t, old, items, path, e), path, {})
    BY <1>1, <2>1, LessIsDue
  <2> QED  BY <2>2 DEF items
<1> QED
  BY <1>2, <1>3

LEMMA PointersValidate ==
    ASSUME Recursion, RuledRecurs, FilledRecurs, HandlersKeepTypes, NEW t \in Types, t.kind = "pointer",
           SmallerValidating(t), NEW old, HasType(old, t), NEW path, NEW e, IsEnv(e)
    PROVE  /\ \A src \in Inputs :
                LET r == assignPointer(t, old, src, path, e)
                IN ValidatesAs(t, r, path, Filled(t, r.val, src, path, e))
           /\ \A raw \in STRING :
                ValidatesAs(t, Pointing(InnerAssignString(t.elem, Allocated(t, old), raw, path, e)), path, {})
<1> DEFINE was == Allocated(t, old)
<1>1. t.elem \in Types /\ Validating(t.elem) /\ Keeps(t.elem)
  BY Elements, AllKeep DEF Containers, SmallerValidating
<1>2. HasType(was, t.elem)
  BY AllocatedHasType
<1>3. ASSUME NEW src \in Inputs
      PROVE  LET r == assignPointer(t, old, src, path, e)
             IN ValidatesAs(t, r, path, Filled(t, r.val, src, path, e))
  <2> DEFINE r == assign(t.elem, was, src, path, e)
             all == assignPointer(t, old, src, path, e)
             due == Filled(t.elem, r.val, src, path, e)
             mine(v) == Filled(t, v, src, path, e)
  <2>1. ValidatesAs(t.elem, r, path, due)
    BY <1>1, <1>2 DEF Validating
  <2>2. all = Pointing(r)
    BY <1>1 DEF assignPointer, Recursion
  <2>3. ASSUME IsResult(r, t.elem) PROVE ValidatesAs(t, all, path, mine(all.val))
    <3>1. Pointing(r).val = [ref |-> r.val]
      BY <2>3 DEF Pointing, IsResult
    <3>2. mine([ref |-> r.val]) \in {{}, due}
      BY FilledBehind
    <3> HIDE DEF r, due, all, mine
    <3>3. ValidatesAs(t, Pointing(r), path, due)
      BY <2>1, <2>3, PointerValidates
    <3>4. mine(all.val) \in {{}, due}
      BY <2>2, <3>1, <3>2
    <3> QED  BY <2>2, <3>3, <3>4, LessIsDue
  <2>4. IsResult(r, t.elem)
    BY <1>1, <1>2 DEF Keeps
  <2> QED  BY <2>3, <2>4
<1>4. ASSUME NEW raw \in STRING
      PROVE  ValidatesAs(t, Pointing(InnerAssignString(t.elem, was, raw, path, e)), path, {})
  <2> DEFINE r == assignString(t.elem, was, raw, path, e)
  <2>1. IsResult(r, t.elem) /\ ValidatesAs(t.elem, r, path, {})
    BY <1>1, <1>2 DEF Keeps, Validating
  <2>2. InnerAssignString(t.elem, was, raw, path, e) = r
    BY <1>1 DEF Recursion
  <2> HIDE DEF r
  <2> QED  BY <2>1, <2>2, PointerValidates
<1> QED
  BY <1>3, <1>4

LEMMA AssignValidates ==
    ASSUME Recursion, RuledRecurs, FilledRecurs, HandlersKeepTypes, NEW t \in Types, SmallerValidating(t),
           NEW e, IsEnv(e), NEW path, NEW src \in Inputs, NEW old, HasType(old, t)
    PROVE  LET r == assign(t, old, src, path, e)
           IN ValidatesAs(t, r, path, Filled(t, r.val, src, path, e))
<1> DEFINE r == assign(t, old, src, path, e)
           due(v) == Filled(t, v, src, path, e)
<1> SUFFICES ValidatesAs(t, r, path, due(r.val))
  OBVIOUS
<1>1. CASE src = Null
  <2>1. due(r.val) = {} /\ r = Ok(old)
    BY <1>1 DEF Filled, assign
  <2> HIDE DEF r, due
  <2> QED  BY <2>1, QuietValidates
<1>2. CASE src # Null /\ Is(src, "text") /\ Hook(t, "text")
  <2>1. due(r.val) = {}
    BY <1>2, FilledOthers
  <2> HIDE DEF due
  <2>2. r = Unmarshal(t, old, src, path)
    BY <1>2 DEF assign
  <2> HIDE DEF r
  <2> QED  BY <2>1, <2>2, UnmarshalValidates
<1>3. CASE src # Null /\ ~(Is(src, "text") /\ Hook(t, "text"))
  <2>1. CASE t.kind = "pointer"
    <3>1. r = assignPointer(t, old, src, path, e)
      BY <1>3, <2>1 DEF assign
    <3> HIDE DEF r
    <3> QED  BY <2>1, <3>1, PointersValidate
  <2>2. CASE t.kind = "any"
    <3>1. r = assignInterface(t, old, src, path)
      BY <1>3, <2>2 DEF assign
    <3>2. due(r.val) = {}
      BY <2>2, FilledOthers
    <3> HIDE DEF r, due
    <3> QED  BY <3>1, <3>2, PlainValidates
  <2>3. CASE t.kind = "struct"
    <3>1. r = assignStruct(t, old, src, path, e)
      BY <1>3, <2>3 DEF assign
    <3> HIDE DEF r
    <3> QED  BY <2>3, <3>1, StructsValidate
  <2>4. CASE t.kind = "map"
    <3>1. r = assignMap(t, old, src, path, e)
      BY <1>3, <2>4 DEF assign
    <3> HIDE DEF r
    <3> QED  BY <2>4, <3>1, MapValidates
  <2>5. CASE t.kind \in {"slice", "array"}
    <3>1. r = assignSlice(t, old, src, path, e)
      BY <1>3, <2>5 DEF assign
    <3> HIDE DEF r
    <3> QED  BY <2>5, <3>1, ListValidates
  <2>6. CASE t.kind \in {"string", "int", "bool"}
    <3>1. r = assignScalar(t, old, src, path)
      BY <1>3, <2>6 DEF assign
    <3>2. due(r.val) = {}
      BY <2>6, FilledOthers
    <3> HIDE DEF r, due
    <3> QED  BY <3>1, <3>2, PlainValidates
  <2> QED  BY <2>1, <2>2, <2>3, <2>4, <2>5, <2>6, TypesAssumption DEF Containers
<1> QED
  BY <1>1, <1>2, <1>3

LEMMA AssignStringValidates ==
    ASSUME Recursion, RuledRecurs, FilledRecurs, HandlersKeepTypes, NEW t \in Types, SmallerValidating(t),
           NEW e, IsEnv(e), NEW path, NEW raw \in STRING, NEW old, HasType(old, t)
    PROVE  ValidatesAs(t, assignString(t, old, raw, path, e), path, {})
<1> DEFINE r == assignString(t, old, raw, path, e)
<1>1. Text(raw) \in Inputs /\ Text(raw) # Null
  BY InputsAreNodes
<1>2. CASE Hook(t, "text")
  BY <1>2, UnmarshalValidates DEF assignString
<1>3. CASE ~Hook(t, "text")
  <2>1. CASE t.kind = "pointer"
    <3>1. r = Pointing(InnerAssignString(t.elem, Allocated(t, old), raw, path, e))
      BY <1>3, <2>1 DEF assignString
    <3> QED  BY <2>1, <3>1, PointersValidate
  <2>2. CASE t.kind = "any"
    <3>1. r = assignInterface(t, old, Text(raw), path)
      BY <1>3, <2>2 DEF assignString
    <3> QED  BY <3>1, PlainValidates
  <2>3. CASE t.kind = "struct"
    <3>1. r = assignStruct(t, old, Text(raw), path, e)
      BY <1>3, <2>3 DEF assignString
    <3> HIDE DEF r
    <3>2. ValidatesAs(t, r, path, Filled(t, r.val, Text(raw), path, e))
      BY <1>1, <2>3, <3>1, StructsValidate
    <3>3. ValidatesAs(t, r, path, {})
      BY <3>2, LessIsDue
    <3> QED  BY <3>3 DEF r
  <2>4. CASE t.kind \in {"slice", "array"}
    <3>1. r = assignItems(t, old, [i \in DOMAIN ItemsIn(raw) |-> Text(ItemsIn(raw)[i])], path, e)
      BY <1>3, <2>4 DEF assignString
    <3> QED  BY <2>4, <3>1, ListValidates
  <2>5. CASE t.kind \in {"string", "int", "bool", "map"}
    <3>1. r = assignScalar(t, old, Text(raw), path)
      BY <1>3, <2>5 DEF assignString
    <3> QED  BY <3>1, PlainValidates
  <2> QED  BY <2>1, <2>2, <2>3, <2>4, <2>5, TypesAssumption DEF Containers
<1> QED
  BY <1>2, <1>3

\* Whatever is bound from whatever, a bind that succeeds has validated what it
\* filled, in turn.
LEMMA AllValidating ==
    ASSUME Recursion, RuledRecurs, FilledRecurs, HandlersKeepTypes
    PROVE  \A t \in Types : Validating(t)
<1> DEFINE G == {t \in Types : Validating(t)}
<1>1. ASSUME NEW t \in Types, \A u \in Types : Depth[u] < Depth[t] => u \in G
      PROVE  t \in G
  <2>1. SmallerValidating(t)
    BY <1>1 DEF SmallerValidating
  <2>2. Validating(t)
    BY <2>1, AssignValidates, AssignStringValidates, StructValidates DEF Validating
  <2> QED  BY <2>2
<1> HIDE DEF G
<1>2. Types \subseteq G
  <2>1. G \in SUBSET Types  BY DEF G
  <2> QED  BY <1>1, <2>1, TypeInduction
<1> QED
  BY <1>2 DEF G

-----------------------------------------------------------------------------
(* Every load that succeeds *)

LEMMA LoadValidates ==
    ASSUME Recursion, RuledRecurs, FilledRecurs, HandlersKeepTypes, Bindable, [Next]_vars, vars' # vars, Success
    PROVE  /\ \A s \in FilledStruct(Root, target', tree, <<>>, env) : CalledInTurn(s, outcome'.log)
           /\ HandlersOffRules => Logged \subseteq Ruled(Root, target', <<>>)
<1> DEFINE r == bindStruct(tree, Root, target, <<>>, env)
<1>1. target' = r.val /\ r.err = NoError /\ outcome'.log = r.log
  BY OnlyBindEndsBound DEF Success, Bind
<1>2. Validating(Root) /\ Root.kind = "struct" /\ IsTree(tree) /\ IsEnv(env) /\ HasType(target, Root)
  BY AllValidating, BindableState
<1>3. ValidatesAs(Root, r, <<>>, FilledStruct(Root, r.val, tree, <<>>, env))
  BY <1>2 DEF Validating
<1>4. Logged = Calls(r)
  BY <1>1 DEF Logged, Calls, Members
<1> HIDE DEF r
<1> QED
  BY <1>1, <1>3, <1>4 DEF ValidatesAs, Covers

\* What binder.go:220 does of validator.go:17, "Validate is called for every
\* struct implementing it while that struct is being filled": a load that
\* succeeds has called the Validate of every struct that the binder filled, at
\* any depth, in lists, behind pointers, embedded or without a section, on what
\* it leaves there and after those of the structs filled inside it.  The
\* structs that read their section themselves, null items and what a handler
\* makes are not filled by the binder (see FilledStruct).
THEOREM BoundAreValidated ==
    ASSUME Recursion, RuledRecurs, FilledRecurs, HandlersKeepTypes
    PROVE  Spec => BoundStructsAreValidated
<1> DEFINE Called == Success => \A s \in FilledStruct(Root, target', tree, <<>>, env) : CalledInTurn(s, outcome'.log)
<1>1. Bindable /\ [Next]_vars => [Called]_vars
  BY LoadValidates
<1> HIDE DEF Called
<1>2. Spec => [][Called]_vars
  BY <1>1, AlwaysBindable, PTL DEF Spec
<1> QED
  BY <1>2 DEF BoundStructsAreValidated, Called

\* "nested structs are validated as soon as they are complete" (validator.go:18):
\* unless a handler of the application changes a struct afterwards, what any
\* Validate saw is what a load that succeeds leaves there.
THEOREM ValidatedWhenComplete ==
    ASSUME Recursion, RuledRecurs, FilledRecurs, HandlersKeepTypes, HandlersOffRules
    PROVE  Spec => ValidateSeesCompleteStructs
<1> DEFINE Complete == Success => Logged \subseteq Ruled(Root, target', <<>>)
<1>1. Bindable /\ [Next]_vars => [Complete]_vars
  BY LoadValidates
<1> HIDE DEF Complete
<1>2. Spec => [][Complete]_vars
  BY <1>1, AlwaysBindable, PTL DEF Spec
<1> QED
  BY <1>2 DEF ValidateSeesCompleteStructs, Complete
=============================================================================
