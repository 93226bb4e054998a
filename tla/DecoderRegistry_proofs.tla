----------------------- MODULE DecoderRegistry_proofs -----------------------
(***************************************************************************)
(* The registry for every set of goroutines and every set of decoders: its *)
(* snapshots are whole, nothing is lost, answers stay true, and it refines *)
(* the atomic registry step by step.                                       *)
(***************************************************************************)
EXTENDS DecoderRegistry, TLAPS

\* The places where a goroutine holds the mutex.
Inside == {"load", "check", "unlock"}

\* The mutex is owned by the one goroutine that is inside.
LockInv == \A p \in Proc : pc[p] \in Inside <=> writes = p

\* What a writer checks and copies is what is published.
FreshInv == \A p \in Proc : pc[p] = "check" => current[p] = snapshot(state)

\* Only a decoder with a format gets past the entry of Register.
UsableInv == \A p \in Proc : pc[p] \in {"load", "check"} => Usable(call[p].decoder)

\* A call that has not been decided has no answer.
UndecidedInv ==
    \A p \in Proc : pc[p] \notin {"idle", "unlock", "return"} => result[p] = Nothing

\* Nobody calls a registry that NewRegistry is still building.
BuildingInv == unregistered # <<>> => \A p \in Proc : pc[p] = "idle"

\* s holds everything the older snapshot r holds.
Extends(s, r) ==
    /\ \A k \in DOMAIN r.decoders : k \in DOMAIN s.decoders /\ s.decoders[k] = r.decoders[k]
    /\ r.formats \subseteq s.formats

\* What a reader works from is an older content of the registry.
PastInv == \A p \in Proc : Extends(snapshot(state), current[p])

\* A decided answer stands from the moment it is decided.
StandsInv ==
    \A p \in Proc : pc[p] \in {"unlock", "return", "idle"} =>
        TrueOf(snapshot(state), call[p], result[p])

IInv ==
    /\ TypeOK
    /\ SnapshotsWhole
    /\ LockInv
    /\ FreshInv
    /\ UsableInv
    /\ UndecidedInv
    /\ BuildingInv
    /\ PastInv
    /\ StandsInv

-----------------------------------------------------------------------------
(* The values: snapshots, copies and answers *)

\* A decoder claims its canonical name among its keys.
LEMMA CanonicalIsKey == \A d : Canonical(d) \in Keys(d)
BY DEF Keys

\* The empty state is a registryState, and it is whole.
LEMMA EmptyStateOK == EmptyState \in RegistryState /\ Whole(EmptyState)
<1>1. EmptyState.decoders \in [{} -> Decoder]
  BY DEF EmptyState
<1>2. {} \in SUBSET UNION {Keys(d) : d \in Decoder}
  OBVIOUS
<1>3. EmptyState.decoders \in UNION {[K -> Decoder] : K \in SUBSET UNION {Keys(d) : d \in Decoder}}
  BY <1>1, <1>2
<1>. QED  BY <1>3 DEF EmptyState, RegistryState, Whole

\* No registryState is the nil pointer.
LEMMA NotNil == \A s \in RegistryState : s # NilState
<1>. SUFFICES ASSUME NEW s \in RegistryState, s = NilState PROVE FALSE
  OBVIOUS
<1>1. DOMAIN s = {"decoders", "formats"}
  BY DEF RegistryState
<1>2. DOMAIN s = {"nil"}
  BY DEF NilState
<1>. QED  BY <1>1, <1>2

\* The snapshot of a published state is that state.
LEMMA SnapshotOf == \A s \in RegistryState : snapshot(s) = s
BY NotNil DEF snapshot

\* Whatever the pointer holds, the snapshot is a registryState.
LEMMA SnapshotType == \A s \in RegistryState \cup {NilState} : snapshot(s) \in RegistryState
BY EmptyStateOK DEF snapshot

\* The copy a registration builds is a registryState.
LEMMA CopyType ==
  ASSUME NEW s \in RegistryState, NEW d \in Decoder
  PROVE  Copy(s, d) \in RegistryState
<1>. DEFINE All == UNION {Keys(e) : e \in Decoder}
            D == DOMAIN s.decoders \cup Keys(d)
            F == [k \in D |-> IF k \in Keys(d) THEN d ELSE s.decoders[k]]
<1>1. PICK K \in SUBSET All : s.decoders \in [K -> Decoder]
  BY DEF RegistryState
<1>2. D \in SUBSET All
  BY <1>1
<1>3. F \in [D -> Decoder]
  BY <1>1
<1>4. F \in UNION {[L -> Decoder] : L \in SUBSET All}
  BY <1>2, <1>3
<1>5. (s.formats \ {Canonical(d)}) \cup {Canonical(d)} \in SUBSET {Canonical(e) : e \in Decoder}
  BY DEF RegistryState
<1>. QED  BY <1>4, <1>5 DEF Copy, RegistryState

\* The copy holds the new decoder under all its keys and lists it.
LEMMA CopyHolds ==
  ASSUME NEW s, NEW d
  PROVE  /\ DOMAIN Copy(s, d).decoders = DOMAIN s.decoders \cup Keys(d)
         /\ \A k \in Keys(d) : Copy(s, d).decoders[k] = d
         /\ \A k \in DOMAIN s.decoders \ Keys(d) : Copy(s, d).decoders[k] = s.decoders[k]
         /\ Copy(s, d).formats = s.formats \cup {Canonical(d)}
BY DEF Copy

\* A decoder none of whose keys is taken adds to the content and changes none.
LEMMA CopyExtends ==
  ASSUME NEW s, NEW d, ~Taken(s, d)
  PROVE  Extends(Copy(s, d), s)
BY CopyHolds DEF Extends, Taken

\* A registration that is not refused keeps a snapshot whole.
LEMMA CopyWhole ==
  ASSUME NEW s, NEW d, Whole(s), ~Taken(s, d)
  PROVE  Whole(Copy(s, d))
<1>. DEFINE c == Copy(s, d)
<1>1. \A k \in DOMAIN c.decoders : (k \in Keys(d) /\ c.decoders[k] = d)
                                   \/ (k \in DOMAIN s.decoders /\ c.decoders[k] = s.decoders[k])
  BY CopyHolds
<1>2. ASSUME NEW k \in DOMAIN c.decoders
      PROVE  /\ k \in Keys(c.decoders[k])
             /\ \A j \in Keys(c.decoders[k]) : j \in DOMAIN c.decoders /\ c.decoders[j] = c.decoders[k]
  <2>1. CASE k \in Keys(d) /\ c.decoders[k] = d
    BY <2>1, CopyHolds
  <2>2. CASE k \in DOMAIN s.decoders /\ c.decoders[k] = s.decoders[k]
    <3>1. k \in Keys(s.decoders[k])
      BY <2>2 DEF Whole
    <3>2. \A j \in Keys(s.decoders[k]) : j \in DOMAIN s.decoders /\ s.decoders[j] = s.decoders[k]
      BY <2>2 DEF Whole
    <3>3. \A j \in DOMAIN s.decoders : j \in DOMAIN c.decoders /\ c.decoders[j] = s.decoders[j]
      BY CopyHolds DEF Taken
    <3>. QED  BY <2>2, <3>1, <3>2, <3>3
  <2>. QED  BY <1>1, <2>1, <2>2
<1>3. c.formats = {Canonical(c.decoders[k]) : k \in DOMAIN c.decoders}
  <2>1. c.formats = s.formats \cup {Canonical(d)}
    BY CopyHolds
  <2>2. s.formats = {Canonical(s.decoders[k]) : k \in DOMAIN s.decoders}
    BY DEF Whole
  <2>3. \A k \in DOMAIN s.decoders : k \in DOMAIN c.decoders /\ c.decoders[k] = s.decoders[k]
    BY CopyHolds DEF Taken
  <2>4. Canonical(d) \in DOMAIN c.decoders /\ c.decoders[Canonical(d)] = d
    BY CopyHolds, CanonicalIsKey
  <2>5. ASSUME NEW f \in c.formats PROVE \E k \in DOMAIN c.decoders : f = Canonical(c.decoders[k])
    BY <2>1, <2>2, <2>3, <2>4
  <2>6. ASSUME NEW k \in DOMAIN c.decoders PROVE Canonical(c.decoders[k]) \in c.formats
    BY <1>1, <2>1, <2>2
  <2>. QED  BY <2>5, <2>6
<1>. QED  BY <1>2, <1>3 DEF Whole

\* What a snapshot holds is kept along a chain of extensions.
LEMMA ExtendsTransitive ==
  ASSUME NEW s, NEW t, NEW u, Extends(s, t), Extends(t, u)
  PROVE  Extends(s, u)
BY DEF Extends

\* An answer that is true of a content is true of every later one.
LEMMA TrueOfLater ==
  ASSUME NEW s, NEW t, NEW c, NEW r, TrueOf(s, c, r), Extends(t, s)
  PROVE  TrueOf(t, c, r)
<1>1. c \in RegisterCalls /\ r.err = "none" =>
        \A k \in Keys(c.decoder) : k \in DOMAIN t.decoders /\ t.decoders[k] = c.decoder
  BY DEF TrueOf, Extends
<1>2. c \in RegisterCalls /\ r.err = "ErrDuplicateDecoder" => Taken(t, c.decoder)
  BY DEF TrueOf, Extends, Taken
<1>3. ASSUME c \in LookupCalls, r.err = "none" PROVE LookupAnswer(t, c.format) = r
  <2>. DEFINE key == normalizeFormat(c.format)
  <2>1. LookupAnswer(s, c.format) = r
    BY <1>3 DEF TrueOf
  <2>2. key \in DOMAIN s.decoders
    BY <1>3, <2>1 DEF LookupAnswer, Answer
  <2>3. key \in DOMAIN t.decoders /\ t.decoders[key] = s.decoders[key]
    BY <2>2 DEF Extends
  <2>. QED  BY <2>1, <2>2, <2>3 DEF LookupAnswer
<1>4. r.formats \subseteq t.formats
  BY DEF TrueOf, Extends
<1>. QED  BY <1>1, <1>2, <1>3, <1>4 DEF TrueOf

-----------------------------------------------------------------------------
(* The published content *)

\* Every step leaves the published content whole and adds to it at most.
LEMMA ContentStep ==
  ASSUME IInv, [Next]_vars
  PROVE  /\ state' \in RegistryState \cup {NilState}
         /\ Whole(snapshot(state)')
         /\ Extends(snapshot(state)', snapshot(state))
<1>. USE DEF IInv
<1>1. CASE state' = state
  BY <1>1 DEF TypeOK, SnapshotsWhole, Extends, snapshot
<1>2. ASSUME NEW d \in Decoder, ~Taken(snapshot(state), d), state' = Copy(snapshot(state), d)
      PROVE  /\ state' \in RegistryState
             /\ Whole(snapshot(state)')
             /\ Extends(snapshot(state)', snapshot(state))
  <2>1. snapshot(state) \in RegistryState
    BY SnapshotType DEF TypeOK
  <2>2. state' \in RegistryState
    BY <1>2, <2>1, CopyType
  <2>3. snapshot(state)' = Copy(snapshot(state), d)
    BY <1>2, <2>2, NotNil DEF snapshot
  <2>. QED  BY <1>2, <2>2, <2>3, CopyWhole, CopyExtends DEF SnapshotsWhole
<1>3. CASE NewRegistryStep
  BY <1>1, <1>2, <1>3 DEF NewRegistryStep, Usable
<1>4. ASSUME NEW p \in Proc, RegisterStore(p)
      PROVE  \E d \in Decoder : ~Taken(snapshot(state), d) /\ state' = Copy(snapshot(state), d)
  BY <1>4 DEF RegisterStore, Goto, FreshInv, UsableInv, Usable
<1>5. ASSUME NEW p \in Proc, Invoke(p) \/ RegisterLock(p) \/ Progress(p), ~RegisterStore(p)
      PROVE  state' = state
  BY <1>5 DEF Invoke, Progress, Call, RegisterCall, LookupCall, FormatsCall, RegisterNil,
     RegisterLock, RegisterLoad, RegisterDuplicate, RegisterUnlock, RegisterReturn,
     LookupLoad, LookupFind, FormatsLoad, FormatsCopy
<1>6. CASE UNCHANGED vars
  BY <1>1, <1>6 DEF vars
<1>. QED  BY <1>1, <1>2, <1>3, <1>4, <1>5, <1>6 DEF Next, Progress

-----------------------------------------------------------------------------
(* The goroutines *)

\* The mutex is held by the goroutine inside Register, and by nobody else.
LEMMA LockStep ==
  ASSUME IInv, [Next]_vars
  PROVE  LockInv'
<1>. DEFINE Goal == LockInv'
<1>. USE ProcAssumption DEF IInv, TypeOK, Locations
<1>1. CASE NewRegistryStep
  BY <1>1 DEF NewRegistryStep, LockInv, Inside
<1>2. ASSUME NEW p \in Proc, RegisterCall(p) PROVE Goal
  BY <1>2 DEF RegisterCall, Call, Goto, LockInv, Inside
<1>3. ASSUME NEW p \in Proc, RegisterNil(p) PROVE Goal
  BY <1>3 DEF RegisterNil, Goto, LockInv, Inside
<1>4. ASSUME NEW p \in Proc, RegisterLock(p) PROVE Goal
  BY <1>4 DEF RegisterLock, Goto, LockInv, Inside
<1>5. ASSUME NEW p \in Proc, RegisterLoad(p) PROVE Goal
  BY <1>5 DEF RegisterLoad, Goto, LockInv, Inside
<1>6. ASSUME NEW p \in Proc, RegisterDuplicate(p) PROVE Goal
  BY <1>6 DEF RegisterDuplicate, Goto, LockInv, Inside
<1>7. ASSUME NEW p \in Proc, RegisterStore(p) PROVE Goal
  BY <1>7 DEF RegisterStore, Goto, LockInv, Inside
<1>8. ASSUME NEW p \in Proc, RegisterUnlock(p) PROVE Goal
  BY <1>8 DEF RegisterUnlock, Goto, LockInv, Inside
<1>9. ASSUME NEW p \in Proc, RegisterReturn(p) PROVE Goal
  BY <1>9 DEF RegisterReturn, Goto, LockInv, Inside
<1>10. ASSUME NEW p \in Proc, LookupCall(p) PROVE Goal
  BY <1>10 DEF LookupCall, Call, Goto, LockInv, Inside
<1>11. ASSUME NEW p \in Proc, LookupLoad(p) PROVE Goal
  BY <1>11 DEF LookupLoad, Goto, LockInv, Inside
<1>12. ASSUME NEW p \in Proc, LookupFind(p) PROVE Goal
  BY <1>12 DEF LookupFind, Goto, LockInv, Inside
<1>13. ASSUME NEW p \in Proc, FormatsCall(p) PROVE Goal
  BY <1>13 DEF FormatsCall, Call, Goto, LockInv, Inside
<1>14. ASSUME NEW p \in Proc, FormatsLoad(p) PROVE Goal
  BY <1>14 DEF FormatsLoad, Goto, LockInv, Inside
<1>15. ASSUME NEW p \in Proc, FormatsCopy(p) PROVE Goal
  BY <1>15 DEF FormatsCopy, Goto, LockInv, Inside
<1>16. CASE UNCHANGED vars
  BY <1>16 DEF vars, LockInv, Inside
<1>. QED  BY <1>1, <1>2, <1>3, <1>4, <1>5, <1>6, <1>7, <1>8, <1>9, <1>10, <1>11, <1>12, <1>13, <1>14, <1>15, <1>16 DEF Next, Invoke, Progress

\* Nobody else can publish between the load and the check of a writer.
LEMMA FreshStep ==
  ASSUME IInv, [Next]_vars
  PROVE  FreshInv'
<1>. DEFINE Goal == FreshInv'
<1>. USE DEF IInv, TypeOK, Locations
<1>1. CASE NewRegistryStep
  BY <1>1 DEF NewRegistryStep, FreshInv, LockInv, Inside, BuildingInv, Load, snapshot
<1>2. ASSUME NEW p \in Proc, RegisterCall(p) PROVE Goal
  BY <1>2 DEF RegisterCall, Call, Goto, FreshInv, LockInv, Inside, BuildingInv, Load, snapshot
<1>3. ASSUME NEW p \in Proc, RegisterNil(p) PROVE Goal
  BY <1>3 DEF RegisterNil, Goto, FreshInv, LockInv, Inside, BuildingInv, Load, snapshot
<1>4. ASSUME NEW p \in Proc, RegisterLock(p) PROVE Goal
  BY <1>4 DEF RegisterLock, Goto, FreshInv, LockInv, Inside, BuildingInv, Load, snapshot
<1>5. ASSUME NEW p \in Proc, RegisterLoad(p) PROVE Goal
  BY <1>5 DEF RegisterLoad, Goto, FreshInv, LockInv, Inside, BuildingInv, Load, snapshot
<1>6. ASSUME NEW p \in Proc, RegisterDuplicate(p) PROVE Goal
  BY <1>6 DEF RegisterDuplicate, Goto, FreshInv, LockInv, Inside, BuildingInv, Load, snapshot
<1>7. ASSUME NEW p \in Proc, RegisterStore(p) PROVE Goal
  BY <1>7 DEF RegisterStore, Goto, FreshInv, LockInv, Inside, BuildingInv, Load, snapshot
<1>8. ASSUME NEW p \in Proc, RegisterUnlock(p) PROVE Goal
  BY <1>8 DEF RegisterUnlock, Goto, FreshInv, LockInv, Inside, BuildingInv, Load, snapshot
<1>9. ASSUME NEW p \in Proc, RegisterReturn(p) PROVE Goal
  BY <1>9 DEF RegisterReturn, Goto, FreshInv, LockInv, Inside, BuildingInv, Load, snapshot
<1>10. ASSUME NEW p \in Proc, LookupCall(p) PROVE Goal
  BY <1>10 DEF LookupCall, Call, Goto, FreshInv, LockInv, Inside, BuildingInv, Load, snapshot
<1>11. ASSUME NEW p \in Proc, LookupLoad(p) PROVE Goal
  BY <1>11 DEF LookupLoad, Goto, FreshInv, LockInv, Inside, BuildingInv, Load, snapshot
<1>12. ASSUME NEW p \in Proc, LookupFind(p) PROVE Goal
  BY <1>12 DEF LookupFind, Goto, FreshInv, LockInv, Inside, BuildingInv, Load, snapshot
<1>13. ASSUME NEW p \in Proc, FormatsCall(p) PROVE Goal
  BY <1>13 DEF FormatsCall, Call, Goto, FreshInv, LockInv, Inside, BuildingInv, Load, snapshot
<1>14. ASSUME NEW p \in Proc, FormatsLoad(p) PROVE Goal
  BY <1>14 DEF FormatsLoad, Goto, FreshInv, LockInv, Inside, BuildingInv, Load, snapshot
<1>15. ASSUME NEW p \in Proc, FormatsCopy(p) PROVE Goal
  BY <1>15 DEF FormatsCopy, Goto, FreshInv, LockInv, Inside, BuildingInv, Load, snapshot
<1>16. CASE UNCHANGED vars
  BY <1>16 DEF vars, FreshInv, LockInv, Inside, BuildingInv, Load, snapshot
<1>. QED  BY <1>1, <1>2, <1>3, <1>4, <1>5, <1>6, <1>7, <1>8, <1>9, <1>10, <1>11, <1>12, <1>13, <1>14, <1>15, <1>16 DEF Next, Invoke, Progress

\* The decoder that is checked and stored has a format, the answers that are
\* not decided are blank, and the registry under construction is private.
LEMMA CallStep ==
  ASSUME IInv, [Next]_vars
  PROVE  UsableInv' /\ UndecidedInv' /\ BuildingInv'
<1>. DEFINE Goal == UsableInv' /\ UndecidedInv' /\ BuildingInv'
<1>. USE DEF IInv, TypeOK, Locations
<1>1. CASE NewRegistryStep
  BY <1>1 DEF NewRegistryStep, UsableInv, UndecidedInv, BuildingInv
<1>2. ASSUME NEW p \in Proc, RegisterCall(p) PROVE Goal
  BY <1>2 DEF RegisterCall, Call, Goto, UsableInv, UndecidedInv, BuildingInv
<1>3. ASSUME NEW p \in Proc, RegisterNil(p) PROVE Goal
  BY <1>3 DEF RegisterNil, Goto, UsableInv, UndecidedInv, BuildingInv
<1>4. ASSUME NEW p \in Proc, RegisterLock(p) PROVE Goal
  BY <1>4 DEF RegisterLock, Goto, UsableInv, UndecidedInv, BuildingInv
<1>5. ASSUME NEW p \in Proc, RegisterLoad(p) PROVE Goal
  BY <1>5 DEF RegisterLoad, Goto, UsableInv, UndecidedInv, BuildingInv
<1>6. ASSUME NEW p \in Proc, RegisterDuplicate(p) PROVE Goal
  BY <1>6 DEF RegisterDuplicate, Goto, UsableInv, UndecidedInv, BuildingInv
<1>7. ASSUME NEW p \in Proc, RegisterStore(p) PROVE Goal
  BY <1>7 DEF RegisterStore, Goto, UsableInv, UndecidedInv, BuildingInv
<1>8. ASSUME NEW p \in Proc, RegisterUnlock(p) PROVE Goal
  BY <1>8 DEF RegisterUnlock, Goto, UsableInv, UndecidedInv, BuildingInv
<1>9. ASSUME NEW p \in Proc, RegisterReturn(p) PROVE Goal
  BY <1>9 DEF RegisterReturn, Goto, UsableInv, UndecidedInv, BuildingInv
<1>10. ASSUME NEW p \in Proc, LookupCall(p) PROVE Goal
  BY <1>10 DEF LookupCall, Call, Goto, UsableInv, UndecidedInv, BuildingInv
<1>11. ASSUME NEW p \in Proc, LookupLoad(p) PROVE Goal
  BY <1>11 DEF LookupLoad, Goto, UsableInv, UndecidedInv, BuildingInv
<1>12. ASSUME NEW p \in Proc, LookupFind(p) PROVE Goal
  BY <1>12 DEF LookupFind, Goto, UsableInv, UndecidedInv, BuildingInv
<1>13. ASSUME NEW p \in Proc, FormatsCall(p) PROVE Goal
  BY <1>13 DEF FormatsCall, Call, Goto, UsableInv, UndecidedInv, BuildingInv
<1>14. ASSUME NEW p \in Proc, FormatsLoad(p) PROVE Goal
  BY <1>14 DEF FormatsLoad, Goto, UsableInv, UndecidedInv, BuildingInv
<1>15. ASSUME NEW p \in Proc, FormatsCopy(p) PROVE Goal
  BY <1>15 DEF FormatsCopy, Goto, UsableInv, UndecidedInv, BuildingInv
<1>16. CASE UNCHANGED vars
  BY <1>16 DEF vars, UsableInv, UndecidedInv, BuildingInv
<1>. QED  BY <1>1, <1>2, <1>3, <1>4, <1>5, <1>6, <1>7, <1>8, <1>9, <1>10, <1>11, <1>12, <1>13, <1>14, <1>15, <1>16 DEF Next, Invoke, Progress

\* What the two read operations answer is a result.
LEMMA AnswerType ==
  ASSUME NEW s \in RegistryState, NEW n
  PROVE  LookupAnswer(s, n) \in Results /\ FormatsAnswer(s) \in Results
<1>1. \A k \in DOMAIN s.decoders : s.decoders[k] \in Decoder
  BY DEF RegistryState
<1>2. s.formats \in SUBSET {Canonical(d) : d \in Decoder}
  BY DEF RegistryState
<1>. QED  BY <1>1, <1>2 DEF LookupAnswer, FormatsAnswer, Answer, Results

\* The locations, the calls and the lists of arguments keep their types.
LEMMA ShapeStep ==
  ASSUME IInv, [Next]_vars
  PROVE  /\ unregistered' \in Seq(Decoder \cup {NoDecoder})
         /\ writes' \in Proc \cup {NoProc}
         /\ pc' \in [Proc -> Locations]
         /\ call' \in [Proc -> OpAt("idle")]
         /\ \A q \in Proc : call'[q] \in OpAt(pc'[q])
<1>. DEFINE Goal ==
         /\ unregistered' \in Seq(Decoder \cup {NoDecoder})
         /\ writes' \in Proc \cup {NoProc}
         /\ pc' \in [Proc -> Locations]
         /\ call' \in [Proc -> OpAt("idle")]
         /\ \A q \in Proc : call'[q] \in OpAt(pc'[q])
<1>. USE DEF IInv, TypeOK, Locations
<1>1. CASE NewRegistryStep
  BY <1>1 DEF NewRegistryStep, OpAt
<1>2. ASSUME NEW p \in Proc, RegisterCall(p) PROVE Goal
  BY <1>2 DEF RegisterCall, Call, Goto, OpAt
<1>3. ASSUME NEW p \in Proc, RegisterNil(p) PROVE Goal
  BY <1>3 DEF RegisterNil, Goto, OpAt
<1>4. ASSUME NEW p \in Proc, RegisterLock(p) PROVE Goal
  BY <1>4 DEF RegisterLock, Goto, OpAt
<1>5. ASSUME NEW p \in Proc, RegisterLoad(p) PROVE Goal
  BY <1>5 DEF RegisterLoad, Goto, OpAt
<1>6. ASSUME NEW p \in Proc, RegisterDuplicate(p) PROVE Goal
  BY <1>6 DEF RegisterDuplicate, Goto, OpAt
<1>7. ASSUME NEW p \in Proc, RegisterStore(p) PROVE Goal
  BY <1>7 DEF RegisterStore, Goto, OpAt
<1>8. ASSUME NEW p \in Proc, RegisterUnlock(p) PROVE Goal
  BY <1>8 DEF RegisterUnlock, Goto, OpAt
<1>9. ASSUME NEW p \in Proc, RegisterReturn(p) PROVE Goal
  BY <1>9 DEF RegisterReturn, Goto, OpAt
<1>10. ASSUME NEW p \in Proc, LookupCall(p) PROVE Goal
  BY <1>10 DEF LookupCall, Call, Goto, OpAt
<1>11. ASSUME NEW p \in Proc, LookupLoad(p) PROVE Goal
  BY <1>11 DEF LookupLoad, Goto, OpAt
<1>12. ASSUME NEW p \in Proc, LookupFind(p) PROVE Goal
  BY <1>12 DEF LookupFind, Goto, OpAt
<1>13. ASSUME NEW p \in Proc, FormatsCall(p) PROVE Goal
  BY <1>13 DEF FormatsCall, Call, Goto, OpAt
<1>14. ASSUME NEW p \in Proc, FormatsLoad(p) PROVE Goal
  BY <1>14 DEF FormatsLoad, Goto, OpAt
<1>15. ASSUME NEW p \in Proc, FormatsCopy(p) PROVE Goal
  BY <1>15 DEF FormatsCopy, Goto, OpAt
<1>16. CASE UNCHANGED vars
  BY <1>16 DEF vars, OpAt
<1>. QED  BY <1>1, <1>2, <1>3, <1>4, <1>5, <1>6, <1>7, <1>8, <1>9, <1>10, <1>11, <1>12, <1>13, <1>14, <1>15, <1>16 DEF Next, Invoke, Progress

\* The snapshots and the answers keep their types.
LEMMA ValueStep ==
  ASSUME IInv, [Next]_vars
  PROVE  current' \in [Proc -> RegistryState] /\ result' \in [Proc -> Results]
<1>. DEFINE Goal == current' \in [Proc -> RegistryState] /\ result' \in [Proc -> Results]
<1>1. /\ current \in [Proc -> RegistryState]
      /\ result \in [Proc -> Results]
      /\ snapshot(state) \in RegistryState
      /\ Nothing \in Results
      /\ Answer("ErrNilDecoder", NoDecoder, {}) \in Results
      /\ Answer("ErrDuplicateDecoder", NoDecoder, {}) \in Results
  BY SnapshotType DEF IInv, TypeOK, Nothing, Answer, Results
<1>NR. CASE NewRegistryStep
  BY <1>NR, <1>1 DEF NewRegistryStep, Load
<1>2. ASSUME NEW p \in Proc, RegisterCall(p) PROVE Goal
  BY <1>2, <1>1 DEF RegisterCall, Call, Goto, Load
<1>3. ASSUME NEW p \in Proc, RegisterNil(p) PROVE Goal
  BY <1>3, <1>1 DEF RegisterNil, Goto, Load
<1>4. ASSUME NEW p \in Proc, RegisterLock(p) PROVE Goal
  BY <1>4, <1>1 DEF RegisterLock, Goto, Load
<1>5. ASSUME NEW p \in Proc, RegisterLoad(p) PROVE Goal
  BY <1>5, <1>1 DEF RegisterLoad, Goto, Load
<1>6. ASSUME NEW p \in Proc, RegisterDuplicate(p) PROVE Goal
  BY <1>6, <1>1 DEF RegisterDuplicate, Goto, Load
<1>7. ASSUME NEW p \in Proc, RegisterStore(p) PROVE Goal
  BY <1>7, <1>1 DEF RegisterStore, Goto, Load
<1>8. ASSUME NEW p \in Proc, RegisterUnlock(p) PROVE Goal
  BY <1>8, <1>1 DEF RegisterUnlock, Goto, Load
<1>9. ASSUME NEW p \in Proc, RegisterReturn(p) PROVE Goal
  BY <1>9, <1>1 DEF RegisterReturn, Goto, Load
<1>10. ASSUME NEW p \in Proc, LookupCall(p) PROVE Goal
  BY <1>10, <1>1 DEF LookupCall, Call, Goto, Load
<1>11. ASSUME NEW p \in Proc, LookupLoad(p) PROVE Goal
  BY <1>11, <1>1 DEF LookupLoad, Goto, Load
<1>12. ASSUME NEW p \in Proc, LookupFind(p) PROVE Goal
  BY <1>12, <1>1, AnswerType DEF LookupFind, Goto, Load
<1>13. ASSUME NEW p \in Proc, FormatsCall(p) PROVE Goal
  BY <1>13, <1>1 DEF FormatsCall, Call, Goto, Load
<1>14. ASSUME NEW p \in Proc, FormatsLoad(p) PROVE Goal
  BY <1>14, <1>1 DEF FormatsLoad, Goto, Load
<1>15. ASSUME NEW p \in Proc, FormatsCopy(p) PROVE Goal
  BY <1>15, <1>1, AnswerType DEF FormatsCopy, Goto, Load
<1>16. CASE UNCHANGED vars
  BY <1>16, <1>1 DEF vars, Load
<1>. QED  BY <1>NR, <1>2, <1>3, <1>4, <1>5, <1>6, <1>7, <1>8, <1>9, <1>10, <1>11, <1>12, <1>13, <1>14, <1>15, <1>16 DEF Next, Invoke, Progress

\* The state keeps its shape.
LEMMA TypeStep == IInv /\ [Next]_vars => TypeOK'
BY ContentStep, ShapeStep, ValueStep DEF TypeOK

\* A snapshot that was loaded is whole, and part of what is published.
LEMMA SnapshotStep ==
  ASSUME IInv, [Next]_vars
  PROVE  SnapshotsWhole' /\ PastInv'
<1>1. \A p \in Proc : current'[p] \in {current[p], snapshot(state)}
  <2>. DEFINE Goal == \A p \in Proc : current'[p] \in {current[p], snapshot(state)}
  <2>1. ASSUME NEW p \in Proc, RegisterLoad(p) \/ LookupLoad(p) \/ FormatsLoad(p) PROVE Goal
    BY <2>1 DEF RegisterLoad, LookupLoad, FormatsLoad, Load, IInv, TypeOK
  <2>2. ASSUME \/ NewRegistryStep
               \/ UNCHANGED vars
               \/ \E p \in Proc :
                    \/ Invoke(p) \/ RegisterLock(p) \/ RegisterNil(p)
                    \/ RegisterDuplicate(p) \/ RegisterStore(p) \/ RegisterUnlock(p)
                    \/ RegisterReturn(p) \/ LookupFind(p) \/ FormatsCopy(p)
        PROVE  current' = current
    BY <2>2 DEF NewRegistryStep, vars, Invoke, Call, RegisterCall, LookupCall, FormatsCall,
       RegisterLock, RegisterNil, RegisterDuplicate, RegisterStore, RegisterUnlock,
       RegisterReturn, LookupFind, FormatsCopy
  <2>. QED  BY <2>1, <2>2 DEF Next, Progress
<1>2. Extends(snapshot(state), snapshot(state))
  BY DEF Extends
<1>3. ASSUME NEW p \in Proc PROVE Whole(current'[p]) /\ Extends(snapshot(state), current'[p])
  BY <1>1, <1>2 DEF IInv, SnapshotsWhole, PastInv
<1>. QED  BY <1>3, ContentStep, ExtendsTransitive DEF SnapshotsWhole, PastInv

-----------------------------------------------------------------------------
(* The answers *)

\* The three operations are told apart by their name.
LEMMA CallKinds ==
  /\ \A c \in RegisterCalls : c.op = "Register" /\ c.decoder \in Decoder \cup {NoDecoder}
  /\ \A c \in LookupCalls : c.op = "Lookup"
  /\ \A c \in FormatsCalls : c.op = "Formats"
  /\ NoCall.op = "none"
BY DEF RegisterCalls, LookupCalls, FormatsCalls, NoCall

\* An answer is true of the content it was computed from.
LEMMA AnswerTrue ==
  ASSUME NEW s
  PROVE  /\ \A c \in LookupCalls : TrueOf(s, c, LookupAnswer(s, c.format))
         /\ \A c \in FormatsCalls : TrueOf(s, c, FormatsAnswer(s))
<1>1. ASSUME NEW c \in LookupCalls PROVE TrueOf(s, c, LookupAnswer(s, c.format))
  <2>1. c \notin RegisterCalls
    BY CallKinds
  <2>2. LookupAnswer(s, c.format).formats \subseteq s.formats
    BY DEF LookupAnswer, Answer
  <2>. QED  BY <2>1, <2>2 DEF TrueOf
<1>2. ASSUME NEW c \in FormatsCalls PROVE TrueOf(s, c, FormatsAnswer(s))
  <2>1. c \notin RegisterCalls /\ c \notin LookupCalls
    BY CallKinds
  <2>2. FormatsAnswer(s).formats = s.formats
    BY DEF FormatsAnswer, Answer
  <2>. QED  BY <2>1, <2>2 DEF TrueOf
<1>. QED  BY <1>1, <1>2

\* A refusal is true of the content that caused it.
LEMMA RefusalTrue ==
  ASSUME NEW s, NEW c \in RegisterCalls
  PROVE  /\ TrueOf(s, c, Answer("ErrNilDecoder", NoDecoder, {}))
         /\ Taken(s, c.decoder) => TrueOf(s, c, Answer("ErrDuplicateDecoder", NoDecoder, {}))
<1>1. c \notin LookupCalls
  BY CallKinds
<1>. QED  BY <1>1 DEF TrueOf, Answer

\* An acceptance is true of the copy that was stored.
LEMMA AcceptanceTrue ==
  ASSUME NEW s, NEW c \in RegisterCalls
  PROVE  TrueOf(Copy(s, c.decoder), c, Nothing)
<1>1. c \notin LookupCalls
  BY CallKinds
<1>. QED  BY <1>1, CopyHolds DEF TrueOf, Nothing, Answer

\* A decided answer stays decided and true.
LEMMA StandsStep ==
  ASSUME IInv, [Next]_vars
  PROVE  StandsInv'
<1>. DEFINE now == snapshot(state)
            Decided(q) == pc[q] \in {"unlock", "return", "idle"}
            Kept(q) == Decided(q) /\ call'[q] = call[q] /\ result'[q] = result[q]
<1>. SUFFICES ASSUME NEW q \in Proc, pc'[q] \in {"unlock", "return", "idle"}
              PROVE  TrueOf(now', call'[q], result'[q])
  BY DEF StandsInv
<1>1. Extends(now', now)
  BY ContentStep
<1>2. CASE Kept(q)
  BY <1>1, <1>2, TrueOfLater DEF IInv, StandsInv
<1>3. CASE RegisterNil(q)
  <2>1. call[q] \in RegisterCalls /\ call' = call
    BY <1>3 DEF RegisterNil, Goto, IInv, TypeOK, OpAt
  <2>2. result'[q] = Answer("ErrNilDecoder", NoDecoder, {})
    BY <1>3 DEF RegisterNil, IInv, TypeOK
  <2>. QED  BY <2>1, <2>2, RefusalTrue
<1>4. CASE RegisterDuplicate(q)
  <2>1. call[q] \in RegisterCalls /\ call' = call /\ Taken(now, call[q].decoder) /\ state' = state
    BY <1>4 DEF RegisterDuplicate, Goto, IInv, TypeOK, OpAt, FreshInv
  <2>2. result'[q] = Answer("ErrDuplicateDecoder", NoDecoder, {})
    BY <1>4 DEF RegisterDuplicate, IInv, TypeOK
  <2>3. TrueOf(now, call[q], result'[q])
    BY <2>1, <2>2, RefusalTrue
  <2>. QED  BY <1>1, <2>1, <2>3, TrueOfLater
<1>5. CASE RegisterStore(q)
  <2>1. call[q] \in RegisterCalls /\ call' = call /\ result' = result
    BY <1>5 DEF RegisterStore, Goto, IInv, TypeOK, OpAt
  <2>2. result[q] = Nothing
    BY <1>5 DEF RegisterStore, Goto, IInv, UndecidedInv
  <2>3. call[q].decoder \in Decoder
    BY <1>5 DEF RegisterStore, Goto, IInv, UsableInv, Usable
  <2>4. state' = Copy(now, call[q].decoder) /\ state' \in RegistryState
    BY <1>5, <2>3, CopyType, SnapshotType DEF RegisterStore, Goto, IInv, FreshInv, TypeOK
  <2>5. now' = Copy(now, call[q].decoder)
    BY <2>4, NotNil DEF snapshot
  <2>. QED  BY <2>1, <2>2, <2>5, AcceptanceTrue
<1>6. CASE LookupFind(q)
  <2>1. call[q] \in LookupCalls /\ call' = call
    BY <1>6 DEF LookupFind, Goto, IInv, TypeOK, OpAt
  <2>2. result'[q] = LookupAnswer(current[q], call[q].format)
    BY <1>6 DEF LookupFind, IInv, TypeOK
  <2>3. TrueOf(current[q], call[q], result'[q])
    BY <2>1, <2>2, AnswerTrue
  <2>4. Extends(now', current[q])
    BY <1>1, ExtendsTransitive DEF IInv, PastInv
  <2>. QED  BY <2>1, <2>3, <2>4, TrueOfLater
<1>7. CASE FormatsCopy(q)
  <2>1. call[q] \in FormatsCalls /\ call' = call
    BY <1>7 DEF FormatsCopy, Goto, IInv, TypeOK, OpAt
  <2>2. result'[q] = FormatsAnswer(current[q])
    BY <1>7 DEF FormatsCopy, IInv, TypeOK
  <2>3. TrueOf(current[q], call[q], result'[q])
    BY <2>1, <2>2, AnswerTrue
  <2>4. Extends(now', current[q])
    BY <1>1, ExtendsTransitive DEF IInv, PastInv
  <2>. QED  BY <2>1, <2>3, <2>4, TrueOfLater
<1>8. CASE NewRegistryStep \/ UNCHANGED vars
  BY <1>2, <1>8 DEF NewRegistryStep, vars
<1>9. ASSUME NEW p \in Proc, p # q, Invoke(p) \/ RegisterLock(p) \/ Progress(p)
      PROVE  Kept(q)
  <2>1. pc'[q] = pc[q] /\ call'[q] = call[q] /\ result'[q] = result[q]
    BY <1>9 DEF Invoke, Progress, Call, Goto, RegisterCall, LookupCall, FormatsCall,
       RegisterNil, RegisterLock, RegisterLoad, RegisterDuplicate, RegisterStore,
       RegisterUnlock, RegisterReturn, LookupLoad, LookupFind, FormatsLoad, FormatsCopy,
       IInv, TypeOK
  <2>. QED  BY <2>1
<1>10. CASE RegisterUnlock(q) \/ RegisterReturn(q)
  <2>1. Kept(q)
    BY <1>10 DEF RegisterUnlock, RegisterReturn, Goto
  <2>. QED  BY <1>2, <2>1
<1>11. CASE Invoke(q) \/ RegisterLock(q) \/ RegisterLoad(q) \/ LookupLoad(q) \/ FormatsLoad(q)
  <2>1. pc'[q] \in {"enter", "lookup", "formats", "load", "check", "find", "copy"}
    BY <1>11 DEF Invoke, Call, Goto, RegisterCall, LookupCall, FormatsCall,
       RegisterLock, RegisterLoad, LookupLoad, FormatsLoad, IInv, TypeOK
  <2>. QED  BY <2>1
<1>. QED
  BY <1>2, <1>3, <1>4, <1>5, <1>6, <1>7, <1>8, <1>9, <1>10, <1>11 DEF Next, Progress

-----------------------------------------------------------------------------
(* The invariant *)

LEMMA InitIInv == Init => IInv
<1>. SUFFICES ASSUME Init PROVE IInv
  OBVIOUS
<1>1. snapshot(state) = EmptyState /\ state \in RegistryState \cup {NilState}
  BY EmptyStateOK DEF Init, snapshot
<1>2. Nothing \in Results
  BY DEF Nothing, Answer, Results
<1>3. TypeOK
  <2>1. unregistered \in Seq(Decoder \cup {NoDecoder})
    <3>1. <<>> \in Seq(Decoder \cup {NoDecoder})
      OBVIOUS
    <3>2. unregistered = <<>> \/ unregistered \in Constructions
      BY DEF Init
    <3>. QED  BY <3>1, <3>2, ProcAssumption
  <2>2. current \in [Proc -> RegistryState] /\ result \in [Proc -> Results]
    BY <1>2, EmptyStateOK DEF Init
  <2>3. /\ pc \in [Proc -> Locations]
        /\ call \in [Proc -> OpAt("idle")]
        /\ \A p \in Proc : call[p] \in OpAt(pc[p])
    BY DEF Init, Locations, OpAt
  <2>. QED  BY <1>1, <2>1, <2>2, <2>3 DEF Init, TypeOK
<1>4. SnapshotsWhole /\ PastInv
  BY <1>1, EmptyStateOK DEF Init, SnapshotsWhole, PastInv, Extends
<1>5. LockInv /\ FreshInv /\ UsableInv /\ UndecidedInv /\ BuildingInv
  BY ProcAssumption DEF Init, LockInv, Inside, FreshInv, UsableInv, UndecidedInv, BuildingInv
<1>6. StandsInv
  <2>1. NoCall \notin RegisterCalls /\ NoCall \notin LookupCalls
    BY CallKinds
  <2>. QED  BY <2>1 DEF Init, StandsInv, TrueOf, Nothing, Answer
<1>. QED  BY <1>3, <1>4, <1>5, <1>6 DEF IInv

\* The inductive invariant holds in every reachable state.
THEOREM Invariance == Spec => []IInv
<1>1. IInv /\ [Next]_vars => IInv'
  BY TypeStep, SnapshotStep, LockStep, FreshStep, CallStep, StandsStep DEF IInv
<1>. QED  BY InitIInv, <1>1, PTL DEF Spec

\* The registry is type correct.
THEOREM TypeCorrect == Spec => []TypeOK
BY Invariance, PTL DEF IInv

\* Registration is atomic: no goroutine ever sees half of one.
THEOREM WholeSnapshots == Spec => []SnapshotsWhole
BY Invariance, PTL DEF IInv

\* An answer of the registry stays true.
THEOREM StandingAnswers == Spec => []AnswersStandForever
<1>1. IInv => AnswersStandForever
  BY DEF IInv, StandsInv, AnswersStandForever
<1>. QED  BY Invariance, <1>1, PTL

\* No registration is lost, and none is replaced.
THEOREM NoLostRegistration == Spec => NothingLost
<1>1. IInv /\ [Next]_vars =>
        [\A k \in DOMAIN snapshot(state).decoders :
           /\ k \in DOMAIN snapshot(state)'.decoders
           /\ snapshot(state)'.decoders[k] = snapshot(state).decoders[k]]_vars
  BY ContentStep DEF Extends
<1>. QED  BY Invariance, <1>1, PTL DEF Spec, NothingLost

-----------------------------------------------------------------------------
(* The refinement: each step is a step of the atomic registry, or a stutter *)

\* The names and keys of the two modules are the same.
LEMMA SameNames ==
  /\ \A n : Atomic!normalizeFormat(n) = normalizeFormat(n)
  /\ \A d : Atomic!Canonical(d) = Canonical(d)
  /\ \A d : Atomic!Keys(d) = Keys(d)
  /\ \A d : Atomic!Usable(d) <=> Usable(d)
  /\ Atomic!Nothing = Nothing
BY DEF Atomic!normalizeFormat, normalizeFormat, Atomic!Canonical, Canonical, Atomic!Keys, Keys,
   Atomic!Usable, Usable, Atomic!EmptyName, EmptyName, Atomic!Nothing, Nothing,
   Atomic!Answer, Answer

\* A whole snapshot lists the names the atomic registry lists.
LEMMA ListedNames ==
  ASSUME IInv
  PROVE  snapshot(state).formats = Atomic!Listed
BY SameNames DEF IInv, SnapshotsWhole, Whole, Atomic!Listed

\* Storing a copy of the published content claims its keys in the atomic map.
LEMMA CopyIsWith ==
  ASSUME IInv, NEW d \in Decoder, state' = Copy(snapshot(state), d)
  PROVE  snapshot(state)'.decoders = Atomic!With(d)
<1>1. snapshot(state)' = Copy(snapshot(state), d)
  BY CopyType, SnapshotType, SnapshotOf DEF IInv, TypeOK, snapshot
<1>. QED  BY <1>1, SameNames DEF Copy, Atomic!With

\* The two registries agree on which decoders conflict.
LEMMA TakenIsTaken ==
  \A d : Taken(snapshot(state), d) <=> Atomic!Taken(d)
BY SameNames DEF Taken, Atomic!Taken

LEMMA InitRefines == Init => Atomic!Init
<1>. SUFFICES ASSUME Init PROVE Atomic!Init
  OBVIOUS
<1>1. snapshot(state).decoders = [k \in {} |-> NoDecoder]
  BY DEF Init, snapshot, EmptyState
<1>2. absStatus = [p \in Proc |-> "idle"]
  BY DEF Init, absStatus
<1>3. absResult = [p \in Proc |-> Atomic!Nothing]
  BY DEF Init, absResult, Nothing, Answer, Atomic!Nothing, Atomic!Answer
<1>4. unregistered \in Constructions \cup {<<>>}
  BY DEF Init
<1>5. call = [p \in Proc |-> Atomic!NoCall]
  BY DEF Init, NoCall, Atomic!NoCall
<1>. QED  BY <1>1, <1>2, <1>3, <1>4, <1>5 DEF Atomic!Init

\* A step that changes neither the content nor the phase of any call.
LEMMA StutterRefines ==
  ASSUME IInv, NEW p \in Proc,
         \/ RegisterLock(p) \/ RegisterLoad(p) \/ RegisterUnlock(p)
  PROVE  UNCHANGED Atomic!vars
<1>1. \A q \in Proc : absStatus'[q] = absStatus[q] /\ absResult'[q] = absResult[q]
  BY DEF RegisterLock, RegisterLoad, RegisterUnlock, Goto, Load, absStatus, absResult, IInv, TypeOK
<1>2. absStatus' = absStatus /\ absResult' = absResult
  BY <1>1 DEF absStatus, absResult
<1>3. UNCHANGED <<state, unregistered, call>>
  BY DEF RegisterLock, RegisterLoad, RegisterUnlock
<1>. QED  BY <1>2, <1>3 DEF Atomic!vars, snapshot

\* A call starts in the atomic registry when it starts in the code.
LEMMA InvokeRefines ==
  ASSUME IInv, NEW p \in Proc, Invoke(p)
  PROVE  Atomic!Invoke(p)
<1>1. PICK c \in Atomic!Calls, to \in {"enter", "lookup", "formats"} : Call(p, c, to)
  BY DEF Invoke, RegisterCall, LookupCall, FormatsCall, RegisterCalls, LookupCalls,
     FormatsCalls, Atomic!Calls
<1>2. absStatus[p] = "idle" /\ absStatus' = [absStatus EXCEPT ![p] = "pending"]
  BY <1>1 DEF Call, Goto, absStatus, IInv, TypeOK
<1>3. absResult' = [absResult EXCEPT ![p] = Atomic!Nothing]
  BY <1>1 DEF Call, Goto, absResult, IInv, TypeOK, Nothing, Answer, Atomic!Nothing, Atomic!Answer
<1>4. snapshot(state)' = snapshot(state)
  BY <1>1 DEF Call, snapshot
<1>. QED  BY <1>1, <1>2, <1>3, <1>4 DEF Call, Atomic!Invoke

\* A call returns in the atomic registry when it returns in the code.
LEMMA ReturnRefines ==
  ASSUME IInv, NEW p \in Proc, RegisterReturn(p) \/ LookupFind(p) \/ FormatsCopy(p)
  PROVE  Atomic!Return(p)
<1>1. absStatus[p] = "answered" /\ absStatus' = [absStatus EXCEPT ![p] = "idle"]
  BY DEF RegisterReturn, LookupFind, FormatsCopy, Goto, absStatus, IInv, TypeOK
<1>2. absResult' = absResult
  BY DEF RegisterReturn, LookupFind, FormatsCopy, Goto, absResult, IInv, TypeOK
<1>3. UNCHANGED <<state, unregistered, call>>
  BY DEF RegisterReturn, LookupFind, FormatsCopy
<1>. QED  BY <1>1, <1>2, <1>3 DEF Atomic!Return, snapshot

\* A registration takes effect when it is refused or stored.
LEMMA RegisterRefines ==
  ASSUME IInv, NEW p \in Proc, RegisterNil(p) \/ RegisterDuplicate(p) \/ RegisterStore(p)
  PROVE  Atomic!Register(p)
<1>. DEFINE d == call[p].decoder
<1>1. call[p].op = "Register" /\ UNCHANGED <<call, unregistered, current>>
  BY CallKinds DEF RegisterNil, RegisterDuplicate, RegisterStore, Goto, IInv, TypeOK, OpAt
<1>2. absStatus[p] = "pending" /\ absStatus' = [absStatus EXCEPT ![p] = "answered"]
  BY DEF RegisterNil, RegisterDuplicate, RegisterStore, Goto, absStatus, IInv, TypeOK
<1>3. CASE RegisterNil(p)
  <2>1. absResult' = [absResult EXCEPT ![p] = Atomic!Answer("ErrNilDecoder", NoDecoder, {})]
    BY <1>3 DEF RegisterNil, Goto, absResult, IInv, TypeOK, Answer, Atomic!Answer
  <2>2. state' = state /\ ~Usable(d)
    BY <1>3 DEF RegisterNil
  <2>. QED  BY <1>1, <1>2, <2>1, <2>2, SameNames DEF Atomic!Register, Atomic!Effect, snapshot
<1>4. CASE RegisterDuplicate(p)
  <2>1. absResult' = [absResult EXCEPT ![p] = Atomic!Answer("ErrDuplicateDecoder", NoDecoder, {})]
    BY <1>4 DEF RegisterDuplicate, Goto, absResult, IInv, TypeOK, Answer, Atomic!Answer
  <2>2. state' = state /\ Usable(d) /\ Taken(snapshot(state), d)
    BY <1>4 DEF RegisterDuplicate, Goto, IInv, FreshInv, UsableInv
  <2>. QED  BY <1>1, <1>2, <2>1, <2>2, TakenIsTaken, SameNames DEF Atomic!Register, Atomic!Effect, snapshot
<1>5. CASE RegisterStore(p)
  <2>1. result[p] = Nothing /\ result' = result
    BY <1>5 DEF RegisterStore, Goto, IInv, UndecidedInv
  <2>2. absResult' = [absResult EXCEPT ![p] = Atomic!Nothing]
    BY <1>1, <1>5, <2>1 DEF RegisterStore, Goto, absResult, IInv, TypeOK, Nothing, Answer,
       Atomic!Nothing, Atomic!Answer
  <2>3. Usable(d) /\ ~Taken(snapshot(state), d) /\ state' = Copy(snapshot(state), d)
    BY <1>5 DEF RegisterStore, Goto, IInv, FreshInv, UsableInv
  <2>4. snapshot(state)'.decoders = Atomic!With(d)
    BY <2>3, CopyIsWith DEF Usable
  <2>. QED  BY <1>1, <1>2, <2>2, <2>3, <2>4, TakenIsTaken, SameNames DEF Atomic!Register, Atomic!Effect
<1>. QED  BY <1>3, <1>4, <1>5

\* A lookup takes effect when it loads the pointer.
LEMMA LookupRefines ==
  ASSUME IInv, NEW p \in Proc, LookupLoad(p)
  PROVE  Atomic!Lookup(p)
<1>. DEFINE now == snapshot(state)
            key == normalizeFormat(call[p].format)
<1>1. call[p].op = "Lookup" /\ UNCHANGED <<call, unregistered, state, result>>
  BY CallKinds DEF LookupLoad, Goto, IInv, TypeOK, OpAt
<1>2. absStatus[p] = "pending" /\ absStatus' = [absStatus EXCEPT ![p] = "answered"]
  BY DEF LookupLoad, Goto, absStatus, IInv, TypeOK
<1>3. absResult' = [absResult EXCEPT ![p] = LookupAnswer(now, call[p].format)]
  BY <1>1 DEF LookupLoad, Load, Goto, absResult, IInv, TypeOK
<1>4. CASE key \in DOMAIN now.decoders
  <2>1. LookupAnswer(now, call[p].format) = Atomic!Answer("none", now.decoders[key], {})
    BY <1>4 DEF LookupAnswer, Answer, Atomic!Answer
  <2>. QED  BY <1>1, <1>2, <1>3, <1>4, <2>1, SameNames DEF Atomic!Lookup, Atomic!Effect, snapshot
<1>5. CASE key \notin DOMAIN now.decoders
  <2>1. LookupAnswer(now, call[p].format)
          = Atomic!Answer("ErrUnsupportedFormat", NoDecoder, Atomic!Listed)
    BY <1>5, ListedNames DEF LookupAnswer, Answer, Atomic!Answer
  <2>. QED  BY <1>1, <1>2, <1>3, <1>5, <2>1, SameNames DEF Atomic!Lookup, Atomic!Effect, snapshot
<1>. QED  BY <1>4, <1>5

\* So does the list of formats.
LEMMA FormatsRefines ==
  ASSUME IInv, NEW p \in Proc, FormatsLoad(p)
  PROVE  Atomic!Formats(p)
<1>1. call[p].op = "Formats" /\ UNCHANGED <<call, unregistered, state, result>>
  BY CallKinds DEF FormatsLoad, Goto, IInv, TypeOK, OpAt
<1>2. absStatus[p] = "pending" /\ absStatus' = [absStatus EXCEPT ![p] = "answered"]
  BY DEF FormatsLoad, Goto, absStatus, IInv, TypeOK
<1>3. absResult' = [absResult EXCEPT ![p] = FormatsAnswer(snapshot(state))]
  BY <1>1 DEF FormatsLoad, Load, Goto, absResult, IInv, TypeOK
<1>4. FormatsAnswer(snapshot(state)) = Atomic!Answer("none", NoDecoder, Atomic!Listed)
  BY ListedNames DEF FormatsAnswer, Answer, Atomic!Answer
<1>. QED  BY <1>1, <1>2, <1>3, <1>4, SameNames DEF Atomic!Formats, Atomic!Effect, snapshot

\* NewRegistry registers its arguments in the atomic registry too.
LEMMA ConstructRefines ==
  ASSUME IInv, NewRegistryStep
  PROVE  Atomic!Construct
<1>. DEFINE d == Head(unregistered)
<1>1. UNCHANGED <<absStatus, call, absResult>>
  BY DEF NewRegistryStep, absStatus, absResult
<1>2. CASE Usable(d) /\ ~Taken(snapshot(state), d)
  <2>1. state' = Copy(snapshot(state), d)
    BY <1>2 DEF NewRegistryStep
  <2>2. snapshot(state)'.decoders = Atomic!With(d)
    BY <1>2, <2>1, CopyIsWith DEF Usable
  <2>. QED  BY <1>1, <1>2, <2>2, TakenIsTaken, SameNames DEF NewRegistryStep, Atomic!Construct
<1>3. CASE ~(Usable(d) /\ ~Taken(snapshot(state), d))
  <2>1. state' = state
    BY <1>3 DEF NewRegistryStep
  <2>. QED  BY <1>1, <1>3, <2>1, TakenIsTaken, SameNames DEF NewRegistryStep, Atomic!Construct, snapshot
<1>. QED  BY <1>2, <1>3

\* The registry is linearizable: it implements the atomic registry.
THEOREM Refinement == Spec => ImplementsAtomic
<1>1. IInv /\ [Next]_vars => [Atomic!Next]_(Atomic!vars)
  <2>. SUFFICES ASSUME IInv, [Next]_vars PROVE Atomic!Next \/ UNCHANGED Atomic!vars
    OBVIOUS
  <2>1. CASE NewRegistryStep
    BY <2>1, ConstructRefines DEF Atomic!Next
  <2>2. ASSUME NEW p \in Proc, Invoke(p) PROVE Atomic!Next
    BY <2>2, InvokeRefines DEF Atomic!Next
  <2>3. ASSUME NEW p \in Proc, RegisterLock(p) \/ RegisterLoad(p) \/ RegisterUnlock(p)
        PROVE  UNCHANGED Atomic!vars
    BY <2>3, StutterRefines
  <2>4. ASSUME NEW p \in Proc, RegisterNil(p) \/ RegisterDuplicate(p) \/ RegisterStore(p)
        PROVE  Atomic!Next
    BY <2>4, RegisterRefines DEF Atomic!Next, Atomic!Step
  <2>5. ASSUME NEW p \in Proc, RegisterReturn(p) \/ LookupFind(p) \/ FormatsCopy(p)
        PROVE  Atomic!Next
    BY <2>5, ReturnRefines DEF Atomic!Next, Atomic!Step
  <2>6. ASSUME NEW p \in Proc, LookupLoad(p) \/ FormatsLoad(p) PROVE Atomic!Next
    BY <2>6, LookupRefines, FormatsRefines DEF Atomic!Next, Atomic!Step
  <2>7. CASE UNCHANGED vars
    BY <2>7 DEF vars, Atomic!vars, absStatus, absResult, snapshot
  <2>. QED  BY <2>1, <2>2, <2>3, <2>4, <2>5, <2>6, <2>7 DEF Next, Progress
<1>. QED  BY Invariance, InitRefines, <1>1, PTL DEF Spec, ImplementsAtomic, Atomic!Spec
=============================================================================
