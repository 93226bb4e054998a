-------------------------- MODULE BindErrors_proofs --------------------------
(***************************************************************************)
(* The tag cache and the binds that use it, for every set of goroutines,   *)
(* structs and tags.                                                       *)
(*                                                                         *)
(* The cache (Spec): each tag is parsed at most once, entries are never    *)
(* lost, every lookup of a tag is answered with the one entry of that tag, *)
(* and the cache is an atomic memo.                                        *)
(*                                                                         *)
(* The binds (BindSpec): a bind fails for the first malformed tag of its   *)
(* struct and for no other reason, whichever goroutine parsed that tag,    *)
(* and the path it reports is made of words of paths with that tag.        *)
(* The cache keeps its invariant, because every step of a bind is a step   *)
(* of the cache or leaves the cache alone.                                 *)
(***************************************************************************)
EXTENDS BindErrors, TLAPS

-----------------------------------------------------------------------------
(* The cache: its inductive invariant *)

\* The places where a goroutine holds the mutex.
Inside == {"reload", "recheck", "store", "unlock"}

\* The mutex is owned by the one goroutine that is inside parseAndStore.
LockInv == \A p \in Proc : pc[p] \in Inside <=> writes = p

\* The map a writer re-checks and copies is the published one.
FreshInv == \A p \in Proc : pc[p] \in {"recheck", "store"} => view[p] = entries

\* A tag is only parsed on the way to being published.
ParseInv ==
    \A k \in Key :
      /\ parses[k] \in {0, 1}
      /\ parses[k] = 1 => k \in DOMAIN entries \/ \E p \in Proc : pc[p] = "store" /\ key[p] = k

\* What is to be stored is the first parse of a tag that is not published.
StoreInv ==
    \A p \in Proc : pc[p] = "store" =>
      key[p] \notin DOMAIN entries /\ answer[p] = EntryFor(key[p])

\* The published map and the older ones goroutines hold agree.
ContentInv ==
    /\ \A k \in DOMAIN entries : entries[k] = EntryFor(k)
    /\ \A p \in Proc : \A k \in DOMAIN view[p] : k \in DOMAIN entries /\ view[p][k] = EntryFor(k)

\* A lookup has an answer from the moment its entry is found or published.
AnswerInv ==
    \A p \in Proc :
      /\ pc[p] \in {"lookup", "find", "lock", "reload", "recheck"} => answer[p] = NoEntry
      /\ pc[p] \in {"idle", "unlock"} /\ answer[p] # NoEntry =>
           key[p] \in DOMAIN entries /\ answer[p] = EntryFor(key[p])

IInv ==
    /\ TypeOK
    /\ LockInv
    /\ FreshInv
    /\ ParseInv
    /\ StoreInv
    /\ ContentInv
    /\ AnswerInv

-----------------------------------------------------------------------------
\* The entry of a tag has the type of an entry, and is not the blank one.
LEMMA EntryType ==
  ASSUME NEW k \in Key, NEW n \in Nat
  PROVE  EntryOf(k, n) \in Entry /\ EntryOf(k, n) # NoEntry
<1>1. EntryOf(k, n) \in Entry
  BY DEF EntryOf, Entry
<1>. QED  BY <1>1, TagCacheAssumption DEF Entry

\* What a goroutine takes out of the map it loaded is an entry.
LEMMA TakeType ==
  ASSUME IInv, NEW p \in Proc, key[p] \in DOMAIN view[p]
  PROVE  view[p][key[p]] \in Entry
BY DEF IInv, TypeOK, IsTable

\* The copy a writer publishes is a table.
LEMMA CopyTable ==
  ASSUME NEW m, IsTable(m), NEW k \in Key, NEW e \in Entry
  PROVE  IsTable([j \in DOMAIN m \cup {k} |-> IF j = k THEN e ELSE m[j]])
BY DEF IsTable

\* The state keeps its shape.
LEMMA TypeStep ==
  ASSUME IInv, [Next]_vars
  PROVE  TypeOK'
<1>. DEFINE Goal == TypeOK'
<1>. USE DEF IInv
<1>1. ASSUME NEW p \in Proc, NEW k \in Key, LookupCall(p, k) PROVE Goal
  BY <1>1 DEF LookupCall, Goto, TypeOK, Locations
<1>2. ASSUME NEW p \in Proc, LookupLoad(p) PROVE Goal
  BY <1>2 DEF LookupLoad, Goto, TypeOK, Locations, Load
<1>3. ASSUME NEW p \in Proc, LookupHit(p) PROVE Goal
  BY <1>3, TakeType DEF LookupHit, Goto, TypeOK, Locations, Take
<1>4. ASSUME NEW p \in Proc, LookupMiss(p) PROVE Goal
  BY <1>4 DEF LookupMiss, Goto, TypeOK, Locations
<1>5. ASSUME NEW p \in Proc, Lock(p) PROVE Goal
  BY <1>5 DEF Lock, Goto, TypeOK, Locations
<1>6. ASSUME NEW p \in Proc, Reload(p) PROVE Goal
  BY <1>6 DEF Reload, Goto, TypeOK, Locations, Load
<1>7. ASSUME NEW p \in Proc, RecheckHit(p) PROVE Goal
  BY <1>7, TakeType DEF RecheckHit, Goto, TypeOK, Locations, Take
<1>8. ASSUME NEW p \in Proc, Parse(p) PROVE Goal
  BY <1>8, EntryType DEF Parse, Goto, TypeOK, Locations
<1>9. ASSUME NEW p \in Proc, Store(p) PROVE Goal
  <2>1. key[p] \in Key /\ answer[p] \in Entry
    BY <1>9, EntryType DEF Store, Goto, TypeOK, StoreInv, EntryFor
  <2>2. IsTable(entries')
    BY <1>9, <2>1, CopyTable DEF Store, TypeOK
  <2>. QED  BY <1>9, <2>2 DEF Store, Goto, TypeOK, Locations
<1>10. ASSUME NEW p \in Proc, Unlock(p) PROVE Goal
  BY <1>10 DEF Unlock, Goto, TypeOK, Locations
<1>11. CASE UNCHANGED vars
  BY <1>11 DEF vars, TypeOK, Locations
<1>. QED  BY <1>1, <1>2, <1>3, <1>4, <1>5, <1>6, <1>7, <1>8, <1>9, <1>10, <1>11 DEF Next, Progress

\* The mutex keeps writers apart.
LEMMA LockStep ==
  ASSUME IInv, [Next]_vars
  PROVE  LockInv'
<1>. DEFINE Goal == LockInv'
<1>. USE TagCacheAssumption DEF IInv
<1>1. ASSUME NEW p \in Proc, NEW k \in Key, LookupCall(p, k) PROVE Goal
  BY <1>1 DEF LookupCall, Goto, TypeOK, Locations, LockInv, Inside
<1>2. ASSUME NEW p \in Proc, LookupLoad(p) PROVE Goal
  BY <1>2 DEF LookupLoad, Goto, TypeOK, Locations, LockInv, Inside
<1>3. ASSUME NEW p \in Proc, LookupHit(p) PROVE Goal
  BY <1>3 DEF LookupHit, Goto, TypeOK, Locations, LockInv, Inside
<1>4. ASSUME NEW p \in Proc, LookupMiss(p) PROVE Goal
  BY <1>4 DEF LookupMiss, Goto, TypeOK, Locations, LockInv, Inside
<1>5. ASSUME NEW p \in Proc, Lock(p) PROVE Goal
  BY <1>5 DEF Lock, Goto, TypeOK, Locations, LockInv, Inside
<1>6. ASSUME NEW p \in Proc, Reload(p) PROVE Goal
  BY <1>6 DEF Reload, Goto, TypeOK, Locations, LockInv, Inside
<1>7. ASSUME NEW p \in Proc, RecheckHit(p) PROVE Goal
  BY <1>7 DEF RecheckHit, Goto, TypeOK, Locations, LockInv, Inside
<1>8. ASSUME NEW p \in Proc, Parse(p) PROVE Goal
  BY <1>8 DEF Parse, Goto, TypeOK, Locations, LockInv, Inside
<1>9. ASSUME NEW p \in Proc, Store(p) PROVE Goal
  BY <1>9 DEF Store, Goto, TypeOK, Locations, LockInv, Inside
<1>10. ASSUME NEW p \in Proc, Unlock(p) PROVE Goal
  BY <1>10 DEF Unlock, Goto, TypeOK, Locations, LockInv, Inside
<1>11. CASE UNCHANGED vars
  BY <1>11 DEF vars, TypeOK, Locations, LockInv, Inside
<1>. QED  BY <1>1, <1>2, <1>3, <1>4, <1>5, <1>6, <1>7, <1>8, <1>9, <1>10, <1>11 DEF Next, Progress

\* Nobody publishes between the reload and the store of a writer.
LEMMA FreshStep ==
  ASSUME IInv, [Next]_vars
  PROVE  FreshInv'
<1>. DEFINE Goal == FreshInv'
<1>. USE DEF IInv
<1>1. ASSUME NEW p \in Proc, NEW k \in Key, LookupCall(p, k) PROVE Goal
  BY <1>1 DEF LookupCall, Goto, TypeOK, Locations, LockInv, Inside, FreshInv
<1>2. ASSUME NEW p \in Proc, LookupLoad(p) PROVE Goal
  BY <1>2 DEF LookupLoad, Goto, TypeOK, Locations, LockInv, Inside, FreshInv, Load
<1>3. ASSUME NEW p \in Proc, LookupHit(p) PROVE Goal
  BY <1>3 DEF LookupHit, Goto, TypeOK, Locations, LockInv, Inside, FreshInv
<1>4. ASSUME NEW p \in Proc, LookupMiss(p) PROVE Goal
  BY <1>4 DEF LookupMiss, Goto, TypeOK, Locations, LockInv, Inside, FreshInv
<1>5. ASSUME NEW p \in Proc, Lock(p) PROVE Goal
  BY <1>5 DEF Lock, Goto, TypeOK, Locations, LockInv, Inside, FreshInv
<1>6. ASSUME NEW p \in Proc, Reload(p) PROVE Goal
  BY <1>6 DEF Reload, Goto, TypeOK, Locations, LockInv, Inside, FreshInv, Load
<1>7. ASSUME NEW p \in Proc, RecheckHit(p) PROVE Goal
  BY <1>7 DEF RecheckHit, Goto, TypeOK, Locations, LockInv, Inside, FreshInv
<1>8. ASSUME NEW p \in Proc, Parse(p) PROVE Goal
  BY <1>8 DEF Parse, Goto, TypeOK, Locations, LockInv, Inside, FreshInv
<1>9. ASSUME NEW p \in Proc, Store(p) PROVE Goal
  BY <1>9 DEF Store, Goto, TypeOK, Locations, LockInv, Inside, FreshInv
<1>10. ASSUME NEW p \in Proc, Unlock(p) PROVE Goal
  BY <1>10 DEF Unlock, Goto, TypeOK, Locations, LockInv, Inside, FreshInv
<1>11. CASE UNCHANGED vars
  BY <1>11 DEF vars, TypeOK, Locations, LockInv, Inside, FreshInv
<1>. QED  BY <1>1, <1>2, <1>3, <1>4, <1>5, <1>6, <1>7, <1>8, <1>9, <1>10, <1>11 DEF Next, Progress

\* Entries are only added.
LEMMA EntriesStep ==
  ASSUME IInv, [Next]_vars
  PROVE  \A k \in DOMAIN entries : k \in DOMAIN entries' /\ entries'[k] = entries[k]
<1>. DEFINE Goal == \A k \in DOMAIN entries : k \in DOMAIN entries' /\ entries'[k] = entries[k]
<1>. USE DEF IInv
<1>1. ASSUME NEW p \in Proc, NEW k \in Key, LookupCall(p, k) PROVE Goal
  BY <1>1 DEF LookupCall, Goto, FreshInv, StoreInv
<1>2. ASSUME NEW p \in Proc, LookupLoad(p) PROVE Goal
  BY <1>2 DEF LookupLoad, Goto, FreshInv, StoreInv
<1>3. ASSUME NEW p \in Proc, LookupHit(p) PROVE Goal
  BY <1>3 DEF LookupHit, Goto, FreshInv, StoreInv
<1>4. ASSUME NEW p \in Proc, LookupMiss(p) PROVE Goal
  BY <1>4 DEF LookupMiss, Goto, FreshInv, StoreInv
<1>5. ASSUME NEW p \in Proc, Lock(p) PROVE Goal
  BY <1>5 DEF Lock, Goto, FreshInv, StoreInv
<1>6. ASSUME NEW p \in Proc, Reload(p) PROVE Goal
  BY <1>6 DEF Reload, Goto, FreshInv, StoreInv
<1>7. ASSUME NEW p \in Proc, RecheckHit(p) PROVE Goal
  BY <1>7 DEF RecheckHit, Goto, FreshInv, StoreInv
<1>8. ASSUME NEW p \in Proc, Parse(p) PROVE Goal
  BY <1>8 DEF Parse, Goto, FreshInv, StoreInv
<1>9. ASSUME NEW p \in Proc, Store(p) PROVE Goal
  BY <1>9 DEF Store, Goto, FreshInv, StoreInv
<1>10. ASSUME NEW p \in Proc, Unlock(p) PROVE Goal
  BY <1>10 DEF Unlock, Goto, FreshInv, StoreInv
<1>11. CASE UNCHANGED vars
  BY <1>11 DEF vars, FreshInv, StoreInv
<1>. QED  BY <1>1, <1>2, <1>3, <1>4, <1>5, <1>6, <1>7, <1>8, <1>9, <1>10, <1>11 DEF Next, Progress

\* What is stored is the first parse of its tag.
LEMMA StoreStep ==
  ASSUME IInv, [Next]_vars
  PROVE  StoreInv'
<1>. DEFINE Goal == StoreInv'
<1>. USE DEF IInv
<1>1. ASSUME NEW p \in Proc, NEW k \in Key, LookupCall(p, k) PROVE Goal
  BY <1>1 DEF LookupCall, Goto, TypeOK, Locations, LockInv, Inside, FreshInv, StoreInv, ParseInv
<1>2. ASSUME NEW p \in Proc, LookupLoad(p) PROVE Goal
  BY <1>2 DEF LookupLoad, Goto, TypeOK, Locations, LockInv, Inside, FreshInv, StoreInv, ParseInv
<1>3. ASSUME NEW p \in Proc, LookupHit(p) PROVE Goal
  BY <1>3 DEF LookupHit, Goto, Take, TypeOK, Locations, LockInv, Inside, FreshInv, StoreInv, ParseInv
<1>4. ASSUME NEW p \in Proc, LookupMiss(p) PROVE Goal
  BY <1>4 DEF LookupMiss, Goto, TypeOK, Locations, LockInv, Inside, FreshInv, StoreInv, ParseInv
<1>5. ASSUME NEW p \in Proc, Lock(p) PROVE Goal
  BY <1>5 DEF Lock, Goto, TypeOK, Locations, LockInv, Inside, FreshInv, StoreInv, ParseInv
<1>6. ASSUME NEW p \in Proc, Reload(p) PROVE Goal
  BY <1>6 DEF Reload, Goto, TypeOK, Locations, LockInv, Inside, FreshInv, StoreInv, ParseInv
<1>7. ASSUME NEW p \in Proc, RecheckHit(p) PROVE Goal
  BY <1>7 DEF RecheckHit, Goto, TypeOK, Locations, LockInv, Inside, FreshInv, StoreInv, ParseInv
<1>8. ASSUME NEW p \in Proc, Parse(p) PROVE Goal
  BY <1>8 DEF Parse, Goto, TypeOK, Locations, LockInv, Inside, FreshInv, StoreInv, ParseInv, EntryFor
<1>9. ASSUME NEW p \in Proc, Store(p) PROVE Goal
  BY <1>9 DEF Store, Goto, TypeOK, Locations, LockInv, Inside, FreshInv, StoreInv, ParseInv
<1>10. ASSUME NEW p \in Proc, Unlock(p) PROVE Goal
  BY <1>10 DEF Unlock, Goto, TypeOK, Locations, LockInv, Inside, FreshInv, StoreInv, ParseInv
<1>11. CASE UNCHANGED vars
  BY <1>11 DEF vars, TypeOK, Locations, LockInv, Inside, FreshInv, StoreInv, ParseInv
<1>. QED  BY <1>1, <1>2, <1>3, <1>4, <1>5, <1>6, <1>7, <1>8, <1>9, <1>10, <1>11 DEF Next, Progress

\* A tag that was parsed is published before it can be parsed again.
LEMMA ParseStep ==
  ASSUME IInv, [Next]_vars
  PROVE  ParseInv'
<1>. DEFINE Goal == ParseInv'
<1>. USE DEF IInv
<1>1. ASSUME NEW p \in Proc, NEW k \in Key, LookupCall(p, k) PROVE Goal
  BY <1>1 DEF LookupCall, Goto, TypeOK, Locations, LockInv, Inside, FreshInv, ParseInv
<1>2. ASSUME NEW p \in Proc, LookupLoad(p) PROVE Goal
  BY <1>2 DEF LookupLoad, Goto, TypeOK, Locations, LockInv, Inside, FreshInv, ParseInv
<1>3. ASSUME NEW p \in Proc, LookupHit(p) PROVE Goal
  BY <1>3 DEF LookupHit, Goto, TypeOK, Locations, LockInv, Inside, FreshInv, ParseInv
<1>4. ASSUME NEW p \in Proc, LookupMiss(p) PROVE Goal
  BY <1>4 DEF LookupMiss, Goto, TypeOK, Locations, LockInv, Inside, FreshInv, ParseInv
<1>5. ASSUME NEW p \in Proc, Lock(p) PROVE Goal
  BY <1>5 DEF Lock, Goto, TypeOK, Locations, LockInv, Inside, FreshInv, ParseInv
<1>6. ASSUME NEW p \in Proc, Reload(p) PROVE Goal
  BY <1>6 DEF Reload, Goto, TypeOK, Locations, LockInv, Inside, FreshInv, ParseInv
<1>7. ASSUME NEW p \in Proc, RecheckHit(p) PROVE Goal
  BY <1>7 DEF RecheckHit, Goto, TypeOK, Locations, LockInv, Inside, FreshInv, ParseInv
<1>8. ASSUME NEW p \in Proc, Parse(p) PROVE Goal
  BY <1>8 DEF Parse, Goto, TypeOK, Locations, LockInv, Inside, FreshInv, ParseInv
<1>9. ASSUME NEW p \in Proc, Store(p) PROVE Goal
  BY <1>9 DEF Store, Goto, TypeOK, Locations, LockInv, Inside, FreshInv, ParseInv
<1>10. ASSUME NEW p \in Proc, Unlock(p) PROVE Goal
  BY <1>10 DEF Unlock, Goto, TypeOK, Locations, LockInv, Inside, FreshInv, ParseInv
<1>11. CASE UNCHANGED vars
  BY <1>11 DEF vars, TypeOK, Locations, LockInv, Inside, FreshInv, ParseInv
<1>. QED  BY <1>1, <1>2, <1>3, <1>4, <1>5, <1>6, <1>7, <1>8, <1>9, <1>10, <1>11 DEF Next, Progress

\* All maps agree on the entry of a tag.
LEMMA ContentStep ==
  ASSUME IInv, [Next]_vars
  PROVE  ContentInv'
<1>. DEFINE Goal == ContentInv'
<1>. USE DEF IInv
<1>1. ASSUME NEW p \in Proc, NEW k \in Key, LookupCall(p, k) PROVE Goal
  BY <1>1 DEF LookupCall, Goto, TypeOK, Locations, FreshInv, StoreInv, ContentInv
<1>2. ASSUME NEW p \in Proc, LookupLoad(p) PROVE Goal
  BY <1>2 DEF LookupLoad, Goto, TypeOK, Locations, FreshInv, StoreInv, ContentInv, Load
<1>3. ASSUME NEW p \in Proc, LookupHit(p) PROVE Goal
  BY <1>3 DEF LookupHit, Goto, TypeOK, Locations, FreshInv, StoreInv, ContentInv
<1>4. ASSUME NEW p \in Proc, LookupMiss(p) PROVE Goal
  BY <1>4 DEF LookupMiss, Goto, TypeOK, Locations, FreshInv, StoreInv, ContentInv
<1>5. ASSUME NEW p \in Proc, Lock(p) PROVE Goal
  BY <1>5 DEF Lock, Goto, TypeOK, Locations, FreshInv, StoreInv, ContentInv
<1>6. ASSUME NEW p \in Proc, Reload(p) PROVE Goal
  BY <1>6 DEF Reload, Goto, TypeOK, Locations, FreshInv, StoreInv, ContentInv, Load
<1>7. ASSUME NEW p \in Proc, RecheckHit(p) PROVE Goal
  BY <1>7 DEF RecheckHit, Goto, TypeOK, Locations, FreshInv, StoreInv, ContentInv
<1>8. ASSUME NEW p \in Proc, Parse(p) PROVE Goal
  BY <1>8 DEF Parse, Goto, TypeOK, Locations, FreshInv, StoreInv, ContentInv
<1>9. ASSUME NEW p \in Proc, Store(p) PROVE Goal
  BY <1>9 DEF Store, Goto, TypeOK, Locations, FreshInv, StoreInv, ContentInv
<1>10. ASSUME NEW p \in Proc, Unlock(p) PROVE Goal
  BY <1>10 DEF Unlock, Goto, TypeOK, Locations, FreshInv, StoreInv, ContentInv
<1>11. CASE UNCHANGED vars
  BY <1>11 DEF vars, TypeOK, Locations, FreshInv, StoreInv, ContentInv
<1>. QED  BY <1>1, <1>2, <1>3, <1>4, <1>5, <1>6, <1>7, <1>8, <1>9, <1>10, <1>11 DEF Next, Progress

\* Answers stay the entry of their tag.
LEMMA AnswerStep ==
  ASSUME IInv, [Next]_vars
  PROVE  AnswerInv'
<1>. DEFINE Goal == AnswerInv'
<1>. USE DEF IInv
<1>1. ASSUME NEW p \in Proc, NEW k \in Key, LookupCall(p, k) PROVE Goal
  BY <1>1 DEF LookupCall, Goto, TypeOK, Locations, AnswerInv, ContentInv, StoreInv
<1>2. ASSUME NEW p \in Proc, LookupLoad(p) PROVE Goal
  BY <1>2 DEF LookupLoad, Goto, TypeOK, Locations, AnswerInv, ContentInv, StoreInv
<1>3. ASSUME NEW p \in Proc, LookupHit(p) PROVE Goal
  BY <1>3 DEF LookupHit, Goto, TypeOK, Locations, AnswerInv, ContentInv, StoreInv, Take
<1>4. ASSUME NEW p \in Proc, LookupMiss(p) PROVE Goal
  BY <1>4 DEF LookupMiss, Goto, TypeOK, Locations, AnswerInv, ContentInv, StoreInv
<1>5. ASSUME NEW p \in Proc, Lock(p) PROVE Goal
  BY <1>5 DEF Lock, Goto, TypeOK, Locations, AnswerInv, ContentInv, StoreInv
<1>6. ASSUME NEW p \in Proc, Reload(p) PROVE Goal
  BY <1>6 DEF Reload, Goto, TypeOK, Locations, AnswerInv, ContentInv, StoreInv
<1>7. ASSUME NEW p \in Proc, RecheckHit(p) PROVE Goal
  BY <1>7 DEF RecheckHit, Goto, TypeOK, Locations, AnswerInv, ContentInv, StoreInv, Take
<1>8. ASSUME NEW p \in Proc, Parse(p) PROVE Goal
  BY <1>8 DEF Parse, Goto, TypeOK, Locations, AnswerInv, ContentInv, StoreInv
<1>9. ASSUME NEW p \in Proc, Store(p) PROVE Goal
  BY <1>9, EntriesStep, ZenonT(30) DEF Store, Goto, TypeOK, Locations, AnswerInv, ContentInv, StoreInv
<1>10. ASSUME NEW p \in Proc, Unlock(p) PROVE Goal
  BY <1>10 DEF Unlock, Goto, TypeOK, Locations, AnswerInv, ContentInv, StoreInv
<1>11. CASE UNCHANGED vars
  BY <1>11 DEF vars, TypeOK, Locations, AnswerInv, ContentInv, StoreInv
<1>. QED  BY <1>1, <1>2, <1>3, <1>4, <1>5, <1>6, <1>7, <1>8, <1>9, <1>10, <1>11 DEF Next, Progress

-----------------------------------------------------------------------------
LEMMA InitIInv == Init => IInv
<1>. SUFFICES ASSUME Init PROVE IInv
  OBVIOUS
<1>1. TypeOK
  BY DEF Init, TypeOK, Locations, IsTable, EmptyMap
<1>2. LockInv /\ FreshInv /\ ParseInv /\ StoreInv /\ ContentInv /\ AnswerInv
  BY TagCacheAssumption DEF Init, LockInv, Inside, FreshInv, ParseInv, StoreInv, ContentInv,
     AnswerInv, EmptyMap
<1>. QED  BY <1>1, <1>2 DEF IInv

\* The inductive invariant holds in every reachable state.
THEOREM Invariance == Spec => []IInv
<1>1. IInv /\ [Next]_vars => IInv'
  BY TypeStep, LockStep, FreshStep, StoreStep, ParseStep, ContentStep, AnswerStep DEF IInv
<1>. QED  BY InitIInv, <1>1, PTL DEF Spec

\* The cache is type correct.
THEOREM TypeCorrect == Spec => []TypeOK
BY Invariance, PTL DEF IInv

\* A tag is parsed at most once per binder.
THEOREM OneParse == Spec => []ParsedOnce
<1>1. IInv => ParsedOnce
  BY DEF IInv, ParseInv, ParsedOnce
<1>. QED  BY Invariance, <1>1, PTL

\* Every bind that asked for a tag was given the same entry.
THEOREM SharedAnswers == Spec => []AnswersShared
<1>1. IInv => AnswersShared
  <2>1. \A k : EntryFor(k).key = k /\ EntryFor(k).bad = (k \in Malformed)
    BY DEF EntryFor, EntryOf
  <2>. QED  BY <2>1 DEF IInv, AnswerInv, ContentInv, AnswersShared
<1>. QED  BY Invariance, <1>1, PTL

\* No entry is lost or replaced.
THEOREM KeptEntries == Spec => EntriesKept
<1>1. IInv /\ [Next]_vars =>
        [\A k \in DOMAIN entries : k \in DOMAIN entries' /\ entries'[k] = entries[k]]_vars
  BY EntriesStep
<1>. QED  BY Invariance, <1>1, PTL DEF Spec, EntriesKept

-----------------------------------------------------------------------------
(* The refinement: each step is a step of the atomic memo, or a stutter *)

LEMMA InitRefines == Init => Memo!Init
<1>. SUFFICES ASSUME Init PROVE Memo!Init
  OBVIOUS
<1>1. memoStatus = [p \in Proc |-> "idle"]
  BY DEF Init, memoStatus, Found
<1>2. memoAnswer = [p \in Proc |-> NoEntry]
  BY DEF Init, memoAnswer, Found
<1>. QED  BY <1>1, <1>2 DEF Init, EmptyMap, Memo!Init

\* A lookup starts in the memo when it starts in the code.
LEMMA CallRefines ==
  ASSUME IInv, NEW p \in Proc, NEW k \in Key, LookupCall(p, k)
  PROVE  Memo!Invoke(p)
<1>1. memoStatus[p] = "idle" /\ memoStatus' = [memoStatus EXCEPT ![p] = "pending"]
  BY DEF LookupCall, Goto, memoStatus, Found, IInv, TypeOK
<1>2. memoAnswer' = [memoAnswer EXCEPT ![p] = NoEntry]
  BY DEF LookupCall, Goto, memoAnswer, Found, IInv, TypeOK
<1>. QED  BY <1>1, <1>2 DEF LookupCall, Memo!Invoke

\* A load that finds the entry is the lookup; one that does not is a stutter.
LEMMA LoadRefines ==
  ASSUME IInv, NEW p \in Proc, LookupLoad(p) \/ Reload(p)
  PROVE  Memo!Lookup(p) \/ UNCHANGED Memo!vars
<1>1. UNCHANGED <<entries, key, answer>> /\ view' = [view EXCEPT ![p] = entries]
  BY DEF LookupLoad, Reload, Load
<1>2. memoStatus[p] = "pending" /\ memoAnswer[p] = NoEntry
  BY DEF LookupLoad, Reload, Goto, memoStatus, memoAnswer, Found, IInv, AnswerInv
<1>3. CASE key[p] \in DOMAIN entries
  <2>1. memoStatus' = [memoStatus EXCEPT ![p] = "answered"]
    BY <1>1, <1>3 DEF LookupLoad, Reload, Goto, memoStatus, Found, IInv, TypeOK
  <2>2. memoAnswer' = [memoAnswer EXCEPT ![p] = entries[key[p]]]
    BY <1>1, <1>3 DEF LookupLoad, Reload, Goto, memoAnswer, Found, IInv, TypeOK
  <2>. QED  BY <1>1, <1>2, <1>3, <2>1, <2>2 DEF Memo!Lookup
<1>4. CASE key[p] \notin DOMAIN entries
  <2>1. memoStatus' = memoStatus
    BY <1>1, <1>4 DEF LookupLoad, Reload, Goto, memoStatus, Found, IInv, TypeOK
  <2>2. memoAnswer' = memoAnswer
    BY <1>1, <1>4 DEF LookupLoad, Reload, Goto, memoAnswer, Found, IInv, TypeOK
  <2>. QED  BY <1>1, <2>1, <2>2 DEF Memo!vars
<1>. QED  BY <1>3, <1>4

\* Publishing a new entry is the lookup that misses.
LEMMA StoreRefines ==
  ASSUME IInv, NEW p \in Proc, Store(p)
  PROVE  Memo!Lookup(p)
<1>1. /\ key[p] \notin DOMAIN entries
      /\ answer[p] = EntryFor(key[p])
      /\ view[p] = entries
  BY DEF Store, Goto, IInv, StoreInv, FreshInv
<1>2. memoStatus[p] = "pending" /\ memoStatus' = [memoStatus EXCEPT ![p] = "answered"]
  BY DEF Store, Goto, memoStatus, Found, IInv, TypeOK
<1>3. memoAnswer' = [memoAnswer EXCEPT ![p] = EntryFor(key[p])]
  BY <1>1 DEF Store, Goto, memoAnswer, Found, IInv, TypeOK
<1>4. entries' = [k \in DOMAIN entries \cup {key[p]} |->
                    IF k = key[p] THEN EntryFor(k) ELSE entries[k]]
  BY <1>1 DEF Store
<1>. QED  BY <1>1, <1>2, <1>3, <1>4 DEF Store, Memo!Lookup

\* A lookup returns in the memo when it returns in the code.
LEMMA ReturnRefines ==
  ASSUME IInv, NEW p \in Proc, LookupHit(p) \/ Unlock(p)
  PROVE  Memo!Return(p)
<1>1. memoStatus[p] = "answered" /\ memoStatus' = [memoStatus EXCEPT ![p] = "idle"]
  BY DEF LookupHit, Unlock, Goto, memoStatus, Found, IInv, TypeOK
<1>2. memoAnswer' = memoAnswer
  BY DEF LookupHit, Unlock, Goto, Take, memoAnswer, Found, IInv, TypeOK
<1>. QED  BY <1>1, <1>2 DEF LookupHit, Unlock, Memo!Return

\* The other steps change nothing the memo knows of.
LEMMA StutterRefines ==
  ASSUME IInv, NEW p \in Proc, LookupMiss(p) \/ Lock(p) \/ RecheckHit(p) \/ Parse(p)
  PROVE  UNCHANGED Memo!vars
<1>1. memoStatus' = memoStatus
  BY DEF LookupMiss, Lock, RecheckHit, Parse, Goto, memoStatus, Found, IInv, TypeOK
<1>2. CASE LookupMiss(p) \/ Lock(p) \/ RecheckHit(p)
  <2>1. memoAnswer' = memoAnswer
    BY <1>2 DEF LookupMiss, Lock, RecheckHit, Goto, Take, memoAnswer, Found, IInv, TypeOK
  <2>. QED  BY <1>1, <1>2, <2>1 DEF LookupMiss, Lock, RecheckHit, Memo!vars
<1>3. CASE Parse(p)
  <2>1. answer[p] = NoEntry
    BY <1>3 DEF Parse, Goto, IInv, AnswerInv
  <2>2. memoAnswer' = memoAnswer
    BY <1>3, <2>1 DEF Parse, Goto, memoAnswer, Found, IInv, TypeOK
  <2>. QED  BY <1>1, <1>3, <2>2 DEF Parse, Memo!vars
<1>. QED  BY <1>2, <1>3

\* The cache implements the atomic memo.
THEOREM Refinement == Spec => ImplementsMemo
<1>1. IInv /\ [Next]_vars => [Memo!Next]_(Memo!vars)
  <2>. SUFFICES ASSUME IInv, [Next]_vars PROVE Memo!Next \/ UNCHANGED Memo!vars
    OBVIOUS
  <2>1. ASSUME NEW p \in Proc, NEW k \in Key, LookupCall(p, k) PROVE Memo!Next
    BY <2>1, CallRefines DEF Memo!Next
  <2>2. ASSUME NEW p \in Proc, LookupLoad(p) \/ Reload(p) PROVE Memo!Next \/ UNCHANGED Memo!vars
    BY <2>2, LoadRefines DEF Memo!Next
  <2>3. ASSUME NEW p \in Proc, Store(p) PROVE Memo!Next
    BY <2>3, StoreRefines DEF Memo!Next
  <2>4. ASSUME NEW p \in Proc, LookupHit(p) \/ Unlock(p) PROVE Memo!Next
    BY <2>4, ReturnRefines DEF Memo!Next
  <2>5. ASSUME NEW p \in Proc, LookupMiss(p) \/ Lock(p) \/ RecheckHit(p) \/ Parse(p)
        PROVE  UNCHANGED Memo!vars
    BY <2>5, StutterRefines
  <2>6. CASE UNCHANGED vars
    BY <2>6 DEF vars, Memo!vars, memoStatus, memoAnswer, Found
  <2>. QED  BY <2>1, <2>2, <2>3, <2>4, <2>5, <2>6 DEF Next, Progress
<1>. QED  BY Invariance, InitRefines, <1>1, PTL DEF Spec, ImplementsMemo, Memo!Spec

-----------------------------------------------------------------------------
(* The binds *)

TypeInv ==
    /\ step \in [Proc -> {"out", "fields", "tag", "attach", "print", "failed"}]
    /\ target \in [Proc -> Struct \cup {NoStruct}]
    /\ next \in [Proc -> Nat]
    /\ left \in [Proc -> SUBSET Words]
    /\ \A p \in Proc : left[p] # {} => step[p] \in {"attach", "print"}

\* The fields of a struct before the i-th have tags that are well formed.
FineBefore(s, i) == \A j \in DOMAIN Fields[s] : j < i => Fields[s][j].key \notin Malformed

\* Where goroutine p is, and what it knows of the tag it is at.
AtField(p) ==
    /\ step[p] # "tag" => pc[p] = "idle"
    /\ pc[p] \in {"store", "unlock"} => answer[p] # NoEntry
    /\ step[p] # "out" => target[p] \in Struct /\ next[p] # 0 /\ FineBefore(target[p], next[p])
    /\ step[p] \in {"tag", "attach", "print", "failed"} =>
         /\ next[p] \in DOMAIN Fields[target[p]]
         /\ key[p] = Here(p).key
         /\ pc[p] = "idle" => answer[p] # NoEntry
    /\ step[p] \in {"attach", "print", "failed"} => answer[p].bad

BindInv == IInv /\ TypeInv /\ \A p \in Proc : AtField(p)

-----------------------------------------------------------------------------
\* The entry of a tag is bad when the tag is.
LEMMA BadIsMalformed == \A k : EntryFor(k).bad = (k \in Malformed)
BY DEF EntryFor, EntryOf

\* A step of a bind is a step of the cache, or none.
LEMMA CacheStep ==
  ASSUME BindInv, [NextBind]_allVars
  PROVE  [Next]_vars
<1>1. ASSUME NEW p \in Proc, LookupTag(p) PROVE Next
  <2>1. step[p] = "fields" /\ next[p] <= Len(Fields[target[p]]) /\ LookupCall(p, Here(p).key)
    BY <1>1 DEF LookupTag, Jump
  <2>2. target[p] \in Struct /\ next[p] \in Nat /\ next[p] # 0
    BY <2>1 DEF BindInv, AtField, TypeInv
  <2>3. Here(p).key \in Key
    BY <2>1, <2>2, StructAssumption DEF Here
  <2>. QED  BY <2>1, <2>3 DEF Next
<1>2. ASSUME NEW p \in Proc, InCache(p) PROVE Next
  BY <1>2 DEF InCache, Next
<1>3. ASSUME NEW p \in Proc,
             \/ Bind(p) \/ TagFine(p) \/ BindSucceeds(p) \/ FieldIsSet(p) \/ FieldIsEmpty(p)
             \/ WriteWord(p) \/ Attached(p) \/ ReadWord(p) \/ BindFails(p) \/ Again(p)
      PROVE  UNCHANGED vars
  BY <1>3 DEF Bind, TagFine, BindSucceeds, FieldIsSet, FieldIsEmpty, WriteWord, Attached, ReadWord,
     BindFails, Again
<1>4. CASE UNCHANGED allVars
  BY <1>4 DEF allVars
<1>. QED  BY <1>1, <1>2, <1>3, <1>4 DEF NextBind, BindStep

LEMMA CacheInv ==
  ASSUME BindInv, [NextBind]_allVars
  PROVE  IInv'
BY CacheStep, TypeStep, LockStep, FreshStep, StoreStep, ParseStep, ContentStep, AnswerStep
   DEF IInv, BindInv

\* The state of the binds keeps its shape.
LEMMA BindTypeStep ==
  ASSUME BindInv, [NextBind]_allVars
  PROVE  TypeInv'
<1>. DEFINE Goal == TypeInv'
<1>. USE DEF BindInv, TypeInv, Jump, Words
<1>1. ASSUME NEW p \in Proc, Bind(p) PROVE Goal
  BY <1>1 DEF Bind
<1>2. ASSUME NEW p \in Proc, LookupTag(p) PROVE Goal
  BY <1>2 DEF LookupTag
<1>3. ASSUME NEW p \in Proc, InCache(p) PROVE Goal
  BY <1>3 DEF InCache, bindVars
<1>4. ASSUME NEW p \in Proc, TagFine(p) PROVE Goal
  BY <1>4 DEF TagFine
<1>5. ASSUME NEW p \in Proc, BindSucceeds(p) PROVE Goal
  BY <1>5 DEF BindSucceeds
<1>6. ASSUME NEW p \in Proc, FieldIsSet(p) PROVE Goal
  BY <1>6 DEF FieldIsSet
<1>7. ASSUME NEW p \in Proc, FieldIsEmpty(p) PROVE Goal
  BY <1>7 DEF FieldIsEmpty
<1>8. ASSUME NEW p \in Proc, WriteWord(p) PROVE Goal
  BY <1>8 DEF WriteWord
<1>9. ASSUME NEW p \in Proc, Attached(p) PROVE Goal
  BY <1>9 DEF Attached
<1>10. ASSUME NEW p \in Proc, ReadWord(p) PROVE Goal
  BY <1>10 DEF ReadWord
<1>11. ASSUME NEW p \in Proc, BindFails(p) PROVE Goal
  BY <1>11 DEF BindFails
<1>12. ASSUME NEW p \in Proc, Again(p) PROVE Goal
  BY <1>12 DEF Again
<1>13. CASE UNCHANGED allVars
  BY <1>13 DEF allVars, bindVars
<1>. QED
  BY <1>1, <1>2, <1>3, <1>4, <1>5, <1>6, <1>7, <1>8, <1>9, <1>10, <1>11, <1>12, <1>13 DEF NextBind, BindStep

-----------------------------------------------------------------------------
(* Where the goroutines are *)

\* A goroutine that is not concerned stays where it is.
LEMMA Elsewhere ==
  ASSUME NEW q \in Proc, AtField(q),
         step'[q] = step[q], target'[q] = target[q], next'[q] = next[q],
         pc'[q] = pc[q], key'[q] = key[q], answer'[q] = answer[q]
  PROVE  AtField(q)'
BY DEF AtField, Here, FineBefore

\* Inside the cache only what a lookup is about changes, and it ends with an
\* answer.
LEMMA LookupEnds ==
  ASSUME BindInv, NEW p \in Proc, Lock(p) \/ Progress(p)
  PROVE  /\ key' = key
         /\ pc[p] # "idle"
         /\ pc'[p] \in {"idle", "store", "unlock"} => answer'[p] # NoEntry
         /\ \A q \in Proc \ {p} : pc'[q] = pc[q] /\ answer'[q] = answer[q]
<1>. USE DEF BindInv, IInv, TypeOK, Goto
<1>1. CASE LookupLoad(p)
  BY <1>1 DEF LookupLoad
<1>2. CASE LookupHit(p)
  BY <1>2, TakeType, TagCacheAssumption DEF LookupHit, Take, Entry
<1>3. CASE LookupMiss(p)
  BY <1>3 DEF LookupMiss
<1>4. CASE Lock(p)
  BY <1>4 DEF Lock
<1>5. CASE Reload(p)
  BY <1>5 DEF Reload
<1>6. CASE RecheckHit(p)
  BY <1>6, TakeType, TagCacheAssumption DEF RecheckHit, Take, Entry
<1>7. CASE Parse(p)
  BY <1>7, EntryType DEF Parse
<1>8. CASE Store(p)
  BY <1>8 DEF Store, AtField
<1>9. CASE Unlock(p)
  BY <1>9 DEF Unlock, AtField
<1>. QED  BY <1>1, <1>2, <1>3, <1>4, <1>5, <1>6, <1>7, <1>8, <1>9 DEF Progress

LEMMA AtFieldStep ==
  ASSUME BindInv, [NextBind]_allVars, NEW q \in Proc
  PROVE  AtField(q)'
<1>. DEFINE Goal == AtField(q)'
<1>0. AtField(q) /\ TypeInv
  BY DEF BindInv
<1>1. ASSUME NEW p \in Proc, Bind(p) PROVE Goal
  <2>1. CASE p # q
    BY <1>0, <1>1, <2>1, Elsewhere DEF Bind, Jump, vars, TypeInv
  <2>2. CASE p = q
    <3>1. FineBefore(target'[q], 1)
      <4>1. target'[q] \in Struct
        BY <1>0, <1>1, <2>2 DEF Bind, TypeInv
      <4>. QED  BY <4>1, StructAssumption DEF FineBefore
    <3>. QED  BY <1>0, <1>1, <2>2, <3>1 DEF Bind, Jump, vars, TypeInv, AtField, FineBefore
  <2>. QED  BY <2>1, <2>2
<1>2. ASSUME NEW p \in Proc, LookupTag(p) PROVE Goal
  <2>1. CASE p # q
    BY <1>0, <1>2, <2>1, Elsewhere DEF LookupTag, LookupCall, Goto, Jump, TypeInv, BindInv, IInv, TypeOK
  <2>2. CASE p = q
    <3>1. /\ step[q] = "fields" /\ step'[q] = "tag" /\ pc'[q] = "lookup"
          /\ key'[q] = Here(q).key /\ UNCHANGED <<target, next>>
      BY <1>2, <2>2 DEF LookupTag, LookupCall, Goto, Jump, TypeInv, BindInv, IInv, TypeOK
    <3>2. next[q] \in Nat /\ next[q] # 0 /\ target[q] \in Struct /\ FineBefore(target[q], next[q])
      BY <1>0, <3>1 DEF AtField, TypeInv
    <3>3. next[q] \in DOMAIN Fields[target[q]]
      BY <1>2, <2>2, <3>2, StructAssumption DEF LookupTag
    <3>. QED  BY <3>1, <3>2, <3>3 DEF AtField, Here, FineBefore
  <2>. QED  BY <2>1, <2>2
<1>3. ASSUME NEW p \in Proc, InCache(p) PROVE Goal
  <2>0. UNCHANGED <<step, target, next>> /\ (Lock(p) \/ Progress(p))
    BY <1>3 DEF InCache, bindVars
  <2>1. CASE p # q
    BY <1>0, <2>0, <2>1, LookupEnds, Elsewhere
  <2>2. CASE p = q
    BY <1>0, <2>0, <2>2, LookupEnds DEF AtField, Here, FineBefore
  <2>. QED  BY <2>1, <2>2
<1>4. ASSUME NEW p \in Proc, TagFine(p) PROVE Goal
  <2>1. CASE p # q
    BY <1>0, <1>4, <2>1, Elsewhere DEF TagFine, Jump, vars, TypeInv
  <2>2. CASE p = q
    <3>1. /\ step[q] = "tag" /\ step'[q] = "fields" /\ pc[q] = "idle" /\ ~answer[q].bad
          /\ next'[q] = next[q] + 1 /\ UNCHANGED <<target, pc, key, answer>>
      BY <1>0, <1>4, <2>2 DEF TagFine, Jump, vars, TypeInv
    <3>2. /\ next[q] \in Nat /\ target[q] \in Struct /\ FineBefore(target[q], next[q])
          /\ next[q] \in DOMAIN Fields[target[q]] /\ key[q] = Here(q).key /\ answer[q] # NoEntry
      BY <1>0, <3>1 DEF AtField, TypeInv
    <3>3. answer[q] = EntryFor(key[q])
      BY <3>1, <3>2 DEF BindInv, IInv, AnswerInv
    <3>4. Here(q).key \notin Malformed
      BY <3>1, <3>2, <3>3, BadIsMalformed
    <3>5. FineBefore(target[q], next[q] + 1)
      BY <3>2, <3>4, StructAssumption DEF FineBefore, Here
    <3>. QED  BY <3>1, <3>2, <3>5 DEF AtField, FineBefore
  <2>. QED  BY <2>1, <2>2
<1>5. ASSUME NEW p \in Proc, FieldIsSet(p) \/ FieldIsEmpty(p) PROVE Goal
  <2>1. CASE p # q
    BY <1>0, <1>5, <2>1, Elsewhere DEF FieldIsSet, FieldIsEmpty, Jump, vars, TypeInv
  <2>2. CASE p = q
    BY <1>0, <1>5, <2>2 DEF FieldIsSet, FieldIsEmpty, Jump, vars, TypeInv, AtField, Here, FineBefore
  <2>. QED  BY <2>1, <2>2
<1>6. ASSUME NEW p \in Proc, BindSucceeds(p) \/ Attached(p) \/ BindFails(p) \/ Again(p) PROVE Goal
  <2>1. CASE p # q
    BY <1>0, <1>6, <2>1, Elsewhere DEF BindSucceeds, Attached, BindFails, Again, Jump, vars, TypeInv
  <2>2. CASE p = q
    BY <1>0, <1>6, <2>2 DEF BindSucceeds, Attached, BindFails, Again, Jump, vars, TypeInv, AtField, Here,
       FineBefore
  <2>. QED  BY <2>1, <2>2
<1>7. ASSUME NEW p \in Proc, WriteWord(p) \/ ReadWord(p) PROVE Goal
  BY <1>0, <1>7, Elsewhere DEF WriteWord, ReadWord, vars
<1>8. CASE UNCHANGED allVars
  BY <1>0, <1>8, Elsewhere DEF allVars, vars, bindVars
<1>. QED  BY <1>1, <1>2, <1>3, <1>4, <1>5, <1>6, <1>7, <1>8 DEF NextBind, BindStep

LEMMA BindInit == InitBind => BindInv
<1>. SUFFICES ASSUME InitBind PROVE BindInv
  OBVIOUS
<1>1. IInv
  BY InitIInv DEF InitBind
<1>2. TypeInv
  BY DEF InitBind, TypeInv, Words
<1>3. \A p \in Proc : AtField(p)
  BY DEF InitBind, Init, AtField
<1>. QED  BY <1>1, <1>2, <1>3 DEF BindInv

LEMMA BindInvStep ==
  ASSUME BindInv, [NextBind]_allVars
  PROVE  BindInv'
BY CacheInv, BindTypeStep, AtFieldStep DEF BindInv

-----------------------------------------------------------------------------
(* The Field of the errors *)

\* Both strings are pairs of words.
PairInv ==
    /\ DOMAIN Field = Key /\ \A k \in Key : DOMAIN Field[k] = Words
    /\ DOMAIN shown = Proc /\ \A p \in Proc : DOMAIN shown[p] = Words

\* A Field only holds words of paths at which its tag is written.
FieldInv == \A k \in Key, w \in Words : Field[k][w] \in TagPaths(k) \cup {NoPath}

\* The length of a path is there once a bind wrote it or saw it, and what a
\* caller has read are words of the Field.
ReadInv(p) ==
    LET k == Here(p).key IN
      /\ step[p] = "attach" /\ "len" \notin left[p] => Field[k].len # NoPath
      /\ step[p] = "print" => Field[k].len # NoPath
      /\ step[p] \in {"print", "failed"} =>
           /\ \A w \in Words \ left[p] : shown[p][w] \in TagPaths(k) \cup {NoPath}
           /\ "len" \notin left[p] => shown[p].len # NoPath

PathInv == BindInv /\ PairInv /\ FieldInv /\ \A p \in Proc : ReadInv(p)

\* The path a bind is at is one at which its tag is written, and is a path.
LEMMA HereIsAPath ==
  ASSUME BindInv, NEW p \in Proc, step[p] \in {"tag", "attach", "print", "failed"}
  PROVE  Here(p).key \in Key /\ Here(p).path \in TagPaths(Here(p).key) /\ Here(p).path # NoPath
<1>1. target[p] \in Struct /\ next[p] \in DOMAIN Fields[target[p]]
  BY DEF BindInv, AtField
<1>. QED  BY <1>1, StructAssumption DEF Here, TagPaths

\* A bind that failed has the entry of the tag it is at.
LEMMA AnswerIsHere ==
  ASSUME BindInv, NEW p \in Proc,
         step[p] \in {"attach", "print", "failed"} \/ (step[p] = "tag" /\ pc[p] = "idle")
  PROVE  answer[p].key = Here(p).key
<1>1. key[p] = Here(p).key /\ answer[p] # NoEntry /\ pc[p] = "idle"
  BY DEF BindInv, AtField
<1>2. answer[p] = EntryFor(key[p])
  BY <1>1 DEF BindInv, IInv, AnswerInv
<1>. QED  BY <1>1, <1>2 DEF EntryFor, EntryOf

\* A bind that is not concerned has read what it had read.
LEMMA ReadElsewhere ==
  ASSUME NEW q \in Proc, ReadInv(q),
         step'[q] = step[q], target'[q] = target[q], next'[q] = next[q],
         left'[q] = left[q], shown'[q] = shown[q], Field' = Field
  PROVE  ReadInv(q)'
<1>1. Here(q)' = Here(q)
  BY DEF Here
<1>. QED  BY <1>1 DEF ReadInv, TagPaths, Words

LEMMA PathStep ==
  ASSUME PathInv, [NextBind]_allVars
  PROVE  PathInv'
<1>. DEFINE Goal == PairInv' /\ FieldInv' /\ \A q \in Proc : ReadInv(q)'
<1>0. BindInv /\ PairInv /\ FieldInv /\ TypeInv /\ (\A q \in Proc : ReadInv(q))
  BY DEF PathInv, BindInv
<1>00. BindInv'
  BY <1>0, BindInvStep
\* The steps that leave the strings alone.
<1>1. ASSUME NEW p \in Proc,
             Bind(p) \/ LookupTag(p) \/ TagFine(p) \/ BindSucceeds(p) \/ Again(p) \/ BindFails(p)
             \/ FieldIsSet(p) \/ FieldIsEmpty(p) \/ Attached(p)
      PROVE  Goal
  <2>1. Field' = Field /\ DOMAIN shown' = Proc /\ \A q \in Proc : DOMAIN shown'[q] = Words
    BY <1>0, <1>1 DEF Bind, LookupTag, TagFine, BindSucceeds, Again, BindFails, FieldIsSet, FieldIsEmpty,
       Attached, PairInv, Empty, Words
  <2>2. PairInv' /\ FieldInv'
    BY <1>0, <2>1 DEF PairInv, FieldInv, TagPaths, Words
  <2>3. ASSUME NEW q \in Proc, q # p PROVE ReadInv(q)'
    BY <1>0, <1>1, <2>3, <2>1, ReadElsewhere DEF Bind, LookupTag, TagFine, BindSucceeds, Again,
       BindFails, FieldIsSet, FieldIsEmpty, Attached, Jump, TypeInv, PairInv
  <2>4. ReadInv(p)'
    <3>1. ASSUME step'[p] \in {"out", "fields", "tag"} PROVE ReadInv(p)'
      BY <3>1 DEF ReadInv
    <3>2. CASE BindFails(p)
      <4>1. step[p] = "print" /\ left[p] = {} /\ UNCHANGED <<target, next, left, Field, shown>>
        BY <3>2 DEF BindFails, Jump
      <4>2. Here(p)' = Here(p) /\ step'[p] = "failed"
        BY <1>0, <3>2, <4>1 DEF Here, BindFails, Jump, TypeInv
      <4>. QED  BY <1>0, <4>1, <4>2 DEF ReadInv, TagPaths, Words
    <3>3. CASE FieldIsSet(p)
      <4>1. /\ step'[p] = "print" /\ left'[p] = Words /\ UNCHANGED <<target, next, Field>>
            /\ Field[answer[p].key].len # NoPath /\ step[p] = "tag" /\ pc[p] = "idle"
        BY <1>0, <3>3 DEF FieldIsSet, Jump, TypeInv
      <4>2. Here(p)' = Here(p) /\ answer[p].key = Here(p).key
        BY <1>0, <4>1, AnswerIsHere DEF Here
      <4>. QED  BY <4>1, <4>2 DEF ReadInv, Words
    <3>4. CASE FieldIsEmpty(p)
      <4>1. step'[p] = "attach" /\ left'[p] = Words
        BY <1>0, <3>4 DEF FieldIsEmpty, Jump, TypeInv
      <4>. QED  BY <4>1 DEF ReadInv, Words
    <3>5. CASE Attached(p)
      <4>1. /\ step[p] = "attach" /\ left[p] = {} /\ step'[p] = "print" /\ left'[p] = Words
            /\ UNCHANGED <<target, next, Field>>
        BY <1>0, <3>5 DEF Attached, Jump, TypeInv
      <4>2. Here(p)' = Here(p)
        BY <4>1 DEF Here
      <4>. QED  BY <1>0, <4>1, <4>2 DEF ReadInv, Words
    <3>6. CASE Bind(p) \/ LookupTag(p) \/ TagFine(p) \/ BindSucceeds(p) \/ Again(p)
      <4>. step'[p] \in {"out", "fields", "tag"}
        BY <1>0, <3>6 DEF Bind, LookupTag, TagFine, BindSucceeds, Again, Jump, TypeInv
      <4>. QED  BY <3>1
    <3>. QED  BY <1>1, <3>2, <3>3, <3>4, <3>5, <3>6
  <2>. QED  BY <2>2, <2>3, <2>4
<1>2. ASSUME NEW p \in Proc, InCache(p) PROVE Goal
  BY <1>0, <1>2, ReadElsewhere DEF InCache, bindVars, PairInv, FieldInv, TagPaths
<1>3. ASSUME NEW p \in Proc, WriteWord(p) PROVE Goal
  <2>1. PICK w \in Words :
          /\ w \in left[p] /\ step[p] = "attach" /\ UNCHANGED <<vars, step, target, next, shown>>
          /\ Field' = [Field EXCEPT ![answer[p].key][w] = Here(p).path]
          /\ left' = [left EXCEPT ![p] = @ \ {w}]
    BY <1>0, <1>3 DEF WriteWord, TypeInv
  <2>2. /\ answer[p].key = Here(p).key /\ Here(p).key \in Key
        /\ Here(p).path \in TagPaths(Here(p).key) /\ Here(p).path # NoPath
    BY <1>0, <2>1, AnswerIsHere, HereIsAPath
  <2>3. /\ DOMAIN Field' = Key
        /\ \A k \in Key : DOMAIN Field'[k] = Words
        /\ \A k \in Key, v \in Words :
             Field'[k][v] = IF k = Here(p).key /\ v = w THEN Here(p).path ELSE Field[k][v]
    BY <1>0, <2>1, <2>2 DEF PairInv
  <2>4. PairInv'
    BY <1>0, <2>1, <2>3 DEF PairInv, Words
  <2>5. FieldInv'
    BY <1>0, <2>2, <2>3 DEF FieldInv, TagPaths, Words
  <2>6. ASSUME NEW q \in Proc PROVE ReadInv(q)'
    <3>1. Here(q)' = Here(q) /\ step'[q] = step[q] /\ shown'[q] = shown[q]
      BY <2>1 DEF Here
    <3>2. CASE step[q] \in {"attach", "print", "failed"}
      <4>1. Here(q).key \in Key
        BY <1>0, <3>2, HereIsAPath
      <4>2. Field[Here(q).key].len # NoPath => Field'[Here(q).key].len # NoPath
        BY <2>2, <2>3, <4>1 DEF Words
      <4>3. q # p => left'[q] = left[q]
        BY <1>0, <2>1 DEF TypeInv
      <4>4. q = p => left'[q] = left[q] \ {w}
        BY <1>0, <2>1 DEF TypeInv
      <4>5. q = p /\ w = "len" => Field'[Here(q).key].len # NoPath
        BY <2>2, <2>3 DEF Words
      <4>6. CASE q = p
        BY <1>0, <2>1, <3>1, <4>2, <4>4, <4>5, <4>6 DEF ReadInv
      <4>7. CASE q # p
        <5>1. TagPaths(Here(q).key)' = TagPaths(Here(q).key)
          BY <3>1 DEF TagPaths
        <5>. QED  BY <1>0, <3>1, <4>2, <4>3, <4>7, <5>1 DEF ReadInv, Words, TagPaths
      <4>. QED  BY <4>6, <4>7
    <3>3. CASE step[q] \notin {"attach", "print", "failed"}
      BY <3>1, <3>3 DEF ReadInv
    <3>. QED  BY <3>2, <3>3
  <2>. QED  BY <2>4, <2>5, <2>6
<1>4. ASSUME NEW p \in Proc, ReadWord(p) PROVE Goal
  <2>1. PICK w \in Words :
          /\ w \in left[p] /\ step[p] = "print" /\ UNCHANGED <<vars, step, target, next, Field>>
          /\ shown' = [shown EXCEPT ![p][w] = Field[answer[p].key][w]]
          /\ left' = [left EXCEPT ![p] = @ \ {w}]
    BY <1>0, <1>4 DEF ReadWord, TypeInv
  <2>2. answer[p].key = Here(p).key /\ Here(p).key \in Key
    BY <1>0, <2>1, AnswerIsHere, HereIsAPath
  <2>3. PairInv' /\ FieldInv'
    BY <1>0, <2>1 DEF PairInv, FieldInv, TagPaths, Words
  <2>4. ASSUME NEW q \in Proc, q # p PROVE ReadInv(q)'
    BY <1>0, <2>1, <2>4, ReadElsewhere DEF TypeInv, PairInv
  <2>5. ReadInv(p)'
    <3>1. Here(p)' = Here(p) /\ left'[p] = left[p] \ {w} /\ step'[p] = "print"
      BY <1>0, <2>1 DEF Here, TypeInv
    <3>2. \A v \in Words : shown'[p][v] = IF v = w THEN Field[Here(p).key][w] ELSE shown[p][v]
      BY <1>0, <2>1, <2>2 DEF PairInv
    <3>3. Field[Here(p).key].len # NoPath /\ Field[Here(p).key][w] \in TagPaths(Here(p).key) \cup {NoPath}
      BY <1>0, <2>1, <2>2 DEF ReadInv, FieldInv
    <3>4. \A v \in Words \ left'[p] : shown'[p][v] \in TagPaths(Here(p).key) \cup {NoPath}
      BY <1>0, <2>1, <3>1, <3>2, <3>3 DEF ReadInv
    <3>5. "len" \notin left'[p] => shown'[p].len # NoPath
      BY <1>0, <2>1, <3>1, <3>2, <3>3 DEF ReadInv, Words
    <3>6. TagPaths(Here(p).key)' = TagPaths(Here(p).key)
      BY <3>1 DEF TagPaths
    <3>. QED  BY <2>1, <3>1, <3>3, <3>4, <3>5, <3>6 DEF ReadInv, Words, TagPaths
  <2>. QED  BY <2>3, <2>4, <2>5
<1>5. ASSUME UNCHANGED allVars PROVE Goal
  BY <1>0, <1>5, ReadElsewhere DEF allVars, bindVars, PairInv, FieldInv, TagPaths
<1>. QED
  BY <1>00, <1>1, <1>2, <1>3, <1>4, <1>5 DEF PathInv, NextBind, BindStep

LEMMA PathInvariance == BindSpec => []PathInv
<1>2. InitBind => PathInv
  BY BindInit DEF InitBind, PathInv, PairInv, FieldInv, ReadInv, Empty, Words
<1>3. PathInv /\ [NextBind]_allVars => PathInv'
  BY PathStep
<1>. QED  BY <1>2, <1>3, PTL DEF BindSpec

-----------------------------------------------------------------------------
(* The theorems *)

(* fieldError fills the Field of a cached error only with paths at which its
   tag is written, in whatever order the words are stored, and no bind fails
   with an error whose path is still empty. *)
THEOREM PathsAreTheTags == BindSpec => []PathsOfTheTag
<1>1. PathInv => PathsOfTheTag
  <2>. SUFFICES ASSUME PathInv PROVE PathsOfTheTag
    OBVIOUS
  <2>1. ASSUME NEW p \in Proc, step[p] = "failed"
        PROVE  /\ shown[p].len \in TagPaths(Here(p).key)
               /\ shown[p].ptr \in TagPaths(Here(p).key) \cup {NoPath}
    <3>1. left[p] = {}
      BY <2>1 DEF PathInv, BindInv, TypeInv
    <3>. QED  BY <2>1, <3>1 DEF PathInv, ReadInv, Words
  <2>. QED  BY <2>1 DEF PathInv, FieldInv, PathsOfTheTag
<1>. QED  BY PathInvariance, <1>1, PTL

(* The cached errors of parseAndStore reach every bind that meets their tag: a
   bind fails at the first malformed tag of its struct, with the entry of that
   tag, and one that gets past its last field has met none. *)
THEOREM VerdictsAreRight == BindSpec => []VerdictIsTheTags
<1>1. PathInv => VerdictIsTheTags
  <2>. SUFFICES ASSUME PathInv, NEW p \in Proc
                PROVE  /\ step[p] \in {"attach", "print", "failed"} =>
                            /\ next[p] \in FirstBad(target[p])
                            /\ answer[p] = entries[Here(p).key]
                       /\ step[p] = "fields" /\ next[p] > Len(Fields[target[p]]) => FirstBad(target[p]) = {}
    BY DEF VerdictIsTheTags
  <2>0. BindInv /\ AtField(p) /\ next[p] \in Nat
    BY DEF PathInv, BindInv, TypeInv
  <2>1. CASE step[p] \in {"attach", "print", "failed"}
    <3>1. /\ target[p] \in Struct /\ FineBefore(target[p], next[p])
          /\ next[p] \in DOMAIN Fields[target[p]] /\ key[p] = Here(p).key
          /\ pc[p] = "idle" /\ answer[p] # NoEntry /\ answer[p].bad
      BY <2>0, <2>1 DEF AtField
    <3>2. answer[p] = EntryFor(key[p]) /\ entries[key[p]] = EntryFor(key[p])
      BY <2>0, <3>1 DEF BindInv, IInv, AnswerInv, ContentInv
    <3>3. key[p] \in Malformed
      BY <3>1, <3>2, BadIsMalformed
    <3>4. \A j \in 1..(next[p] - 1) : j \in DOMAIN Fields[target[p]] /\ j < next[p]
      BY <2>0, <3>1, StructAssumption
    <3>. QED  BY <2>1, <3>1, <3>2, <3>3, <3>4 DEF FirstBad, FineBefore, Here
  <2>2. CASE step[p] = "fields" /\ next[p] > Len(Fields[target[p]])
    <3>1. target[p] \in Struct /\ FineBefore(target[p], next[p])
      BY <2>0, <2>2 DEF AtField
    <3>2. \A j \in DOMAIN Fields[target[p]] : j < next[p]
      BY <2>0, <2>2, <3>1, StructAssumption
    <3>. QED  BY <2>2, <3>1, <3>2 DEF FirstBad, FineBefore
  <2>. QED  BY <2>1, <2>2
<1>. QED  BY PathInvariance, <1>1, PTL
=============================================================================
