------------------------------ MODULE TagCache ------------------------------
(***************************************************************************)
(* tagCache: parsed struct tags, memoised for the goroutines that bind     *)
(* with one binder.  A hit is one atomic load and one map read; a miss     *)
(* takes the mutex, looks again, parses, and publishes a copy of the map   *)
(* with the new entry.                                                     *)
(*                                                                         *)
(* A key is a tagFieldKey (the struct tag and the tag key).  Parsing is a  *)
(* function of the key: Malformed are the keys whose tag it refuses.  An   *)
(* entry is known by the parse that made it, as its address is in the      *)
(* program, so that two parses of one key make two entries.                *)
(***************************************************************************)
EXTENDS Naturals

CONSTANTS
    Proc,       \* the goroutines
    NoProc,     \* the owner of a free mutex
    Key,        \* the tags of the program's struct types
    NoKey,
    NoEntry,
    Malformed   \* the keys parseFieldTag returns an error for

ASSUME TagCacheAssumption ==
    /\ NoProc \notin Proc
    /\ NoKey \notin Key
    /\ Malformed \subseteq Key
    /\ NoEntry \notin [key : Key, parse : Nat, bad : BOOLEAN]

VARIABLES
    entries,  \* the atomic pointer: the published map from key to entry
    writes,   \* the owner of the mutex
    parses,   \* parses[k]: how often parseFieldTag ran for k
    pc,       \* pc[p]: where goroutine p is
    key,      \* key[p]: the key p looks up, or looked up last
    view,     \* view[p]: the map p loaded last
    answer    \* answer[p]: the entry lookup returned

vars == <<entries, writes, parses, pc, key, view, answer>>

\* Wrong: the error of a malformed tag is not kept.
EntryWithoutError(k, n) == [key |-> k, parse |-> n]

\* The entry made by the n-th parse of k.  Its error is cached as well.
EntryOf(k, n) == [key |-> k, parse |-> n, bad |-> k \in Malformed]
Entry == [key : Key, parse : Nat, bad : BOOLEAN]

\* The only entry a key ever gets.
EntryFor(k) == EntryOf(k, 1)

EmptyMap == [k \in {} |-> NoEntry]

Init ==
    /\ entries = EmptyMap
    /\ writes = NoProc
    /\ parses = [k \in Key |-> 0]
    /\ pc = [p \in Proc |-> "idle"]
    /\ key = [p \in Proc |-> NoKey]
    /\ view = [p \in Proc |-> EmptyMap]
    /\ answer = [p \in Proc |-> NoEntry]

Goto(p, from, to) ==
    /\ pc[p] = from
    /\ pc' = [pc EXCEPT ![p] = to]

Load(p) == view' = [view EXCEPT ![p] = entries]

\* The answer is the address of the entry in the map p loaded.
Take(p) == answer' = [answer EXCEPT ![p] = view[p][key[p]]]

\* bindStruct asks for the tag of its next field.
LookupCall(p, k) ==
    /\ Goto(p, "idle", "lookup")
    /\ key' = [key EXCEPT ![p] = k]
    /\ answer' = [answer EXCEPT ![p] = NoEntry]
    /\ UNCHANGED <<entries, writes, parses, view>>

LookupLoad(p) ==
    /\ Goto(p, "lookup", "find")
    /\ Load(p)
    /\ UNCHANGED <<entries, writes, parses, key, answer>>

LookupHit(p) ==
    /\ Goto(p, "find", "idle")
    /\ key[p] \in DOMAIN view[p]
    /\ Take(p)
    /\ UNCHANGED <<entries, writes, parses, key, view>>

LookupMiss(p) ==
    /\ Goto(p, "find", "lock")
    /\ key[p] \notin DOMAIN view[p]
    /\ UNCHANGED <<entries, writes, parses, key, view, answer>>

\* Wrong: publishes without the mutex.
LockNothing(p) ==
    /\ Goto(p, "lock", "reload")
    /\ writes' = p
    /\ UNCHANGED <<entries, parses, key, view, answer>>

\* parseAndStore
Lock(p) ==
    /\ Goto(p, "lock", "reload")
    /\ writes = NoProc
    /\ writes' = p
    /\ UNCHANGED <<entries, parses, key, view, answer>>

\* Wrong: keeps the map that was loaded before the mutex was taken.
ReloadNothing(p) ==
    /\ Goto(p, "reload", "recheck")
    /\ UNCHANGED <<entries, writes, parses, key, view, answer>>

Reload(p) ==
    /\ Goto(p, "reload", "recheck")
    /\ Load(p)
    /\ UNCHANGED <<entries, writes, parses, key, answer>>

\* Wrong: returns the entry without unlocking.
RecheckHitLocked(p) ==
    /\ Goto(p, "recheck", "idle")
    /\ key[p] \in DOMAIN view[p]
    /\ Take(p)
    /\ UNCHANGED <<entries, writes, parses, key, view>>

\* Another goroutine parsed the tag while this one waited.
RecheckHit(p) ==
    /\ Goto(p, "recheck", "unlock")
    /\ key[p] \in DOMAIN view[p]
    /\ Take(p)
    /\ UNCHANGED <<entries, writes, parses, key, view>>

\* Wrong: parses without looking again.
ParseAnyway(p) ==
    /\ Goto(p, "recheck", "store")
    /\ parses' = [parses EXCEPT ![key[p]] = @ + 1]
    /\ answer' = [answer EXCEPT ![p] = EntryOf(key[p], parses'[key[p]])]
    /\ UNCHANGED <<entries, writes, key, view>>

Parse(p) ==
    /\ Goto(p, "recheck", "store")
    /\ key[p] \notin DOMAIN view[p]
    /\ parses' = [parses EXCEPT ![key[p]] = @ + 1]
    /\ answer' = [answer EXCEPT ![p] = EntryOf(key[p], parses'[key[p]])]
    /\ UNCHANGED <<entries, writes, key, view>>

\* Wrong: the entry is returned and never published.
StoreNothing(p) ==
    /\ Goto(p, "store", "unlock")
    /\ entries' = view[p]
    /\ UNCHANGED <<writes, parses, key, view, answer>>

\* Copy on write: the map that was loaded, and the new entry.
Store(p) ==
    /\ Goto(p, "store", "unlock")
    /\ entries' = [k \in DOMAIN view[p] \cup {key[p]} |->
                     IF k = key[p] THEN answer[p] ELSE view[p][k]]
    /\ UNCHANGED <<writes, parses, key, view, answer>>

Unlock(p) ==
    /\ Goto(p, "unlock", "idle")
    /\ writes' = NoProc
    /\ UNCHANGED <<entries, parses, key, view, answer>>

Progress(p) ==
    \/ LookupLoad(p) \/ LookupHit(p) \/ LookupMiss(p)
    \/ Reload(p) \/ RecheckHit(p) \/ Parse(p) \/ Store(p) \/ Unlock(p)

Next == \E p \in Proc : (\E k \in Key : LookupCall(p, k)) \/ Lock(p) \/ Progress(p)

Spec == Init /\ [][Next]_vars

\* Goroutines keep running, and sync.Mutex does not starve a waiter.
Fairness == \A p \in Proc : WF_vars(Progress(p)) /\ SF_vars(Lock(p))
FairSpec == Spec /\ Fairness

-----------------------------------------------------------------------------
(* What must hold *)

Locations == {"idle", "lookup", "find", "lock", "reload", "recheck", "store", "unlock"}
IsTable(m) == DOMAIN m \subseteq Key /\ m \in [DOMAIN m -> Entry]

TypeOK ==
    /\ IsTable(entries)
    /\ writes \in Proc \cup {NoProc}
    /\ parses \in [Key -> Nat]
    /\ pc \in [Proc -> Locations]
    /\ key \in [Proc -> Key \cup {NoKey}]
    /\ \A p \in Proc : pc[p] # "idle" => key[p] \in Key
    /\ DOMAIN view = Proc /\ \A p \in Proc : IsTable(view[p])
    /\ answer \in [Proc -> Entry \cup {NoEntry}]

\* "a tag is parsed once per binder" (binder.go:35), however many goroutines
\* miss it at the same time.
ParsedOnce == \A k \in Key : parses[k] <= 1

\* Whatever was published stays: no goroutine's copy drops the entry another
\* one added, or puts a second entry in its place.
EntriesKept ==
    [][\A k \in DOMAIN entries : k \in DOMAIN entries' /\ entries'[k] = entries[k]]_vars

\* All binds share one entry per tag: what a lookup returned, at any time, is
\* the entry of the key it was asked for, and the one the cache still holds.
AnswersShared ==
    \A p \in Proc : pc[p] = "idle" /\ answer[p] # NoEntry =>
        /\ key[p] \in DOMAIN entries
        /\ answer[p] = entries[key[p]]
        /\ answer[p].key = key[p]
        /\ answer[p].bad = (key[p] \in Malformed)

\* Every lookup returns.
EveryLookupReturns == \A p \in Proc : pc[p] # "idle" ~> pc[p] = "idle"

(* The cache is an atomic memo.  A hit takes effect at the load that finds *)
(* the entry, a miss when it stores what it parsed.                        *)
Found(p) == pc[p] \in {"find", "recheck"} /\ key[p] \in DOMAIN view[p]

memoStatus ==
    [p \in Proc |-> CASE pc[p] = "idle" -> "idle"
                      [] pc[p] = "unlock" \/ Found(p) -> "answered"
                      [] OTHER -> "pending"]

memoAnswer ==
    [p \in Proc |-> CASE pc[p] = "store" -> NoEntry
                      [] Found(p) -> view[p][key[p]]
                      [] OTHER -> answer[p]]

Memo == INSTANCE AtomicMemo
          WITH memo <- entries, status <- memoStatus, answer <- memoAnswer

\* Every behaviour of the cache is one of the atomic memo.
ImplementsMemo == Memo!Spec
=============================================================================
