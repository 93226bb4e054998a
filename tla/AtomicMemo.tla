----------------------------- MODULE AtomicMemo -----------------------------
(***************************************************************************)
(* What the tag cache promises: a table filled one key at a time, in which *)
(* a lookup takes effect at one instant.  The first lookup of a key makes  *)
(* the entry of that key, and every lookup of it is answered with that one *)
(* entry.                                                                  *)
(***************************************************************************)
CONSTANTS
    Proc,
    Key,
    NoKey,
    NoEntry,
    EntryFor(_)  \* EntryFor(k): the one entry of k

VARIABLES memo, status, key, answer

vars == <<memo, status, key, answer>>

Init ==
    /\ memo = [k \in {} |-> NoEntry]
    /\ status = [p \in Proc |-> "idle"]
    /\ key = [p \in Proc |-> NoKey]
    /\ answer = [p \in Proc |-> NoEntry]

Invoke(p) ==
    /\ status[p] = "idle"
    /\ status' = [status EXCEPT ![p] = "pending"]
    /\ \E k \in Key : key' = [key EXCEPT ![p] = k]
    /\ answer' = [answer EXCEPT ![p] = NoEntry]
    /\ UNCHANGED memo

Lookup(p) ==
    /\ status[p] = "pending"
    /\ status' = [status EXCEPT ![p] = "answered"]
    /\ \/ /\ key[p] \in DOMAIN memo
          /\ answer' = [answer EXCEPT ![p] = memo[key[p]]]
          /\ UNCHANGED memo
       \/ /\ key[p] \notin DOMAIN memo
          /\ memo' = [k \in DOMAIN memo \cup {key[p]} |->
                        IF k = key[p] THEN EntryFor(k) ELSE memo[k]]
          /\ answer' = [answer EXCEPT ![p] = EntryFor(key[p])]
    /\ UNCHANGED key

Return(p) ==
    /\ status[p] = "answered"
    /\ status' = [status EXCEPT ![p] = "idle"]
    /\ UNCHANGED <<memo, key, answer>>

Next == \E p \in Proc : Invoke(p) \/ Lookup(p) \/ Return(p)

Spec == Init /\ [][Next]_vars
=============================================================================
