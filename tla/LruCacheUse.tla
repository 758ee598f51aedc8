----------------------------- MODULE LruCacheUse -----------------------------
(***************************************************************************)
(* A cache of pkg/server/lru.go under every sequence of calls, next to an  *)
(* independent record of when each key was last used and with which value, *)
(* which is what "least recently used" is defined by.                      *)
(***************************************************************************)
EXTENDS LruCache

CONSTANT MaxCalls   \* bound: number of calls explored

ASSUME MaxCallsAssumption == MaxCalls \in Nat

VARIABLES cache,    \* the lruCache
          calls,    \* number of calls so far: the time of the last one
          usedAt,   \* time of the last Add, or successful Get, of each key
          added     \* value of the last Add of each key

vars == <<cache, calls, usedAt, added>>

TypeOK ==
    /\ cache \in Caches
    /\ calls \in 0 .. MaxCalls
    /\ usedAt \in [Keys -> 0 .. MaxCalls]
    /\ added \in [Keys -> Values \cup {NoValue}]

Init ==
    /\ cache = EmptyCache
    /\ calls = 0
    /\ usedAt = [k \in Keys |-> 0]
    /\ added = [k \in Keys |-> NoValue]

CallAdd(k, v) ==
    /\ calls < MaxCalls
    /\ calls' = calls + 1
    /\ cache' = Add(cache, k, v)
    /\ usedAt' = [usedAt EXCEPT ![k] = calls + 1]
    /\ added' = [added EXCEPT ![k] = v]

CallGet(k) ==
    /\ calls < MaxCalls
    /\ calls' = calls + 1
    /\ cache' = Touch(cache, k)
    /\ usedAt' = IF Has(cache, k) THEN [usedAt EXCEPT ![k] = calls + 1]
                 ELSE usedAt
    /\ UNCHANGED added

Next ==
    \/ \E k \in Keys, v \in Values : CallAdd(k, v)
    \/ \E k \in Keys : CallGet(k)

Spec == Init /\ [][Next]_vars

-----------------------------------------------------------------------------
(* List and map of lru.go agree and stay within the capacity.              *)
CacheWellFormed == WellFormed(cache)

(* The cache holds exactly the most recently used keys, as many as fit,    *)
(* in the order of their use and with the value of their last Add; finding *)
(* a key with Get counts as using it.                                      *)
KeepsMostRecent ==
    /\ \A i, j \in DOMAIN cache.items :
           i < j => usedAt[cache.items[i]] > usedAt[cache.items[j]]
    /\ \A k \in Keys : Has(cache, k) => cache.entries[k] = added[k]
    /\ \A e \in Keys :
           usedAt[e] > 0 /\ ~Has(cache, e) =>
               /\ Len(cache.items) = Capacity
               /\ \A k \in Keys : Has(cache, k) => usedAt[k] > usedAt[e]
=============================================================================
