------------------------------ MODULE LruCache ------------------------------
(***************************************************************************)
(* The generic least-recently-used map of pkg/server/lru.go.  The Go       *)
(* structure is a map from key to list element plus a doubly linked list   *)
(* whose front is the most recently used element; here it is a record      *)
(*    items   - the keys of the list, front first,                         *)
(*    entries - the value stored for each key, NoValue for a key that is   *)
(*              not in the Go map.                                         *)
(* Every method is an operator from a cache to a cache, because its        *)
(* callers run several of them under one lock.                             *)
(***************************************************************************)
EXTENDS Integers, Sequences

CONSTANTS Keys, Values, NoValue, Capacity

(* newLRUCache panics on a capacity that is not positive.                  *)
ASSUME CapacityAssumption == Capacity \in Nat \ {0}
ASSUME NoValueAssumption == NoValue \notin Values

Caches == [items : Seq(Keys), entries : [Keys -> Values \cup {NoValue}]]

EmptyCache == [items |-> <<>>, entries |-> [k \in Keys |-> NoValue]]

Has(c, k) == c.entries[k] # NoValue

(* Mutant: using a key does not refresh it.                                *)
StayInPlace(s, k) == s

(* list.MoveToFront of the element that holds k.                           *)
MoveToFront(s, k) ==
    LET i == CHOOSE j \in DOMAIN s : s[j] = k
    IN  <<k>> \o (SubSeq(s, 1, i - 1) \o SubSeq(s, i + 1, Len(s)))

(* Mutant: the evicted key stays in the map.                               *)
RemoveFromListOnly(c) ==
    [c EXCEPT !.items = SubSeq(c.items, 1, Len(c.items) - 1)]

(* removeOldest: drop the back of the list and its key from the map.       *)
RemoveOldest(c) ==
    LET n == Len(c.items)
    IN  IF n = 0 THEN c
        ELSE [items   |-> SubSeq(c.items, 1, n - 1),
              entries |-> [c.entries EXCEPT ![c.items[n]] = NoValue]]

PushFront(c, k, v) ==
    [items |-> <<k>> \o c.items, entries |-> [c.entries EXCEPT ![k] = v]]

(* The test "c.items.Len() <= c.capacity" of Add, negated.                 *)
Overflows(c) == Len(c.items) > Capacity

(* Add: refresh an existing key, or push a new one and evict on overflow.  *)
Add(c, k, v) ==
    IF Has(c, k)
    THEN [items   |-> MoveToFront(c.items, k),
          entries |-> [c.entries EXCEPT ![k] = v]]
    ELSE LET d == PushFront(c, k, v)
         IN  IF Overflows(d) THEN RemoveOldest(d) ELSE d

(* The effect of Get on the cache; the value returned is c.entries[k].     *)
Touch(c, k) ==
    IF Has(c, k) THEN [c EXCEPT !.items = MoveToFront(c.items, k)] ELSE c

-----------------------------------------------------------------------------
(* The list and the map of lru.go describe the same set of keys, no key is *)
(* listed twice and the history never holds more than Capacity entries.    *)
WellFormed(c) ==
    /\ Len(c.items) <= Capacity
    /\ \A i, j \in DOMAIN c.items : c.items[i] = c.items[j] => i = j
    /\ \A k \in Keys : Has(c, k) <=> \E i \in DOMAIN c.items : c.items[i] = k
=============================================================================
