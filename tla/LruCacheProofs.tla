--------------------------- MODULE LruCacheProofs ---------------------------
(***************************************************************************)
(* What the operations of pkg/server/lru.go do to a well-formed cache, and *)
(* what the cache holds after any sequence of calls: for any keys, values  *)
(* and capacity.                                                           *)
(***************************************************************************)
EXTENDS LruCacheUse, TLAPS

Distinct(s) == \A i, j \in DOMAIN s : s[i] = s[j] => i = j
Listed(s, x) == \E i \in DOMAIN s : s[i] = x

LEMMA ConcatShape ==
    ASSUME NEW S, NEW a \in Seq(S), NEW b \in Seq(S)
    PROVE  /\ a \o b \in Seq(S)
           /\ Len(a \o b) = Len(a) + Len(b)
           /\ \A p \in 1 .. Len(a) + Len(b) :
                 (a \o b)[p] = IF p <= Len(a) THEN a[p] ELSE b[p - Len(a)]
  OBVIOUS

(* MoveToFront is a rotation of the prefix that ends in k.                 *)
LEMMA MoveToFrontShape ==
    ASSUME NEW s \in Seq(Keys), NEW k \in Keys,
           \E i \in DOMAIN s : s[i] = k
    PROVE  \E j \in DOMAIN s :
             /\ s[j] = k
             /\ MoveToFront(s, k) \in Seq(Keys)
             /\ Len(MoveToFront(s, k)) = Len(s)
             /\ \A p \in 1 .. Len(s) :
                   MoveToFront(s, k)[p] =
                     IF p = 1 THEN k ELSE IF p <= j THEN s[p - 1] ELSE s[p]
  <1> DEFINE j == CHOOSE i \in DOMAIN s : s[i] = k
             front == SubSeq(s, 1, j - 1)
             back == SubSeq(s, j + 1, Len(s))
             m == MoveToFront(s, k)
  <1>1. j \in DOMAIN s /\ s[j] = k
    OBVIOUS
  <1>2. /\ j \in 1 .. Len(s)
        /\ Len(s) \in Nat
    BY <1>1
  <1>3. m = <<k>> \o (front \o back)
    BY DEF MoveToFront
  <1> HIDE DEF j, m
  <1>4. /\ front \in Seq(Keys) /\ Len(front) = j - 1
        /\ \A p \in 1 .. (j - 1) : front[p] = s[p]
    BY <1>2
  <1>5. /\ back \in Seq(Keys) /\ Len(back) = Len(s) - j
        /\ \A p \in 1 .. (Len(s) - j) : back[p] = s[p + j]
    BY <1>2
  <1> HIDE DEF front, back
  <1>6. /\ front \o back \in Seq(Keys)
        /\ Len(front \o back) = Len(s) - 1
        /\ \A p \in 1 .. (Len(s) - 1) :
              (front \o back)[p] = IF p <= j - 1 THEN s[p] ELSE s[p + 1]
    <2>1. /\ front \o back \in Seq(Keys)
          /\ Len(front \o back) = Len(front) + Len(back)
          /\ \A p \in 1 .. Len(front) + Len(back) :
                (front \o back)[p] =
                    IF p <= Len(front) THEN front[p] ELSE back[p - Len(front)]
      BY <1>4, <1>5, ConcatShape
    <2> QED
      BY <2>1, <1>2, <1>4, <1>5
  <1>7. /\ m \in Seq(Keys)
        /\ Len(m) = Len(s)
        /\ \A p \in 1 .. Len(s) :
              m[p] = IF p = 1 THEN k ELSE IF p <= j THEN s[p - 1] ELSE s[p]
    <2> DEFINE rest == front \o back
    <2>1. rest \in Seq(Keys) /\ <<k>> \in Seq(Keys)
      BY <1>6
    <2>2. /\ Len(rest) = Len(s) - 1
          /\ \A p \in 1 .. (Len(s) - 1) :
                rest[p] = IF p <= j - 1 THEN s[p] ELSE s[p + 1]
      BY <1>6
    <2>3. m = <<k>> \o rest
      BY <1>3
    <2> HIDE DEF rest
    <2>4. /\ m \in Seq(Keys)
          /\ Len(m) = Len(<<k>>) + Len(rest)
          /\ \A p \in 1 .. Len(<<k>>) + Len(rest) :
                m[p] = IF p <= Len(<<k>>) THEN <<k>>[p]
                                          ELSE rest[p - Len(<<k>>)]
      BY <2>1, <2>3, ConcatShape
    <2>5. Len(<<k>>) = 1 /\ <<k>>[1] = k
      OBVIOUS
    <2>6. Len(m) = Len(s)
      BY <2>4, <2>5, <2>2, <1>2
    <2>7. ASSUME NEW p \in 1 .. Len(s)
          PROVE  m[p] = IF p = 1 THEN k ELSE IF p <= j THEN s[p - 1] ELSE s[p]
      <3>1. CASE p = 1
        BY <3>1, <2>4, <2>5, <2>2, <1>2
      <3>2. CASE p # 1
        <4>1. m[p] = rest[p - 1] /\ p - 1 \in 1 .. (Len(s) - 1)
          BY <3>2, <2>4, <2>5, <2>2, <1>2
        <4> QED
          BY <4>1, <3>2, <2>2, <1>2
      <3> QED
        BY <3>1, <3>2
    <2> QED
      BY <2>4, <2>6, <2>7
  <1>8. QED
    BY <1>1, <1>7 DEF m

(* MoveToFront keeps the keys of a list without duplicates.                *)
LEMMA MoveToFrontKeeps ==
    ASSUME NEW s \in Seq(Keys), NEW k \in Keys,
           \E i \in DOMAIN s : s[i] = k,
           Distinct(s)
    PROVE  LET m == MoveToFront(s, k)
           IN  /\ m \in Seq(Keys)
               /\ Len(m) = Len(s)
               /\ Distinct(m)
               /\ \A x \in Keys : (\E i \in DOMAIN m : m[i] = x)
                                       <=> (\E i \in DOMAIN s : s[i] = x)
  <1> DEFINE m == MoveToFront(s, k)
  <1>1. PICK j \in DOMAIN s :
             /\ s[j] = k
             /\ m \in Seq(Keys)
             /\ Len(m) = Len(s)
             /\ \A p \in 1 .. Len(s) :
                   m[p] = IF p = 1 THEN k ELSE IF p <= j THEN s[p - 1] ELSE s[p]
    BY MoveToFrontShape
  <1> HIDE DEF m
  <1>2. DOMAIN m = 1 .. Len(s) /\ DOMAIN s = 1 .. Len(s) /\ Len(s) \in Nat
    BY <1>1
  <1> DEFINE from(p) == IF p = 1 THEN j ELSE IF p <= j THEN p - 1 ELSE p
  <1>3. \A p \in 1 .. Len(s) : from(p) \in 1 .. Len(s) /\ m[p] = s[from(p)]
    BY <1>1, <1>2
  <1>4. \A p, q \in 1 .. Len(s) : from(p) = from(q) => p = q
    BY <1>1, <1>2
  <1>5. Distinct(m)
    <2> HIDE DEF from
    <2> QED
      BY <1>2, <1>3, <1>4 DEF Distinct
  <1>6. \A q \in 1 .. Len(s) : \E p \in 1 .. Len(s) : from(p) = q
    <2> TAKE q \in 1 .. Len(s)
    <2>1. CASE q = j
      BY <2>1, <1>2
    <2>2. CASE q < j
      <3>1. q + 1 \in 1 .. Len(s) /\ from(q + 1) = q
        <4>1. j \in 1 .. Len(s) /\ Len(s) \in Nat
          BY <1>2
        <4> QED
          BY <2>2, <4>1
      <3> QED
        BY <3>1
    <2>3. CASE q > j
      <3>1. from(q) = q
        BY <2>3, <1>1, <1>2
      <3> QED
        BY <3>1
    <2> QED
      BY <2>1, <2>2, <2>3, <1>1, <1>2
  <1> HIDE DEF from
  <1>7. \A x \in Keys : (\E i \in DOMAIN m : m[i] = x)
                            <=> (\E i \in DOMAIN s : s[i] = x)
    BY <1>2, <1>3, <1>6
  <1> QED
    BY <1>1, <1>5, <1>7 DEF m

(* A key pushed by Add comes first, the others move back by one.           *)
LEMMA PushShape ==
    ASSUME NEW s \in Seq(Keys), NEW k \in Keys
    PROVE  LET t == <<k>> \o s
           IN  /\ t \in Seq(Keys) /\ Len(t) = Len(s) + 1 /\ DOMAIN t = 1 .. Len(s) + 1
               /\ t[1] = k
               /\ \A p \in 2 .. Len(s) + 1 : p - 1 \in 1 .. Len(s) /\ t[p] = s[p - 1]
               /\ \A p \in 1 .. Len(s) : p + 1 \in 2 .. Len(s) + 1 /\ t[p + 1] = s[p]
  <1> DEFINE t == <<k>> \o s
  <1>1. /\ <<k>> \in Seq(Keys) /\ Len(<<k>>) = 1 /\ <<k>>[1] = k
        /\ Len(s) \in Nat /\ DOMAIN s = 1 .. Len(s)
    OBVIOUS
  <1>2. t = <<k>> \o s
    OBVIOUS
  <1> HIDE DEF t
  <1>3. /\ t \in Seq(Keys)
        /\ Len(t) = Len(<<k>>) + Len(s)
        /\ \A p \in 1 .. Len(<<k>>) + Len(s) :
              t[p] = IF p <= Len(<<k>>) THEN <<k>>[p] ELSE s[p - Len(<<k>>)]
    BY <1>1, <1>2, ConcatShape
  <1>4. /\ Len(t) = Len(s) + 1 /\ DOMAIN t = 1 .. Len(s) + 1
        /\ t[1] = k
        /\ \A p \in 2 .. Len(s) + 1 : p - 1 \in 1 .. Len(s) /\ t[p] = s[p - 1]
        /\ \A p \in 1 .. Len(s) : p + 1 \in 2 .. Len(s) + 1 /\ t[p + 1] = s[p]
    <2>1. Len(t) = Len(s) + 1 /\ DOMAIN t = 1 .. Len(s) + 1
      BY <1>1, <1>3
    <2>2. \A p \in 1 .. Len(s) + 1 : t[p] = IF p = 1 THEN k ELSE s[p - 1]
      <3> TAKE p \in 1 .. Len(s) + 1
      <3>1. p \in 1 .. Len(<<k>>) + Len(s) /\ (p <= Len(<<k>>) <=> p = 1)
        BY <1>1
      <3>2. t[p] = IF p <= Len(<<k>>) THEN <<k>>[p] ELSE s[p - Len(<<k>>)]
        BY <3>1, <1>3
      <3> QED
        BY <3>1, <3>2, <1>1
    <2>3. \A p \in 2 .. Len(s) + 1 : p - 1 \in 1 .. Len(s) /\ t[p] = s[p - 1]
      BY <1>1, <2>2
    <2>4. \A p \in 1 .. Len(s) : p + 1 \in 2 .. Len(s) + 1 /\ t[p + 1] = s[p]
      <3> TAKE p \in 1 .. Len(s)
      <3>1. p + 1 \in 2 .. Len(s) + 1 /\ (p + 1) - 1 = p
        BY <1>1
      <3> QED
        BY <3>1, <2>3
    <2> QED
      BY <1>1, <2>1, <2>2, <2>3, <2>4
  <1> QED
    BY <1>3, <1>4 DEF t

(* The key pushed by Add is new.                                           *)
LEMMA PushKeeps ==
    ASSUME NEW s \in Seq(Keys), NEW k \in Keys, Distinct(s), ~Listed(s, k)
    PROVE  /\ <<k>> \o s \in Seq(Keys)
           /\ Len(<<k>> \o s) = Len(s) + 1
           /\ (<<k>> \o s)[1] = k
           /\ Distinct(<<k>> \o s)
           /\ \A x \in Keys : Listed(<<k>> \o s, x) <=> x = k \/ Listed(s, x)
  <1> DEFINE t == <<k>> \o s
  <1>1. Len(s) \in Nat /\ DOMAIN s = 1 .. Len(s)
    OBVIOUS
  <1>2. /\ t \in Seq(Keys) /\ Len(t) = Len(s) + 1 /\ DOMAIN t = 1 .. Len(s) + 1
        /\ t[1] = k
        /\ \A p \in 2 .. Len(s) + 1 : p - 1 \in 1 .. Len(s) /\ t[p] = s[p - 1]
        /\ \A p \in 1 .. Len(s) : p + 1 \in 2 .. Len(s) + 1 /\ t[p + 1] = s[p]
    BY PushShape
  <1> HIDE DEF t
  <1>3. \A i \in 1 .. Len(s) : s[i] # k
    BY <1>1 DEF Listed
  <1>4. Distinct(t)
    <2> SUFFICES ASSUME NEW i \in 1 .. Len(s) + 1, NEW j \in 1 .. Len(s) + 1,
                        t[i] = t[j]
                 PROVE  i = j
      BY <1>2 DEF Distinct
    <2>1. CASE i = 1 \/ j = 1
      BY <2>1, <1>1, <1>2, <1>3
    <2>2. CASE i # 1 /\ j # 1
      <3>1. /\ i \in 2 .. Len(s) + 1 /\ j \in 2 .. Len(s) + 1
        BY <2>2, <1>1
      <3>2. s[i - 1] = s[j - 1] /\ i - 1 \in DOMAIN s /\ j - 1 \in DOMAIN s
        BY <3>1, <1>1, <1>2
      <3>3. i - 1 = j - 1
        BY <3>2 DEF Distinct
      <3> QED
        BY <3>1, <3>3
    <2> QED
      BY <2>1, <2>2
  <1>5. ASSUME NEW x \in Keys
        PROVE  Listed(t, x) <=> x = k \/ Listed(s, x)
    <2>1. ASSUME NEW i \in DOMAIN t, t[i] = x, x # k
          PROVE  Listed(s, x)
      <3>1. i \in 2 .. Len(s) + 1
        BY <2>1, <1>1, <1>2
      <3> QED
        BY <3>1, <2>1, <1>1, <1>2 DEF Listed
    <2>2. ASSUME NEW i \in DOMAIN s, s[i] = x
          PROVE  Listed(t, x)
      <3>1. i + 1 \in DOMAIN t /\ t[i + 1] = x
        BY <2>2, <1>1, <1>2
      <3> QED
        BY <3>1 DEF Listed
    <2>3. Listed(t, k)
      BY <1>1, <1>2 DEF Listed
    <2> QED
      BY <2>1, <2>2, <2>3 DEF Listed
  <1> QED
    BY <1>2, <1>4, <1>5 DEF t

(* removeOldest takes the last key, and only that.                         *)
LEMMA PopKeeps ==
    ASSUME NEW s \in Seq(Keys), Distinct(s), Len(s) >= 2
    PROVE  /\ SubSeq(s, 1, Len(s) - 1) \in Seq(Keys)
           /\ Len(SubSeq(s, 1, Len(s) - 1)) = Len(s) - 1
           /\ Distinct(SubSeq(s, 1, Len(s) - 1))
           /\ s[Len(s)] \in Keys
           /\ s[Len(s)] # s[1]
           /\ \A x \in Keys : Listed(SubSeq(s, 1, Len(s) - 1), x)
                                  <=> x # s[Len(s)] /\ Listed(s, x)
  <1> DEFINE t == SubSeq(s, 1, Len(s) - 1)
  <1>1. Len(s) \in Nat /\ DOMAIN s = 1 .. Len(s)
    OBVIOUS
  <1>2. /\ t \in Seq(Keys) /\ Len(t) = Len(s) - 1
        /\ DOMAIN t = 1 .. Len(s) - 1
        /\ \A p \in 1 .. Len(s) - 1 : t[p] = s[p]
    BY <1>1
  <1> HIDE DEF t
  <1>3. Distinct(t)
    BY <1>1, <1>2 DEF Distinct
  <1>4. s[Len(s)] \in Keys /\ s[Len(s)] # s[1]
    BY <1>1 DEF Distinct
  <1>5. ASSUME NEW x \in Keys
        PROVE  Listed(t, x) <=> x # s[Len(s)] /\ Listed(s, x)
    <2>1. ASSUME NEW i \in DOMAIN t, t[i] = x
          PROVE  x # s[Len(s)] /\ Listed(s, x)
      BY <2>1, <1>1, <1>2 DEF Distinct, Listed
    <2>2. ASSUME NEW i \in DOMAIN s, s[i] = x, x # s[Len(s)]
          PROVE  Listed(t, x)
      BY <2>2, <1>1, <1>2 DEF Listed
    <2> QED
      BY <2>1, <2>2 DEF Listed
  <1> QED
    BY <1>2, <1>3, <1>4, <1>5 DEF t

-----------------------------------------------------------------------------
(* What Add makes of a cache: the key is refreshed, pushed, or pushed with *)
(* the last key of the list going.                                         *)
LEMMA AddCases ==
    ASSUME NEW c \in Caches, NEW k \in Keys, NEW v
    PROVE  LET q == <<k>> \o c.items
               f == [c.entries EXCEPT ![k] = v]
           IN  /\ Has(c, k) => Add(c, k, v) = [items   |-> MoveToFront(c.items, k),
                                               entries |-> f]
               /\ ~Has(c, k) /\ Len(q) <= Capacity =>
                     Add(c, k, v) = [items |-> q, entries |-> f]
               /\ ~Has(c, k) /\ Len(q) > Capacity =>
                     Add(c, k, v) = [items   |-> SubSeq(q, 1, Len(q) - 1),
                                     entries |-> [f EXCEPT ![q[Len(q)]] = NoValue]]
  <1> DEFINE q == <<k>> \o c.items
             f == [c.entries EXCEPT ![k] = v]
             d == [items |-> q, entries |-> f]
  <1>1. /\ d.items = q /\ d.entries = f /\ PushFront(c, k, v) = d
        /\ Has(c, k) => Add(c, k, v) = [items |-> MoveToFront(c.items, k), entries |-> f]
        /\ ~Has(c, k) => Add(c, k, v) = IF Overflows(d) THEN RemoveOldest(d) ELSE d
    BY DEF PushFront, Add
  <1>2. Len(q) = Len(c.items) + 1 /\ Len(c.items) \in Nat
    <2>1. c.items \in Seq(Keys)
      BY DEF Caches
    <2> QED
      BY <2>1, PushShape
  <1> HIDE DEF q, f, d
  <1>3. Overflows(d) <=> ~(Len(q) <= Capacity)
    BY <1>1, <1>2, CapacityAssumption DEF Overflows
  <1>4. RemoveOldest(d) = [items   |-> SubSeq(q, 1, Len(q) - 1),
                           entries |-> [f EXCEPT ![q[Len(q)]] = NoValue]]
    BY <1>1, <1>2 DEF RemoveOldest
  <1>5. Len(q) > Capacity <=> ~(Len(q) <= Capacity)
    BY <1>2, CapacityAssumption
  <1> QED
    BY <1>1, <1>3, <1>4, <1>5 DEF q, f, d

(* Add keeps a cache well formed, stores the value under its key, and      *)
(* touches no other value except by evicting it.                           *)
LEMMA AddKeeps ==
    ASSUME NEW c \in Caches, WellFormed(c), NEW k \in Keys, NEW v \in Values
    PROVE  /\ Add(c, k, v) \in Caches
           /\ WellFormed(Add(c, k, v))
           /\ Add(c, k, v).entries[k] = v
           /\ \A x \in Keys \ {k} :
                 Add(c, k, v).entries[x] \in {c.entries[x], NoValue}
  <1>1. /\ c = [items |-> c.items, entries |-> c.entries]
        /\ c.items \in Seq(Keys)
        /\ c.entries \in [Keys -> Values \cup {NoValue}]
        /\ Len(c.items) \in Nat /\ DOMAIN c.items = 1 .. Len(c.items)
    BY DEF Caches
  <1>2. v # NoValue
    BY NoValueAssumption
  <1>3. Distinct(c.items)
    BY DEF WellFormed, Distinct
  <1>4. CASE Has(c, k)
    <2> DEFINE m == MoveToFront(c.items, k)
    <2>1. \E i \in DOMAIN c.items : c.items[i] = k
      BY <1>4 DEF WellFormed
    <2>2. /\ m \in Seq(Keys) /\ Len(m) = Len(c.items) /\ Distinct(m)
          /\ \A x \in Keys : (\E i \in DOMAIN m : m[i] = x)
                                <=> (\E i \in DOMAIN c.items : c.items[i] = x)
      BY <1>1, <1>3, <2>1, MoveToFrontKeeps
    <2>3. Add(c, k, v) = [items |-> m, entries |-> [c.entries EXCEPT ![k] = v]]
      BY <1>4, AddCases
    <2> HIDE DEF m
    <2> QED
      BY <1>1, <1>2, <1>4, <2>2, <2>3 DEF Caches, WellFormed, Has, Distinct
  <1>5. CASE ~Has(c, k)
    <2> DEFINE q == <<k>> \o c.items
               f == [c.entries EXCEPT ![k] = v]
    <2>1. ~Listed(c.items, k)
      BY <1>5 DEF WellFormed, Listed
    <2>2. /\ q \in Seq(Keys) /\ Len(q) = Len(c.items) + 1
          /\ q[1] = k /\ Distinct(q)
          /\ \A x \in Keys : Listed(q, x) <=> x = k \/ Listed(c.items, x)
      BY <1>1, <1>3, <2>1, PushKeeps
    <2>3. /\ f \in [Keys -> Values \cup {NoValue}]
          /\ f[k] = v
          /\ \A x \in Keys \ {k} : f[x] = c.entries[x]
      BY <1>1
    <2>4. /\ Len(q) <= Capacity => Add(c, k, v) = [items |-> q, entries |-> f]
          /\ Len(q) > Capacity =>
                Add(c, k, v) = [items   |-> SubSeq(q, 1, Len(q) - 1),
                                entries |-> [f EXCEPT ![q[Len(q)]] = NoValue]]
      BY <1>5, AddCases
    <2> HIDE DEF q, f
    <2>5. \A x \in Keys : f[x] # NoValue <=> Listed(q, x)
      BY <1>2, <2>2, <2>3 DEF WellFormed, Has, Listed
    <2>6. CASE Len(q) <= Capacity
      <3>1. Add(c, k, v) = [items |-> q, entries |-> f]
        BY <2>4, <2>6
      <3> QED
        BY <3>1, <2>2, <2>3, <2>5, <2>6
           DEF Caches, WellFormed, Has, Distinct, Listed
    <2>7. CASE Len(q) > Capacity
      <3> DEFINE r == SubSeq(q, 1, Len(q) - 1)
                 w == q[Len(q)]
                 g == [f EXCEPT ![w] = NoValue]
      <3>1. Len(q) \in Nat /\ Len(q) >= 2 /\ Len(q) = Capacity + 1
        BY <1>1, <2>2, <2>7, CapacityAssumption DEF WellFormed
      <3>2. /\ r \in Seq(Keys) /\ Len(r) = Len(q) - 1 /\ Distinct(r)
            /\ w \in Keys /\ w # q[1]
            /\ \A x \in Keys : Listed(r, x) <=> x # w /\ Listed(q, x)
        BY <2>2, <3>1, PopKeeps
      <3>3. Add(c, k, v) = [items |-> r, entries |-> g]
        BY <2>4, <2>7
      <3> HIDE DEF r, w
      <3>4. /\ g \in [Keys -> Values \cup {NoValue}]
            /\ g[k] = v
            /\ \A x \in Keys \ {k} : g[x] \in {c.entries[x], NoValue}
            /\ \A x \in Keys : g[x] # NoValue <=> x # w /\ f[x] # NoValue
        BY <2>2, <2>3, <3>2
      <3> HIDE DEF g
      <3>5. Len(r) <= Capacity
        BY <3>1, <3>2, CapacityAssumption
      <3> DEFINE e == Add(c, k, v)
      <3>6. e.items = r /\ e.entries = g /\ e \in Caches
        BY <3>2, <3>3, <3>4 DEF Caches
      <3> HIDE DEF e
      <3>7. \A x \in Keys : g[x] # NoValue <=> Listed(r, x)
        BY <3>2, <3>4, <2>5
      <3>8. WellFormed(e)
        BY <3>2, <3>5, <3>6, <3>7 DEF WellFormed, Has, Distinct, Listed
      <3> QED
        BY <3>4, <3>6, <3>8 DEF e
    <2> QED
      BY <2>2, <2>6, <2>7, CapacityAssumption
  <1> QED
    BY <1>4, <1>5

(* Get changes the order of the keys and nothing else.                     *)
LEMMA TouchKeeps ==
    ASSUME NEW c \in Caches, WellFormed(c), NEW k \in Keys
    PROVE  /\ Touch(c, k) \in Caches
           /\ WellFormed(Touch(c, k))
           /\ Touch(c, k).entries = c.entries
           /\ Touch(c, k).items = IF Has(c, k) THEN MoveToFront(c.items, k) ELSE c.items
  <1>1. /\ c.items \in Seq(Keys)
        /\ c.entries \in [Keys -> Values \cup {NoValue}]
        /\ c = [items |-> c.items, entries |-> c.entries]
    BY DEF Caches
  <1>2. CASE ~Has(c, k)
    BY <1>2 DEF Touch
  <1>3. CASE Has(c, k)
    <2> DEFINE m == MoveToFront(c.items, k)
    <2>1. /\ \E i \in DOMAIN c.items : c.items[i] = k
          /\ Distinct(c.items)
      BY <1>3 DEF WellFormed, Distinct
    <2>2. /\ m \in Seq(Keys) /\ Len(m) = Len(c.items) /\ Distinct(m)
          /\ \A x \in Keys : (\E i \in DOMAIN m : m[i] = x)
                                <=> (\E i \in DOMAIN c.items : c.items[i] = x)
      BY <1>1, <2>1, MoveToFrontKeeps
    <2>3. Touch(c, k) = [items |-> m, entries |-> c.entries]
      BY <1>1, <1>3 DEF Touch
    <2> HIDE DEF m
    <2>4. /\ Touch(c, k) \in Caches /\ WellFormed(Touch(c, k))
          /\ Touch(c, k).entries = c.entries /\ Touch(c, k).items = m
      BY <1>1, <2>2, <2>3 DEF Caches, WellFormed, Has, Distinct
    <2> QED
      BY <1>3, <2>4 DEF m
  <1> QED
    BY <1>2, <1>3

-----------------------------------------------------------------------------
(* The keys of s are listed in the order of u, latest first.               *)
Ordered(s, u) == \A i, j \in DOMAIN s : i < j => u[s[i]] > u[s[j]]

(* No key has been used after time t.                                      *)
Times(u, t) == u \in [Keys -> Nat] /\ t \in Nat /\ \A x \in Keys : u[x] <= t

(* A key used now is put first.                                            *)
LEMMA OrderedMove ==
    ASSUME NEW s \in Seq(Keys), NEW k \in Keys, Listed(s, k), Distinct(s),
           NEW u, NEW t, Times(u, t), Ordered(s, u)
    PROVE  Ordered(MoveToFront(s, k), [u EXCEPT ![k] = t + 1])
  <1> DEFINE m == MoveToFront(s, k)
             w == [u EXCEPT ![k] = t + 1]
  <1>1. PICK j \in DOMAIN s :
             /\ s[j] = k
             /\ m \in Seq(Keys)
             /\ Len(m) = Len(s)
             /\ \A p \in 1 .. Len(s) :
                   m[p] = IF p = 1 THEN k ELSE IF p <= j THEN s[p - 1] ELSE s[p]
    BY MoveToFrontShape DEF Listed
  <1> HIDE DEF m
  <1>2. /\ DOMAIN m = 1 .. Len(s) /\ DOMAIN s = 1 .. Len(s) /\ Len(s) \in Nat
        /\ \A p \in 1 .. Len(s) : s[p] \in Keys /\ m[p] \in Keys
    BY <1>1
  <1>3. /\ t \in Nat /\ w[k] = t + 1
        /\ \A x \in Keys \ {k} : w[x] = u[x] /\ u[x] \in Nat /\ u[x] <= t
    BY DEF Times
  <1> HIDE DEF w
  <1> DEFINE from(p) == IF p <= j THEN p - 1 ELSE p
  <1>4. \A p \in 2 .. Len(s) :
            from(p) \in 1 .. Len(s) /\ from(p) # j /\ m[p] = s[from(p)]
    <2> TAKE p \in 2 .. Len(s)
    <2>1. j \in 1 .. Len(s) /\ p \in 1 .. Len(s) /\ p # 1
      BY <1>2
    <2>2. m[p] = IF p <= j THEN s[p - 1] ELSE s[p]
      BY <2>1, <1>1
    <2>3. from(p) \in 1 .. Len(s) /\ from(p) # j
      BY <2>1, <1>2
    <2> QED
      BY <2>2, <2>3
  <1>5. \A p \in 2 .. Len(s) : m[p] # k
    <2> TAKE p \in 2 .. Len(s)
    <2>1. from(p) \in DOMAIN s /\ from(p) # j /\ m[p] = s[from(p)]
      BY <1>2, <1>4
    <2> HIDE DEF from
    <2> QED
      BY <2>1, <1>1 DEF Distinct
  <1>6. \A p, q \in 2 .. Len(s) : p < q => from(p) < from(q)
    <2>1. j \in Nat
      BY <1>2
    <2>2. ASSUME NEW p \in 2 .. Len(s), NEW q \in 2 .. Len(s), p < q
          PROVE  from(p) < from(q)
      BY <2>1, <2>2
    <2> QED
      BY <2>2
  <1> HIDE DEF from
  <1>7. ASSUME NEW p \in 1 .. Len(s), NEW q \in 1 .. Len(s), p < q
        PROVE  w[m[p]] > w[m[q]]
    <2>1. q \in 2 .. Len(s) /\ m[q] \in Keys \ {k}
      BY <1>2, <1>5, <1>7
    <2>2. CASE p = 1
      BY <2>1, <2>2, <1>1, <1>2, <1>3
    <2>3. CASE p # 1
      <3>1. p \in 2 .. Len(s) /\ m[p] \in Keys \ {k}
        BY <2>3, <1>2, <1>5
      <3>2. u[s[from(p)]] > u[s[from(q)]]
        BY <3>1, <2>1, <1>2, <1>4, <1>6, <1>7 DEF Ordered
      <3> QED
        BY <3>1, <3>2, <2>1, <1>3, <1>4
    <2> QED
      BY <2>2, <2>3
  <1> QED
    BY <1>2, <1>7 DEF Ordered, m, w

LEMMA OrderedPush ==
    ASSUME NEW s \in Seq(Keys), NEW k \in Keys, ~Listed(s, k),
           NEW u, NEW t, Times(u, t), Ordered(s, u)
    PROVE  Ordered(<<k>> \o s, [u EXCEPT ![k] = t + 1])
  <1> DEFINE m == <<k>> \o s
             w == [u EXCEPT ![k] = t + 1]
  <1>1. /\ DOMAIN m = 1 .. Len(s) + 1 /\ m[1] = k
        /\ \A p \in 2 .. Len(s) + 1 : p - 1 \in 1 .. Len(s) /\ m[p] = s[p - 1]
    BY PushShape
  <1> HIDE DEF m
  <1>2. /\ DOMAIN s = 1 .. Len(s) /\ Len(s) \in Nat
        /\ \A p \in 1 .. Len(s) : s[p] \in Keys \ {k}
    BY DEF Listed
  <1>3. /\ t \in Nat /\ w[k] = t + 1
        /\ \A x \in Keys \ {k} : w[x] = u[x] /\ u[x] \in Nat /\ u[x] <= t
    BY DEF Times
  <1> HIDE DEF w
  <1>4. ASSUME NEW p \in 1 .. Len(s) + 1, NEW q \in 1 .. Len(s) + 1, p < q
        PROVE  w[m[p]] > w[m[q]]
    <2>1. q \in 2 .. Len(s) + 1
      BY <1>2, <1>4
    <2>2. q - 1 \in 1 .. Len(s) /\ m[q] = s[q - 1] /\ s[q - 1] \in Keys \ {k}
      BY <2>1, <1>1, <1>2
    <2>3. CASE p = 1
      BY <2>2, <2>3, <1>1, <1>3
    <2>4. CASE p # 1
      <3>1. p \in 2 .. Len(s) + 1
        BY <2>4, <1>2
      <3>2. p - 1 \in 1 .. Len(s) /\ m[p] = s[p - 1] /\ s[p - 1] \in Keys \ {k}
        BY <3>1, <1>1, <1>2
      <3>3. p - 1 < q - 1
        BY <2>1, <3>1, <1>4
      <3>4. u[s[p - 1]] > u[s[q - 1]]
        BY <2>2, <3>2, <3>3, <1>2 DEF Ordered
      <3> QED
        BY <2>2, <3>2, <3>4, <1>3
    <2> QED
      BY <2>3, <2>4
  <1> QED
    BY <1>1, <1>4 DEF Ordered, m, w

LEMMA OrderedPop ==
    ASSUME NEW s \in Seq(Keys), Len(s) >= 1, NEW u, Ordered(s, u)
    PROVE  LET r == SubSeq(s, 1, Len(s) - 1)
           IN  /\ Ordered(r, u)
               /\ \A i \in DOMAIN r : u[r[i]] > u[s[Len(s)]]
  <1> DEFINE r == SubSeq(s, 1, Len(s) - 1)
  <1>1. Len(s) \in Nat /\ DOMAIN s = 1 .. Len(s)
    OBVIOUS
  <1>2. DOMAIN r = 1 .. Len(s) - 1 /\ \A p \in 1 .. Len(s) - 1 : r[p] = s[p]
    BY <1>1
  <1> HIDE DEF r
  <1>3. Ordered(r, u)
    BY <1>1, <1>2 DEF Ordered
  <1>4. \A i \in DOMAIN r : u[r[i]] > u[s[Len(s)]]
    BY <1>1, <1>2 DEF Ordered
  <1> QED
    BY <1>3, <1>4 DEF r

-----------------------------------------------------------------------------
(* A cache c that holds the most recently used keys, when each key was     *)
(* last used at u and last added with a: KeepsMostRecent of any cache.     *)
Evicted(c, u) ==
    \A e \in Keys :
        u[e] > 0 /\ ~Has(c, e) =>
            /\ Len(c.items) = Capacity
            /\ \A k \in Keys : Has(c, k) => u[k] > u[e]

Recent(c, u, a) ==
    /\ Ordered(c.items, u)
    /\ \A k \in Keys : Has(c, k) => c.entries[k] = a[k]
    /\ Evicted(c, u)

(* An Add at time t + 1.                                                   *)
LEMMA AddRecent ==
    ASSUME NEW c \in Caches, WellFormed(c), NEW k \in Keys, NEW v \in Values,
           NEW u, NEW t, Times(u, t),
           NEW a \in [Keys -> Values \cup {NoValue}], Recent(c, u, a)
    PROVE  Recent(Add(c, k, v), [u EXCEPT ![k] = t + 1], [a EXCEPT ![k] = v])
  <1> DEFINE d == Add(c, k, v)
             w == [u EXCEPT ![k] = t + 1]
             b == [a EXCEPT ![k] = v]
             q == <<k>> \o c.items
             f == [c.entries EXCEPT ![k] = v]
  <1>1. /\ d \in Caches /\ WellFormed(d) /\ d.entries[k] = v
        /\ \A x \in Keys \ {k} : d.entries[x] \in {c.entries[x], NoValue}
    BY AddKeeps
  <1>2. /\ c.items \in Seq(Keys) /\ Len(c.items) \in Nat /\ Len(c.items) <= Capacity
        /\ c.entries \in [Keys -> Values \cup {NoValue}]
        /\ Distinct(c.items) /\ \A x \in Keys : Has(c, x) <=> Listed(c.items, x)
        /\ \A x \in Keys : Has(d, x) <=> Listed(d.items, x)
    BY <1>1 DEF Caches, WellFormed, Distinct, Listed
  <1>3. /\ u \in [Keys -> Nat] /\ t \in Nat /\ \A x \in Keys : u[x] <= t
        /\ w[k] = t + 1 /\ \A x \in Keys \ {k} : w[x] = u[x] /\ u[x] \in Nat
    BY DEF Times
  <1>4. f[k] = v /\ \A x \in Keys \ {k} : f[x] = c.entries[x]
    BY <1>2
  <1>5. Has(d, k) /\ \A x \in Keys \ {k} : Has(d, x) => Has(c, x)
    BY <1>1, NoValueAssumption DEF Has
  <1>6. \A x \in Keys : Has(d, x) => d.entries[x] = b[x]
    <2> TAKE x \in Keys
    <2>1. CASE x = k
      BY <1>1, <2>1
    <2>2. CASE x # k
      BY <1>1, <1>5, <2>2 DEF Recent, Has
    <2> QED
      BY <2>1, <2>2
  <1>7. /\ Has(c, k) => d.items = MoveToFront(c.items, k) /\ d.entries = f
        /\ ~Has(c, k) /\ Len(q) <= Capacity => d.items = q /\ d.entries = f
        /\ ~Has(c, k) /\ Len(q) > Capacity =>
              /\ d.items = SubSeq(q, 1, Len(q) - 1)
              /\ d.entries = [f EXCEPT ![q[Len(q)]] = NoValue]
    <2>1. /\ Has(c, k) => d = [items |-> MoveToFront(c.items, k), entries |-> f]
          /\ ~Has(c, k) /\ Len(q) <= Capacity => d = [items |-> q, entries |-> f]
          /\ ~Has(c, k) /\ Len(q) > Capacity =>
                d = [items   |-> SubSeq(q, 1, Len(q) - 1),
                     entries |-> [f EXCEPT ![q[Len(q)]] = NoValue]]
      BY AddCases
    <2> HIDE DEF d, q, f
    <2> QED
      BY <2>1
  <1>8. q \in Seq(Keys) /\ Len(q) = Len(c.items) + 1
    BY <1>2, PushShape
  <1>9. Ordered(c.items, u) /\ Evicted(c, u)
    BY DEF Recent
  <1> HIDE DEF d, w, b, q, f
  (* A key out of the cache both before and after was used before all that *)
  (* are in it.                                                            *)
  <1>10. ASSUME NEW e \in Keys \ {k}, w[e] > 0, ~Has(c, e)
         PROVE  /\ Len(c.items) = Capacity
                /\ \A x \in Keys : Has(d, x) => w[x] > w[e]
    <2>1. Len(c.items) = Capacity /\ \A x \in Keys : Has(c, x) => u[x] > u[e]
      BY <1>3, <1>9, <1>10 DEF Evicted
    <2>2. ASSUME NEW x \in Keys, Has(d, x) PROVE w[x] > w[e]
      <3>1. CASE x = k
        BY <1>3, <3>1
      <3>2. CASE x # k
        BY <1>3, <1>5, <2>1, <2>2, <3>2
      <3> QED
        BY <3>1, <3>2
    <2> QED
      BY <2>1, <2>2
  <1>11. CASE Has(c, k)
    <2>1. Ordered(d.items, w)
      <3>1. Listed(c.items, k)
        BY <1>2, <1>11
      <3>2. Ordered(MoveToFront(c.items, k), w)
        BY <3>1, <1>2, <1>9, OrderedMove DEF w
      <3> QED
        BY <3>2, <1>7, <1>11
    <2>2. Len(d.items) = Len(c.items)
      <3>1. Listed(c.items, k) /\ d.items = MoveToFront(c.items, k)
        BY <1>2, <1>7, <1>11
      <3> QED
        BY <1>2, <3>1, MoveToFrontKeeps DEF Listed
    <2>3. \A e \in Keys \ {k} : ~Has(d, e) => ~Has(c, e)
      BY <1>4, <1>7, <1>11 DEF Has
    <2>4. Evicted(d, w)
      BY <1>5, <1>10, <2>2, <2>3 DEF Evicted
    <2> QED
      BY <1>6, <2>1, <2>4 DEF Recent, d, w, b
  <1>12. CASE ~Has(c, k) /\ Len(q) <= Capacity
    <2>1. Ordered(d.items, w)
      <3>1. ~Listed(c.items, k)
        BY <1>2, <1>12
      <3>2. Ordered(q, w)
        BY <3>1, <1>2, <1>9, OrderedPush DEF w, q
      <3> QED
        BY <3>2, <1>7, <1>12
    <2>2. \A e \in Keys \ {k} : ~Has(d, e) => ~Has(c, e)
      BY <1>4, <1>7, <1>12 DEF Has
    <2>3. Len(c.items) # Capacity
      BY <1>2, <1>8, <1>12, CapacityAssumption
    <2>4. Evicted(d, w)
      BY <1>5, <1>10, <2>2, <2>3 DEF Evicted
    <2> QED
      BY <1>6, <2>1, <2>4 DEF Recent, d, w, b
  <1>13. CASE ~Has(c, k) /\ Len(q) > Capacity
    <2> DEFINE o == q[Len(q)]
    <2>1. Ordered(q, w)
      <3>1. ~Listed(c.items, k)
        BY <1>2, <1>13
      <3> QED
        BY <3>1, <1>2, <1>9, OrderedPush DEF w, q
    <2>2. Len(q) = Capacity + 1 /\ Len(q) >= 1 /\ Len(q) \in Nat
      BY <1>2, <1>8, <1>13, CapacityAssumption
    <2>3. d.items = SubSeq(q, 1, Len(q) - 1) /\ d.entries = [f EXCEPT ![o] = NoValue]
      BY <1>7, <1>13
    <2>4. Ordered(d.items, w) /\ \A i \in DOMAIN d.items : w[d.items[i]] > w[o]
      <3>1. LET r == SubSeq(q, 1, Len(q) - 1)
            IN  Ordered(r, w) /\ \A i \in DOMAIN r : w[r[i]] > w[q[Len(q)]]
        BY <1>8, <2>1, <2>2, OrderedPop
      <3> QED
        BY <2>3, <3>1
    <2>5. Len(d.items) = Capacity
      BY <1>8, <2>2, <2>3, CapacityAssumption
    <2>6. \A x \in Keys : Has(d, x) => w[x] > w[o]
      BY <1>2, <2>4 DEF Listed
    <2> HIDE DEF o
    <2>7. \A e \in Keys \ {k} : ~Has(d, e) => e = o \/ ~Has(c, e)
      <3> TAKE e \in Keys \ {k}
      <3>1. e # o => d.entries[e] = c.entries[e]
        BY <1>2, <1>4, <2>3 DEF f
      <3> QED
        BY <3>1 DEF Has
    <2>8. Evicted(d, w)
      BY <1>5, <1>10, <2>5, <2>6, <2>7 DEF Evicted
    <2> QED
      BY <1>6, <2>4, <2>8 DEF Recent, d, w, b
  <1> QED
    BY <1>8, <1>11, <1>12, <1>13, <1>2, CapacityAssumption

(* A Get at time t + 1 that finds its key.                                 *)
LEMMA TouchRecent ==
    ASSUME NEW c \in Caches, WellFormed(c), NEW k \in Keys, Has(c, k),
           NEW u, NEW t, Times(u, t), NEW a, Recent(c, u, a)
    PROVE  Recent(Touch(c, k), [u EXCEPT ![k] = t + 1], a)
  <1> DEFINE d == Touch(c, k)
             w == [u EXCEPT ![k] = t + 1]
  <1>1. d.entries = c.entries /\ d.items = MoveToFront(c.items, k)
    BY TouchKeeps
  <1>2. c.items \in Seq(Keys) /\ Distinct(c.items) /\ Listed(c.items, k)
    BY DEF Caches, WellFormed, Distinct, Listed
  <1>3. /\ t \in Nat /\ w[k] = t + 1
        /\ \A x \in Keys : u[x] \in Nat /\ u[x] <= t /\ (x # k => w[x] = u[x])
    BY DEF Times
  <1>4. Ordered(c.items, u) /\ Evicted(c, u)
    BY DEF Recent
  <1>5. Ordered(MoveToFront(c.items, k), w)
    BY <1>2, <1>4, OrderedMove
  <1>6. Len(d.items) = Len(c.items)
    BY <1>1, <1>2, MoveToFrontKeeps DEF Listed
  <1> HIDE DEF d, w
  <1>7. \A x \in Keys : Has(d, x) <=> Has(c, x)
    BY <1>1 DEF Has
  <1>8. Evicted(d, w)
    <2> SUFFICES ASSUME NEW e \in Keys, w[e] > 0, ~Has(d, e)
                 PROVE  /\ Len(d.items) = Capacity
                        /\ \A x \in Keys : Has(d, x) => w[x] > w[e]
      BY DEF Evicted
    <2>1. e # k /\ w[e] = u[e] /\ ~Has(c, e)
      BY <1>3, <1>7
    <2>2. Len(c.items) = Capacity /\ \A x \in Keys : Has(c, x) => u[x] > u[e]
      BY <1>4, <2>1 DEF Evicted
    <2> QED
      BY <1>3, <1>6, <1>7, <2>1, <2>2
  <1> QED
    BY <1>1, <1>5, <1>7, <1>8 DEF Recent, d, w

-----------------------------------------------------------------------------
(* The inductive invariant: what is kept is the most recent because no use *)
(* lies in the future.                                                     *)
UseInv ==
    /\ cache \in Caches /\ WellFormed(cache)
    /\ Times(usedAt, calls)
    /\ added \in [Keys -> Values \cup {NoValue}]
    /\ Recent(cache, usedAt, added)

LEMMA UseInit == Init => UseInv
  <1> SUFFICES ASSUME Init PROVE UseInv
    OBVIOUS
  <1>1. cache \in Caches /\ WellFormed(cache) /\ DOMAIN cache.items = {}
    BY CapacityAssumption DEF Init, EmptyCache, Caches, WellFormed, Has
  <1>2. \A k \in Keys : ~Has(cache, k)
    BY DEF Init, EmptyCache, Has
  <1> QED
    BY <1>1, <1>2 DEF Init, UseInv, Times, Recent, Ordered, Evicted

LEMMA UseStep == UseInv /\ [Next]_vars => UseInv'
  <1> SUFFICES ASSUME UseInv, [Next]_vars PROVE UseInv'
    OBVIOUS
  <1>1. ASSUME NEW k \in Keys, NEW v \in Values, CallAdd(k, v)
        PROVE  UseInv'
    <2>1. /\ calls' = calls + 1 /\ cache' = Add(cache, k, v)
          /\ usedAt' = [usedAt EXCEPT ![k] = calls + 1]
          /\ added' = [added EXCEPT ![k] = v]
      BY <1>1 DEF CallAdd
    <2>2. cache' \in Caches /\ WellFormed(cache')
      BY <2>1, AddKeeps DEF UseInv
    <2>3. Times(usedAt', calls') /\ added' \in [Keys -> Values \cup {NoValue}]
      BY <2>1 DEF UseInv, Times
    <2>4. Recent(cache', usedAt', added')
      BY <2>1, AddRecent DEF UseInv
    <2> QED
      BY <2>2, <2>3, <2>4 DEF UseInv
  <1>2. ASSUME NEW k \in Keys, CallGet(k)
        PROVE  UseInv'
    <2>1. calls' = calls + 1 /\ cache' = Touch(cache, k) /\ added' = added
      BY <1>2 DEF CallGet
    <2>2. cache' \in Caches /\ WellFormed(cache')
      BY <2>1, TouchKeeps DEF UseInv
    <2>3. CASE Has(cache, k)
      <3>1. usedAt' = [usedAt EXCEPT ![k] = calls + 1]
        BY <1>2, <2>3 DEF CallGet
      <3>2. Times(usedAt', calls')
        BY <2>1, <3>1 DEF UseInv, Times
      <3>3. Recent(cache', usedAt', added')
        BY <2>1, <2>3, <3>1, TouchRecent DEF UseInv
      <3> QED
        BY <2>1, <2>2, <3>2, <3>3 DEF UseInv
    <2>4. CASE ~Has(cache, k)
      <3>1. usedAt' = usedAt /\ cache' = cache
        BY <1>2, <2>1, <2>4 DEF CallGet, Touch
      <3>2. Times(usedAt', calls')
        BY <2>1, <3>1 DEF UseInv, Times
      <3> QED
        BY <2>1, <3>1, <3>2 DEF UseInv
    <2> QED
      BY <2>3, <2>4
  <1>3. CASE UNCHANGED vars
    BY <1>3 DEF vars, UseInv
  <1> QED
    BY <1>1, <1>2, <1>3 DEF Next

(* However Add and Get are called, the list and the map of the request     *)
(* history agree, hold no duplicate and never exceed the capacity.         *)
THEOREM HistoryWellFormed == Spec => []CacheWellFormed
  <1>1. UseInv => CacheWellFormed
    BY DEF UseInv, CacheWellFormed
  <1> QED
    BY <1>1, UseInit, UseStep, PTL DEF Spec

(* After any number of calls the history holds exactly the keys used most  *)
(* recently, in the order of their use, with the values last added.        *)
THEOREM LeastRecentlyUsedGoes == Spec => []KeepsMostRecent
  <1>1. UseInv => KeepsMostRecent
    BY DEF UseInv, Recent, Ordered, Evicted, KeepsMostRecent
  <1> QED
    BY <1>1, UseInit, UseStep, PTL DEF Spec
=============================================================================
