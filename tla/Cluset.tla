------------------------------- MODULE Cluset -------------------------------
(***************************************************************************)
(* Node-set compaction (internal/cluset/cluset.go), and the texts all the  *)
(* topology modules use for names and IDs.                                 *)
(*                                                                         *)
(* A text is the record [pre, num, width]: what stands before its trailing *)
(* digits, the value of these digits, and how many there are (0: none).    *)
(* This is the split compactRegexp makes.  Prefixes are numbers whose      *)
(* order is the order of the texts; no prefix begins another one, so that  *)
(* they decide the order of two texts before their digits do.              *)
(***************************************************************************)
EXTENDS Integers, Sequences, SequencesExt

Str == [pre: Nat, num: Nat, width: Nat]

\* the empty text
Empty == [pre |-> 0, num |-> 0, width |-> 0]

Max2(a, b) == IF a > b THEN a ELSE b

\* number of decimal digits of n, for the n < 1000 of the instances
DigitCount(n) == CASE n < 10 -> 1 [] n < 100 -> 2 [] OTHER -> 3

\* "%0*d": at least w digits
Padded(pre, n, w) == [pre |-> pre, num |-> n, width |-> Max2(w, DigitCount(n))]

\* a < b as Go compares strings
StrLess(a, b) ==
  LET w == Max2(a.width, b.width)
      x == a.num * 10 ^ (w - a.width)
      y == b.num * 10 ^ (w - b.width)
  IN  \/ a.pre < b.pre
      \/ a.pre = b.pre /\ (x < y \/ (x = y /\ a.width < b.width))

\* sort.Strings on the elements of a set
Sorted(S) ==
  [i \in 1..Cardinality(S) |-> CHOOSE x \in S : Cardinality({y \in S : StrLess(y, x)}) = i - 1]

-----------------------------------------------------------------------------
(* A compact entry is a prefix with ranges; without ranges it is the bare  *)
(* prefix.  A range keeps the digits of its start only.                    *)

\* the numbers Compact holds for a prefix: a bare name resets its group
GroupOf(names, p) ==
  LET bare == SelectLastInSeq(names, LAMBDA x : x.pre = p /\ x.width = 0)
  IN  SelectSeq(SubSeq(names, bare + 1, Len(names)), LAMBDA x : x.pre = p)

compressRange(numbers) ==
  FoldLeft(LAMBDA parts, x :
             IF parts # <<>> /\ x.num = Last(parts).hi + 1
             THEN [parts EXCEPT ![Len(parts)].hi = x.num]
             ELSE Append(parts, [lo |-> x.num, hi |-> x.num, width |-> x.width]),
           <<>>, numbers)

Compact(names) ==
  LET pres  == {names[i].pre : i \in DOMAIN names}
      order == SetToSortSeq(pres, <)
  IN  [i \in DOMAIN order |->
        [pre   |-> order[i],
         parts |-> compressRange(SortSeq(GroupOf(names, order[i]), LAMBDA x, y : x.num < y.num))]]

\* the names one range stands for
ExpandPart(pre, r) ==
  IF r.lo = r.hi THEN <<[pre |-> pre, num |-> r.lo, width |-> r.width]>>
  ELSE [i \in 1..(r.hi - r.lo + 1) |-> Padded(pre, r.lo + i - 1, r.width)]

ExpandEntry(e) ==
  IF e.parts = <<>> THEN <<[pre |-> e.pre, num |-> 0, width |-> 0]>>
  ELSE FlattenSeq([i \in DOMAIN e.parts |-> ExpandPart(e.pre, e.parts[i])])

Expand(entries) == FlattenSeq([i \in DOMAIN entries |-> ExpandEntry(entries[i])])

\* the pieces expandWithLimit looks at one after the other
PartsOf(entries) ==
  FlattenSeq([i \in DOMAIN entries |->
    IF entries[i].parts = <<>> THEN <<[size |-> 1, range |-> FALSE]>>
    ELSE [j \in DOMAIN entries[i].parts |->
            LET r == entries[i].parts[j]
            IN  [size |-> Max2(0, r.hi - r.lo + 1), range |-> r.lo # r.hi]]])

\* whether expandWithLimit gives up: a range is refused before it is expanded,
\* a single name after it was appended
ExceedsLimit(entries, limit) ==
  FoldLeft(LAMBDA n, p :
             CASE n < 0 -> n
               [] p.range /\ p.size >= 1 /\ p.size - 1 >= limit - n -> -1
               [] ~p.range /\ n + 1 > limit -> -1
               [] OTHER -> n + p.size,
           0, PartsOf(entries)) < 0
=============================================================================
