---------------------------- MODULE ServerProofs ----------------------------
(***************************************************************************)
(* The server's request queue and the handler behind it.  The handler:     *)
(* what it writes is fresh, what it reports as done was written, and it    *)
(* keeps to its schedule of retries, for every number of attempts, backoff *)
(* and set of errors.  The queue: for any set of requests and hashes, any  *)
(* delay, any history size and any number of submissions.                  *)
(***************************************************************************)
EXTENDS TrailingDelayQueue, RequestProcessor, FiniteSetTheorems, TLAPS

-----------------------------------------------------------------------------
(* The handler (RequestProcessor).                                         *)

Before == {"registerEngine", "registerProvider", "newEngine", "newProvider",
           "instances", "resolve", "generate"}

Shape ==
    /\ stage \in Before \cup {"start", "output", "sleep", "returned"}
    /\ attempt \in Nat /\ instances \in Nat
    /\ writes \in Seq([by : Nat, from : Nat])

(* No write is of a later attempt, and before an attempt's output none is  *)
(* of the attempt itself.                                                  *)
Earlier ==
    \A k \in DOMAIN writes :
        writes[k].by <= attempt /\ (stage \in Before => writes[k].by < attempt)

(* The attempt has written.                                                *)
Wrote == writes # <<>> /\ writes[Len(writes)].by = attempt

Inv ==
    /\ Shape /\ Earlier /\ OutputIsFresh
    /\ stage = "generate" => instances = attempt
    /\ stage = "output" \/ (stage = "returned" /\ code = OK) => Wrote

-----------------------------------------------------------------------------
LEMMA InitInv == InitHandler => Inv
  BY DEF InitHandler, Inv, Shape, Before, Earlier, OutputIsFresh

(* An attempt that has not written yet appends its graph.                  *)
LEMMA AppendKeeps ==
    ASSUME Inv, GenerateTopologyConfig PROVE Inv'
<1> DEFINE w == [by |-> attempt, from |-> instances]
<1>1. /\ stage = "generate" /\ stage' = "output" /\ instances = attempt
      /\ writes' = Append(writes, w) /\ UNCHANGED <<attempt, instances>>
  BY DEF GenerateTopologyConfig, Inv
<1>2. w \in [by : Nat, from : Nat] /\ w.by = attempt /\ w.from = attempt
  BY <1>1 DEF Inv, Shape
<1> HIDE DEF w
<1>3. /\ writes' \in Seq([by : Nat, from : Nat])
      /\ Len(writes') = Len(writes) + 1 /\ Len(writes) \in Nat
      /\ DOMAIN writes = 1..Len(writes) /\ DOMAIN writes' = 1..Len(writes) + 1
      /\ \A k \in 1..Len(writes) : writes'[k] = writes[k] /\ writes[k].by \in Nat
      /\ writes'[Len(writes) + 1] = w
  <2> DEFINE R == [by : Nat, from : Nat]
  <2>1. writes \in Seq(R) /\ w \in R
    BY <1>2 DEF Inv, Shape
  <2>2. \A r \in R : r.by \in Nat
    OBVIOUS
  <2> HIDE DEF R
  <2>3. /\ Append(writes, w) \in Seq(R) /\ Len(Append(writes, w)) = Len(writes) + 1
        /\ Len(writes) \in Nat /\ DOMAIN writes = 1..Len(writes)
        /\ DOMAIN Append(writes, w) = 1..Len(writes) + 1
    BY <2>1
  <2>4. /\ \A k \in 1..Len(writes) : Append(writes, w)[k] = writes[k] /\ writes[k] \in R
        /\ Append(writes, w)[Len(writes) + 1] = w
    BY <2>1, <2>3
  <2>5. QED
    BY <1>1, <2>2, <2>3, <2>4 DEF R
<1>4. \A k \in 1..Len(writes) : writes[k].by < attempt
  BY <1>1, <1>3 DEF Inv, Earlier, Before
<1>5. Shape'
  BY <1>1, <1>3 DEF Inv, Shape
<1>6. Earlier'
  BY <1>1, <1>2, <1>3, <1>4 DEF Inv, Shape, Earlier, Before
<1>7. OutputIsFresh'
  <2>1. \A k \in DOMAIN writes' : writes'[k].by = writes'[k].from
    <3>1. ASSUME NEW k \in DOMAIN writes' PROVE k \in DOMAIN writes \/ k = Len(writes) + 1
      BY <1>3
    <3>2. QED
      BY <1>2, <1>3, <3>1 DEF Inv, OutputIsFresh
  <2> DEFINE m == Len(writes)
  <2>2. m \in Nat /\ Len(writes') = m + 1 /\ DOMAIN writes = 1..m
    BY <1>3
  <2>3. ASSUME NEW k \in 1..m PROVE writes'[k].by < writes'[k + 1].by
    <3>1. CASE k = m
      BY <1>2, <1>3, <1>4, <3>1
    <3>2. CASE k # m
      <4> HIDE DEF m
      <4>1. k \in 1..m - 1 /\ k + 1 \in 1..m
        BY <2>2, <3>2
      <4> USE DEF m
      <4>2. QED
        BY <1>3, <4>1 DEF Inv, OutputIsFresh
    <3>3. QED
      BY <3>1, <3>2
  <2> HIDE DEF m
  <2>4. 1..Len(writes') - 1 = 1..m
    BY <2>2
  <2>5. QED
    BY <2>1, <2>3, <2>4 DEF OutputIsFresh
<1>8. Wrote'
  <2>1. Len(writes') = Len(writes) + 1 /\ Len(writes) \in Nat /\ writes'[Len(writes')] = w
    BY <1>3
  <2>2. Len(writes') # 0
    BY <2>1
  <2>3. writes' # <<>>
    BY <2>2
  <2>4. writes'[Len(writes')].by = attempt'
    BY <1>1, <1>2, <2>1
  <2>5. QED
    BY <2>3, <2>4 DEF Wrote
<1>9. QED
  BY <1>1, <1>5, <1>6, <1>7, <1>8 DEF Inv

LEMMA StepInv == Inv /\ [NextStep]_handlerVars => Inv'
<1> SUFFICES ASSUME Inv, [NextStep]_handlerVars PROVE Inv'
  OBVIOUS
<1> USE DEF Shape, Before, Earlier, Wrote, OutputIsFresh
<1>1. CASE Fail
  <2>1. PICK c \in StageCodes : code' = c /\ stage' \in {"returned", "sleep"}
    BY <1>1 DEF Fail, Judge
  <2>2. code' # OK
    BY <2>1, CodesAssumption
  <2>3. UNCHANGED <<attempt, instances, writes>>
    BY <1>1 DEF Fail
  <2>4. QED
    BY <2>1, <2>2, <2>3 DEF Inv
<1>2. CASE Load
  <2>1. stage \in DOMAIN After /\ stage' = After[stage] /\ UNCHANGED <<attempt, instances, writes>>
    BY <1>2 DEF Load
  <2>2. stage \in Before /\ stage' \in Before \ {"generate"}
    BY <2>1 DEF After
  <2>3. QED
    BY <2>1, <2>2 DEF Inv
<1>3. CASE ResolveComputeInstances
  BY <1>3 DEF ResolveComputeInstances, Inv
<1>4. CASE EngineResolves
  BY <1>4 DEF EngineResolves, Inv
<1>5. CASE GenerateTopologyConfig
  BY <1>5, AppendKeeps
<1>6. CASE GenerateOutput
  <2>1. stage = "output" /\ stage' \in {"returned", "sleep"} /\ UNCHANGED <<attempt, instances, writes>>
    BY <1>6 DEF GenerateOutput, Judge
  <2>2. QED
    BY <2>1 DEF Inv
<1>7. CASE Sleep
  BY <1>7 DEF Sleep, Inv
<1>8. CASE NextAttempt
  <2>1. attempt' = attempt + 1 /\ stage' = "registerEngine" /\ UNCHANGED <<instances, writes>>
    BY <1>8 DEF NextAttempt, FirstStage
  <2>2. \A k \in DOMAIN writes : writes[k].by \in Nat /\ writes[k].by <= attempt
    <3> DEFINE R == [by : Nat, from : Nat]
    <3>1. writes \in Seq(R)
      BY DEF Inv
    <3>2. \A x \in R : x.by \in Nat
      OBVIOUS
    <3> HIDE DEF R
    <3>3. \A k \in DOMAIN writes : writes[k] \in R
      BY <3>1
    <3>4. QED
      BY <3>2, <3>3 DEF Inv
  <2>3. Earlier'
    BY <2>1, <2>2 DEF Inv
  <2>4. QED
    BY <2>1, <2>3 DEF Inv
<1>9. CASE UNCHANGED handlerVars
  BY <1>9 DEF handlerVars, Inv
<1>10. QED
  BY <1>1, <1>2, <1>3, <1>4, <1>5, <1>6, <1>7, <1>8, <1>9 DEF NextStep

-----------------------------------------------------------------------------
(* Every output comes from the graph and the instances of its own attempt, *)
(* and no attempt writes twice.                                            *)
THEOREM FreshOutput == HandlerSpec => []OutputIsFresh
<1>1. Inv => OutputIsFresh
  BY DEF Inv
<1>2. QED
  BY <1>1, InitInv, StepInv, PTL DEF HandlerSpec

(* A handler reports success only of an output its last attempt wrote.     *)
THEOREM Reported == HandlerSpec => []SuccessWasWritten
<1>1. Inv => SuccessWasWritten
  BY DEF Inv, Wrote, SuccessWasWritten
<1>2. QED
  BY <1>1, InitInv, StepInv, PTL DEF HandlerSpec

-----------------------------------------------------------------------------
(* Powers of two count sets of numbers, so each is twice the one before.   *)
LEMMA Powers ==
    ASSUME NEW m \in Nat
    PROVE  /\ IsFiniteSet(SUBSET (1..m))
           /\ 2^m = Cardinality(SUBSET (1..m)) /\ 2^m \in Nat \ {0}
<1>1. IsFiniteSet(1..m) /\ Cardinality(1..m) = m
  BY FS_Interval
<1>2. IsFiniteSet(SUBSET (1..m)) /\ Cardinality(SUBSET (1..m)) = 2^m
  BY <1>1, FS_SUBSET
<1>3. Cardinality(SUBSET (1..m)) \in Nat
  BY <1>2, FS_CardinalityType
<1>4. Cardinality(SUBSET (1..m)) # 0
  <2>1. {} \in SUBSET (1..m)
    OBVIOUS
  <2>2. SUBSET (1..m) # {}
    BY <2>1
  <2>3. QED
    BY <1>2, <2>2, FS_EmptySet
<1>5. QED
  BY <1>2, <1>3, <1>4

LEMMA Doubling ==
    ASSUME NEW m \in Nat
    PROVE  2^(m + 1) = 2 * 2^m
<1> DEFINE A == SUBSET (1..m)
           B == (SUBSET (1..m + 1)) \ A
           f == [T \in A |-> T \cup {m + 1}]
<1>1. /\ IsFiniteSet(A) /\ 2^m = Cardinality(A) /\ 2^m \in Nat
      /\ IsFiniteSet(A \cup B) /\ 2^(m + 1) = Cardinality(A \cup B)
  <2>1. A \cup B = SUBSET (1..m + 1)
    OBVIOUS
  <2>2. QED
    BY <2>1, Powers, m + 1 \in Nat
<1>2. f \in Bijection(A, B)
  <2>1. \A T \in A : m + 1 \notin T
    OBVIOUS
  <2>2. \A T \in A : T \cup {m + 1} \in B
    BY <2>1
  <2>3. f \in [A -> B]
    BY <2>2
  <2>4. \A S, T \in A : f[S] = f[T] => S = T
    BY <2>1
  <2>5. ASSUME NEW T \in B PROVE \E S \in A : f[S] = T
    <3>1. m + 1 \in T
      OBVIOUS
    <3>2. T \ {m + 1} \in A /\ (T \ {m + 1}) \cup {m + 1} = T
      BY <3>1
    <3>3. f[T \ {m + 1}] = T
      BY <3>2
    <3>4. QED
      BY <3>2, <3>3
  <2> HIDE DEF A, B, f
  <2>6. QED
    BY <2>3, <2>4, <2>5, Zenon DEF Bijection, Injection, IsInjective, Surjection
<1>3. IsFiniteSet(B) /\ Cardinality(B) = Cardinality(A)
  <2> HIDE DEF A, B, f
  <2>1. ExistsBijection(A, B)
    BY <1>2 DEF ExistsBijection
  <2>2. QED
    BY <1>1, <2>1, FS_Bijection
<1>4. A \cap B = {} /\ Cardinality({}) = 0
  BY FS_EmptySet
<1> HIDE DEF A, B, f
<1>5. Cardinality(A \cup B) = Cardinality(A) + Cardinality(B) - Cardinality(A \cap B)
  BY <1>1, <1>3, FS_Union
<1>6. Cardinality(A \cap B) = 0
  BY <1>4
<1>7. QED
  BY <1>1, <1>3, <1>5, <1>6

(* What the handler has slept before attempt k + 1 begins.                 *)
Slept(k) == InitialBackoff * (2^k - 1)

LEMMA NextWait ==
    ASSUME NEW k \in Nat
    PROVE  /\ InitialBackoff * 2^k \in Nat /\ Slept(k) \in Nat /\ Slept(0) = 0
           /\ Slept(k + 1) = Slept(k) + InitialBackoff * 2^k
<1> DEFINE p == 2^k
<1>0. 2^0 = 1
  OBVIOUS
<1>1. p \in Nat \ {0} /\ 2^(k + 1) = 2 * p
  BY Powers, Doubling
<1> HIDE DEF p
<1>2. /\ InitialBackoff * p \in Nat /\ InitialBackoff * (p - 1) \in Nat
      /\ InitialBackoff * (2 * p - 1) = InitialBackoff * (p - 1) + InitialBackoff * p
  BY <1>1, BackoffAssumption
<1>3. InitialBackoff * (1 - 1) = 0
  BY BackoffAssumption
<1>4. QED
  BY <1>0, <1>1, <1>2, <1>3 DEF Slept, p

(* While an attempt runs the waits before it are over; while the handler   *)
(* sleeps, what it has slept and what is left add up to the next of them.  *)
Schedule ==
    /\ attempt \in Nat /\ sleeping \in Nat /\ slept \in Nat
    /\ stage \in Before \cup {"start", "output", "sleep", "returned"}
    /\ stage = "start" => attempt = 0 /\ sleeping = 0 /\ slept = Slept(0)
    /\ stage \in Before \cup {"output", "returned"} =>
          attempt > 0 /\ sleeping = 0 /\ slept = Slept(attempt - 1)
    /\ stage = "sleep" => attempt > 0 /\ slept + sleeping = Slept(attempt)
    /\ stage = "returned" /\ ShouldRetry(code) => attempt = MaxRetries

(* An attempt ends: return, or sleep twice as long as the last time.       *)
LEMMA JudgeKeepsTime ==
    ASSUME Schedule, stage \in Before \cup {"output"}, NEW c, Judge(c),
           UNCHANGED <<attempt, slept>>
    PROVE  Schedule'
<1>1. attempt \in Nat /\ attempt > 0 /\ sleeping = 0 /\ slept = Slept(attempt - 1)
  BY DEF Schedule
<1>2. CASE Final(c)
  <2>1. stage' = "returned" /\ code' = c /\ sleeping' = sleeping
    BY <1>2 DEF Judge
  <2>2. QED
    BY <1>1, <1>2, <2>1 DEF Schedule, Final, Before
<1>3. CASE ~Final(c)
  <2>1. stage' = "sleep" /\ sleeping' = InitialBackoff * 2^(attempt - 1)
    BY <1>3 DEF Judge, GetNextBackoff, ParseRetryAfter, NoHeader, Header, NoWait
  <2>2. attempt - 1 \in Nat /\ (attempt - 1) + 1 = attempt
    BY <1>1
  <2>3. /\ sleeping' \in Nat /\ Slept(attempt - 1) \in Nat
        /\ Slept(attempt) = Slept(attempt - 1) + sleeping'
    BY <2>1, <2>2, NextWait
  <2>4. QED
    BY <1>1, <2>1, <2>3 DEF Schedule, Before
<1>4. QED
  BY <1>2, <1>3

LEMMA ScheduleStep == Schedule /\ [NextStep]_handlerVars => Schedule'
<1> SUFFICES ASSUME Schedule, [NextStep]_handlerVars PROVE Schedule'
  OBVIOUS
<1>1. CASE Fail
  <2>1. stage \in Before \cup {"output"} /\ UNCHANGED <<attempt, slept>>
    BY <1>1 DEF Fail, After, Before
  <2>2. PICK c \in StageCodes : Judge(c)
    BY <1>1 DEF Fail
  <2>3. QED
    BY <2>1, <2>2, JudgeKeepsTime
<1>2. CASE Load
  <2>1. stage \in Before /\ stage' \in Before /\ UNCHANGED <<attempt, sleeping, slept>>
    BY <1>2 DEF Load, After, Before
  <2>2. QED
    BY <2>1 DEF Schedule, Before
<1>3. CASE ResolveComputeInstances \/ EngineResolves \/ GenerateTopologyConfig
  <2>1. /\ stage \in Before /\ stage' \in Before \cup {"output"}
        /\ UNCHANGED <<attempt, sleeping, slept>>
    BY <1>3 DEF ResolveComputeInstances, EngineResolves, GenerateTopologyConfig, Before
  <2>2. QED
    BY <2>1 DEF Schedule, Before
<1>4. CASE GenerateOutput
  BY <1>4, JudgeKeepsTime DEF GenerateOutput
<1>5. CASE Sleep
  <2>1. /\ stage = "sleep" /\ stage' = stage /\ attempt' = attempt /\ sleeping > 0
        /\ sleeping' = sleeping - 1 /\ slept' = slept + 1
    BY <1>5 DEF Sleep
  <2>2. QED
    BY <2>1 DEF Schedule, Before
<1>6. CASE NextAttempt
  <2>1. /\ stage \in {"start", "sleep"} /\ sleeping = 0 /\ attempt' = attempt + 1
        /\ stage' \in Before /\ UNCHANGED <<sleeping, slept>>
    BY <1>6 DEF NextAttempt, FirstStage, Before
  <2>2. attempt \in Nat /\ slept \in Nat /\ slept = Slept(attempt)
    BY <2>1 DEF Schedule
  <2>3. attempt' \in Nat /\ attempt' > 0 /\ attempt' - 1 = attempt
    BY <2>1, <2>2
  <2>4. QED
    BY <2>1, <2>2, <2>3 DEF Schedule, Before
<1>7. CASE UNCHANGED handlerVars
  BY <1>7 DEF handlerVars, Schedule
<1>8. QED
  BY <1>1, <1>2, <1>3, <1>4, <1>5, <1>6, <1>7 DEF NextStep

(* A handler that returns after k attempts has slept for exactly the first *)
(* k - 1 backoffs, and it never returns a retryable error with attempts    *)
(* left: for every number of attempts and every initial backoff.           *)
THEOREM OnSchedule == HandlerSpec => []BackoffSchedule
<1>1. InitHandler => Schedule
  <2>1. Slept(0) = 0
    BY NextWait
  <2>2. QED
    BY <2>1 DEF InitHandler, Schedule, Before
<1>2. Schedule => BackoffSchedule
  BY DEF Schedule, BackoffSchedule, Slept
<1>3. QED
  BY <1>1, <1>2, ScheduleStep, PTL DEF HandlerSpec

-----------------------------------------------------------------------------
(* The queue (TrailingDelayQueue).                                         *)

(* The steps are first-order, and Zenon proves them, but for the ones that *)
(* say SMT.                                                                *)
USE Zenon

(* The lemmas about the operators of LruCache, at the queue's history; the *)
(* variables of the module that proves them play no part in these.         *)
Facts == INSTANCE LruCacheProofs
           WITH Keys <- Hashes, Values <- Subs, NoValue <- None, MaxCalls <- 0,
                cache <- 0, calls <- 0, usedAt <- 0, added <- 0

(* The operators of the two instances of LruCache are the same.            *)
LEMMA SameLru ==
    /\ LRU!Caches = Facts!Caches
    /\ \A c : LRU!WellFormed(c) <=> Facts!WellFormed(c)
    /\ \A c, k : LRU!Has(c, k) <=> Facts!Has(c, k)
    /\ \A c, k, v : LRU!Add(c, k, v) = Facts!Add(c, k, v)
    /\ \A c, k : LRU!Touch(c, k) = Facts!Touch(c, k)
  <1>1. LRU!Caches = Facts!Caches
    BY DEF LRU!Caches, Facts!Caches
  <1>2. \A c, k : LRU!Has(c, k) <=> Facts!Has(c, k)
    BY DEF LRU!Has, Facts!Has
  <1>3. \A c : LRU!WellFormed(c) <=> Facts!WellFormed(c)
    BY <1>2 DEF LRU!WellFormed, Facts!WellFormed
  <1>4. \A s, k : LRU!MoveToFront(s, k) = Facts!MoveToFront(s, k)
    BY Zenon DEF LRU!MoveToFront, Facts!MoveToFront
  <1>5. \A c, k, v : LRU!PushFront(c, k, v) = Facts!PushFront(c, k, v)
    BY Zenon DEF LRU!PushFront, Facts!PushFront
  <1>6. \A c : LRU!RemoveOldest(c) = Facts!RemoveOldest(c)
    BY Zenon DEF LRU!RemoveOldest, Facts!RemoveOldest
  <1>7. \A c : LRU!Overflows(c) <=> Facts!Overflows(c)
    BY DEF LRU!Overflows, Facts!Overflows
  <1>8. \A c, k, v : LRU!Add(c, k, v) = Facts!Add(c, k, v)
    <2> TAKE c, k, v
    <2>1. CASE LRU!Has(c, k)
      <3>1. Facts!Has(c, k) /\ LRU!MoveToFront(c.items, k) = Facts!MoveToFront(c.items, k)
        BY <1>2, <1>4, <2>1
      <3> QED
        BY <2>1, <3>1 DEF LRU!Add, Facts!Add
    <2>2. CASE ~LRU!Has(c, k)
      <3>1. ~Facts!Has(c, k) /\ LRU!PushFront(c, k, v) = Facts!PushFront(c, k, v)
        BY <1>2, <1>5, <2>2
      <3> QED
        BY <1>6, <1>7, <2>2, <3>1 DEF LRU!Add, Facts!Add
    <2> QED
      BY <2>1, <2>2
  <1>9. \A c, k : LRU!Touch(c, k) = Facts!Touch(c, k)
    <2> TAKE c, k
    <2>1. /\ LRU!MoveToFront(c.items, k) = Facts!MoveToFront(c.items, k)
          /\ LRU!Has(c, k) <=> Facts!Has(c, k)
      BY <1>2, <1>4
    <2> QED
      BY <2>1 DEF LRU!Touch, Facts!Touch
  <1> QED
    BY <1>1, <1>2, <1>3, <1>8, <1>9

LEMMA NoneIsNoSubmission == None \notin Subs
  BY MaxSubmitsAssumption, SMT DEF None, Subs

LEMMA LruAdd ==
    ASSUME NEW c \in LRU!Caches, LRU!WellFormed(c),
           NEW h \in Hashes, NEW s \in Subs
    PROVE  /\ LRU!Add(c, h, s) \in LRU!Caches
           /\ LRU!WellFormed(LRU!Add(c, h, s))
           /\ LRU!Add(c, h, s).entries[h] = s
           /\ \A x \in Hashes \ {h} :
                 LRU!Add(c, h, s).entries[x] \in {c.entries[x], None}
  BY Facts!AddKeeps, SameLru, NoneIsNoSubmission, HistoryAssumption, SMT

LEMMA LruTouch ==
    ASSUME NEW c \in LRU!Caches, LRU!WellFormed(c), NEW h \in Hashes
    PROVE  /\ LRU!Touch(c, h) \in LRU!Caches
           /\ LRU!WellFormed(LRU!Touch(c, h))
           /\ LRU!Touch(c, h).entries = c.entries
  BY Facts!TouchKeeps, SameLru, NoneIsNoSubmission, HistoryAssumption

-----------------------------------------------------------------------------
(* A submission that has not been made has no timer.                       *)
Fresh == \A s \in Subs : s > n => timer[s] = "none"

(* A callback whose handler has returned holds the handler's code.         *)
Handled == \A s \in Subs : timer[s] \in {"returned", "done"} => outcome[s] \in Codes

(* An older submission has waited at least as long as a newer one.         *)
Aged == \A s, t \in Submitted : t <= s => age[t] >= age[s]

(* The inductive invariant.  LatestWins and NoLostResult need that a hash  *)
(* has one recorded timer and that no other hash records it, which is      *)
(* TimersTrackLatest; that needs Fresh for the number Submit allocates.    *)
IInv ==
    /\ TypeOK
    /\ Fresh
    /\ Handled
    /\ Aged
    /\ LatestWins
    /\ TimersTrackLatest
    /\ NoLostResult
    /\ NothingStartsAfterStop
    /\ StoreWellFormed

LEMMA InitIInv == Init => IInv
  <1> SUFFICES ASSUME Init PROVE IInv
    OBVIOUS
  <1>1. LRU!EmptyCache \in LRU!Caches /\ \A h \in Hashes : ~LRU!Has(LRU!EmptyCache, h)
    BY SMT DEF LRU!EmptyCache, LRU!Caches, LRU!Has
  <1>2. TypeOK
    BY <1>1, MaxSubmitsAssumption, DelayAssumption, SMT
       DEF Init, TypeOK, Submitted, TimerStates, NoCompletion, Codes
  <1>3. StoreWellFormed
    BY <1>1, HistoryAssumption, SMT
       DEF Init, StoreWellFormed, LRU!WellFormed, LRU!EmptyCache, LRU!Has
  <1>4. LatestWins /\ NoLostResult
    BY <1>1 DEF Init, LatestWins, NoLostResult
  <1>5. TimersTrackLatest /\ NothingStartsAfterStop /\ Fresh /\ Handled /\ Aged
    BY SMT DEF Init, TimersTrackLatest, NothingStartsAfterStop, Fresh, Handled, Aged,
       Submitted, None
  <1> QED
    BY <1>2, <1>3, <1>4, <1>5 DEF IInv

(* Stop leaves every timer outside the set alone and disarms those in it.  *)
LEMMA StopShape ==
    ASSUME TypeOK, NEW S
    PROVE  /\ Stop(S) \in [Subs -> TimerStates]
           /\ \A s \in Subs : s \notin S => Stop(S)[s] = timer[s]
           /\ \A s \in Subs : s \in S => Stop(S)[s] # "armed"
           /\ \A s \in Subs : timer[s] # "armed" => Stop(S)[s] = timer[s]
           /\ \A s \in Subs : Stop(S)[s] = "stopped" \/ Stop(S)[s] = timer[s]
  BY DEF Stop, TypeOK, TimerStates

LEMMA SubmitKeeps ==
    ASSUME IInv, NEW i \in Items, Submit(i)
    PROVE  IInv'
  <1> DEFINE h == HashOf[i]
             s == n + 1
             old == timers[h]
             next == LRU!Add(store, h, s)
             hashAt(t) == HashOf[item'[t]]
             publishedAt(t) ==
                 [Status |-> outcome'[t],
                  Ret |-> IF outcome'[t] = StatusOK THEN item'[t] ELSE None]
  <1>1. /\ h \in Hashes /\ n \in Nat /\ s \in Subs /\ s # None /\ ~(s \in Submitted)
        /\ Submitted \subseteq Subs
        /\ Submitted' = Submitted \cup {s}
    BY HashOfAssumption, MaxSubmitsAssumption, SMT
       DEF Submit, IInv, TypeOK, Subs, Submitted, None
  <1>2. /\ n' = s
        /\ timer' = [Stop({old}) EXCEPT ![s] = "armed"]
        /\ entry' = [entry EXCEPT ![s] = [Status |-> StatusAccepted, Ret |-> None]]
        /\ timers' = [timers EXCEPT ![h] = s]
        /\ store' = next
        /\ phase = "up" /\ phase' = "up" /\ outcome' = outcome
    BY DEF Submit
  <1>3. /\ hashAt(s) = h
        /\ item'[s] = i
        /\ \A t \in Submitted : item'[t] = item[t] /\ hashAt(t) = HashAt(t)
    BY <1>1 DEF Submit, HashAt, Submitted
  <1>4. /\ next \in LRU!Caches
        /\ LRU!WellFormed(next)
        /\ next.entries[h] = s
        /\ \A x \in Hashes \ {h} : next.entries[x] \in {store.entries[x], None}
    BY <1>1, LruAdd DEF IInv, TypeOK, StoreWellFormed
  <1>5. /\ timer' \in [Subs -> TimerStates]
        /\ timer'[s] = "armed"
        /\ \A t \in Subs \ {s} : timer'[t] = Stop({old})[t]
    <2>1. Stop({old}) \in [Subs -> TimerStates]
      BY StopShape DEF IInv
    <2> QED
      BY <1>1, <1>2, <2>1 DEF TimerStates
  <1>6. \A t \in Submitted : HashAt(t) # h => timer'[t] = timer[t]
    <2> SUFFICES ASSUME NEW t \in Submitted, HashAt(t) # h
                 PROVE  timer'[t] = timer[t]
      OBVIOUS
    <2>1. t \in Subs \ {s}
      BY <1>1
    <2>2. t # old
      BY <1>1, <2>1, NoneIsNoSubmission DEF IInv, TimersTrackLatest
    <2> QED
      BY <1>5, <2>1, <2>2, StopShape, SMT DEF IInv
  <1>7. TypeOK'
    <2>1. item' \in [Submitted' -> Items]
      BY <1>1 DEF Submit, IInv, TypeOK, Submitted
    <2>2. entry' \in [Subs -> [Status : Codes \cup {0, StatusAccepted},
                               Ret : Items \cup {None}]]
      BY <1>1, <1>2 DEF IInv, TypeOK
    <2>3. age' \in [Subs -> 0 .. Delay]
      <3>1. age' = [age EXCEPT ![s] = 0] /\ age \in [Subs -> 0 .. Delay]
        BY Zenon DEF Submit, IInv, TypeOK
      <3> QED
        BY <1>1, <3>1, DelayAssumption, SMT
    <2>4. n' \in 0 .. MaxSubmits
      BY MaxSubmitsAssumption, SMT DEF Submit, IInv, TypeOK
    <2> QED
      BY <1>1, <1>2, <1>4, <1>5, <2>1, <2>2, <2>3, <2>4 DEF IInv, TypeOK
  <1>8. Fresh'
    <2> SUFFICES ASSUME NEW t \in Subs, t > n'
                 PROVE  timer'[t] = "none"
      BY DEF Fresh
    <2>1. t # s /\ t > n
      BY <1>1, <1>2, SMT DEF Subs
    <2>2. timer[t] = "none"
      BY <2>1 DEF IInv, Fresh
    <2> QED
      BY <1>5, <2>1, <2>2, StopShape DEF IInv
  <1>8a. Handled'
    <2>1. \A t \in Subs : timer'[t] \in {"returned", "done"} => timer'[t] = timer[t]
      BY <1>5, StopShape DEF IInv
    <2> QED
      BY <1>2, <2>1 DEF IInv, Handled
  <1>8b. Aged'
    <2>1. /\ age'[s] = 0
          /\ \A t \in Submitted : age'[t] = age[t] /\ age[t] \in Nat /\ t < s
      <3>1. age \in [Subs -> 0 .. Delay] /\ age' = [age EXCEPT ![s] = 0]
        BY DEF Submit, IInv, TypeOK
      <3>2. \A t \in Submitted : t \in Subs /\ t \in Nat /\ t < s
        BY <1>1, SMT DEF IInv, TypeOK, Submitted
      <3>3. \A t \in Subs : age[t] \in Nat
        BY <3>1, DelayAssumption, SMT
      <3> QED
        BY <1>1, <3>1, <3>2, <3>3, SMT
    <2> QED
      BY <1>1, <2>1, SMT DEF IInv, Aged, Submitted
  <1>9. LatestWins'
    <2> SUFFICES ASSUME NEW x \in Hashes, next.entries[x] # None
                 PROVE  /\ next.entries[x] \in Submitted'
                        /\ hashAt(next.entries[x]) = x
                        /\ \A t \in Submitted' : hashAt(t) = x => t <= next.entries[x]
      BY <1>2 DEF LatestWins, LRU!Has, HashAt
    <2>1. CASE x = h
      <3>1. \A t \in Submitted' : t <= s
        BY <1>1, <1>2, SMT DEF Submitted
      <3> QED
        BY <1>1, <1>3, <1>4, <2>1, <3>1
    <2>2. CASE x # h
      <3>1. next.entries[x] = store.entries[x]
        BY <1>4, <2>2
      <3>2. /\ store.entries[x] \in Submitted
            /\ HashAt(store.entries[x]) = x
            /\ \A t \in Submitted : HashAt(t) = x => t <= store.entries[x]
        BY <3>1 DEF IInv, LatestWins, LRU!Has
      <3> QED
        BY <1>1, <1>3, <2>2, <3>1, <3>2
    <2> QED
      BY <2>1, <2>2
  <1>10. TimersTrackLatest'
    <2>1. \A t \in Submitted' : timer'[t] = "armed" => timers'[hashAt(t)] = t
      <3> SUFFICES ASSUME NEW t \in Submitted', timer'[t] = "armed"
                   PROVE  timers'[hashAt(t)] = t
        OBVIOUS
      <3>1. CASE t = s
        BY <1>1, <1>2, <1>3, <3>1 DEF IInv, TypeOK
      <3>2. CASE t # s
        <4>1. t \in Submitted /\ t \in Subs \ {s}
          BY <1>1, <3>2
        <4>2. t # old /\ timer[t] = "armed"
          BY <1>5, <4>1, StopShape, SMT DEF IInv
        <4>3. timers[HashAt(t)] = t
          BY <4>1, <4>2 DEF IInv, TimersTrackLatest
        <4>4. HashAt(t) # h /\ HashAt(t) \in Hashes
          BY <4>1, <4>2, <4>3, HashOfAssumption DEF HashAt, IInv, TypeOK
        <4> QED
          BY <1>2, <1>3, <4>1, <4>3, <4>4 DEF IInv, TypeOK
      <3> QED
        BY <3>1, <3>2
    <2>2. ASSUME NEW x \in Hashes, timers'[x] # None
          PROVE  /\ timers'[x] \in Submitted'
                 /\ hashAt(timers'[x]) = x
                 /\ timer'[timers'[x]] \notin {"none", "done", "stopped"}
                 /\ \A t \in Submitted' : hashAt(t) = x => t <= timers'[x]
      <3>1. CASE x = h
        <4>1. timers'[x] = s
          BY <1>1, <1>2, <3>1 DEF IInv, TypeOK
        <4>2. \A t \in Submitted' : t <= s
          BY <1>1, <1>2, SMT DEF Submitted
        <4> QED
          BY <1>1, <1>3, <1>5, <3>1, <4>1, <4>2
      <3>2. CASE x # h
        <4>1. timers'[x] = timers[x]
          BY <1>1, <1>2, <3>2 DEF IInv, TypeOK
        <4>2. /\ timers[x] \in Submitted
              /\ HashAt(timers[x]) = x
              /\ timer[timers[x]] \notin {"none", "done", "stopped"}
              /\ \A t \in Submitted : HashAt(t) = x => t <= timers[x]
          BY <1>2, <2>2, <4>1 DEF IInv, TimersTrackLatest
        <4> QED
          BY <1>1, <1>3, <1>6, <3>2, <4>1, <4>2
      <3> QED
        BY <3>1, <3>2
    <2> QED
      BY <2>1, <2>2 DEF TimersTrackLatest, HashAt
  <1>11. NoLostResult'
    <2> SUFFICES ASSUME NEW x \in Hashes, next.entries[x] # None
                 PROVE  /\ timer'[next.entries[x]] = "done" =>
                              entry'[next.entries[x]] = publishedAt(next.entries[x])
                        /\ timer'[next.entries[x]] # "done" =>
                              entry'[next.entries[x]] = [Status |-> StatusAccepted, Ret |-> None]
                        /\ timer'[next.entries[x]] \notin {"none", "stopped"}
      BY <1>2 DEF NoLostResult, LRU!Has, Published
    <2>1. CASE x = h
      <3>1. next.entries[x] = s /\ timer'[s] = "armed"
        BY <1>4, <1>5, <2>1
      <3>2. entry'[s] = [Status |-> StatusAccepted, Ret |-> None]
        BY <1>1, <1>2 DEF IInv, TypeOK
      <3> QED
        BY <3>1, <3>2
    <2>2. CASE x # h
      <3> DEFINE t == store.entries[x]
      <3>1. next.entries[x] = t /\ t # None
        BY <1>4, <2>2
      <3>2. t \in Submitted /\ HashAt(t) = x /\ t \in Subs /\ t # s
        BY <1>1, <3>1 DEF IInv, LatestWins, LRU!Has
      <3>3. timer'[t] = timer[t] /\ item'[t] = item[t]
        BY <1>3, <1>6, <2>2, <3>2
      <3>4. entry'[t] = entry[t] /\ outcome'[t] = outcome[t]
        BY <1>2, <3>2 DEF IInv, TypeOK
      <3>5. /\ timer[t] = "done" => entry[t] = Published(t)
            /\ timer[t] # "done" => entry[t] = [Status |-> StatusAccepted, Ret |-> None]
            /\ timer[t] \notin {"none", "stopped"}
        BY <1>2, <3>1 DEF IInv, NoLostResult, LRU!Has
      <3> QED
        BY <3>1, <3>3, <3>4, <3>5 DEF Published
    <2> QED
      BY <2>1, <2>2
  <1>12. NothingStartsAfterStop' /\ StoreWellFormed'
    BY <1>2, <1>4 DEF NothingStartsAfterStop, StoreWellFormed
  <1> HIDE DEF h, s, old, next, hashAt, publishedAt
  <1> QED
    BY <1>7, <1>8, <1>8a, <1>8b, <1>9, <1>10, <1>11, <1>12 DEF IInv

(* Fire and Handle move one timer through states that no conjunct but the  *)
(* type and the bookkeeping of armed timers tells apart.                   *)
LEMMA CallbackKeeps ==
    ASSUME IInv, NEW s \in Subs, NEW state \in {"running", "returned"},
           timer[s] \in {"armed", "running"},
           timer' = [timer EXCEPT ![s] = state],
           outcome' \in [Subs -> Codes \cup {0}],
           \A t \in Subs \ {s} : outcome'[t] = outcome[t],
           state = "returned" => outcome'[s] \in Codes,
           UNCHANGED <<n, item, age, entry, timers, store, phase>>
    PROVE  IInv'
  <1>1. /\ timer' \in [Subs -> TimerStates]
        /\ timer'[s] = state
        /\ \A t \in Subs \ {s} : timer'[t] = timer[t]
    BY DEF IInv, TypeOK, TimerStates
  <1>2. TypeOK'
    BY <1>1 DEF IInv, TypeOK, Submitted
  <1>3. NothingStartsAfterStop' /\ Handled'
    BY <1>1 DEF IInv, NothingStartsAfterStop, Handled
  <1>3a. Fresh' /\ Aged'
    BY <1>1 DEF IInv, Fresh, Aged, Submitted
  <1>4. LatestWins' /\ StoreWellFormed'
    BY DEF IInv, LatestWins, StoreWellFormed, Submitted, HashAt
  <1>5. Submitted \subseteq Subs
    BY MaxSubmitsAssumption, SMT DEF IInv, TypeOK, Submitted, Subs
  <1>6. TimersTrackLatest'
    <2>1. \A t \in Submitted : timer'[t] = "armed" => timers[HashAt(t)] = t
      BY <1>1, <1>5 DEF IInv, TimersTrackLatest
    <2>2. \A x \in Hashes : timers[x] # None =>
             /\ timer'[timers[x]] \notin {"none", "done"}
             /\ timer'[timers[x]] = "stopped" => phase = "stopped"
      BY <1>1, <1>5 DEF IInv, TimersTrackLatest
    <2> QED
      BY <2>1, <2>2 DEF IInv, TimersTrackLatest, Submitted, HashAt
  <1>7. NoLostResult'
    <2> SUFFICES ASSUME NEW x \in Hashes, LRU!Has(store, x)
                 PROVE  LET t == store.entries[x]
                        IN  /\ timer'[t] = "done" => entry[t] = Published(t)'
                            /\ timer'[t] # "done" => entry[t] = [Status |-> StatusAccepted, Ret |-> None]
                            /\ timer'[t] \in {"none", "stopped"} => phase = "stopped"
      BY DEF NoLostResult, Published
    <2> DEFINE t == store.entries[x]
    <2>1. t \in Subs
      BY <1>5 DEF IInv, LatestWins
    <2>2. /\ timer[t] = "done" => entry[t] = Published(t)
          /\ timer[t] # "done" => entry[t] = [Status |-> StatusAccepted, Ret |-> None]
          /\ timer[t] \in {"none", "stopped"} => phase = "stopped"
      BY DEF IInv, NoLostResult
    <2>3. CASE t = s
      BY <1>1, <2>2, <2>3
    <2>4. CASE t # s
      <3>1. timer'[t] = timer[t] /\ Published(t)' = Published(t)
        BY <1>1, <2>1, <2>4 DEF Published
      <3> QED
        BY <2>2, <3>1
    <2> QED
      BY <2>3, <2>4
  <1> QED
    BY <1>2, <1>3, <1>3a, <1>4, <1>6, <1>7 DEF IInv

(* A step that reorders the history and touches nothing else.              *)
LEMMA GetKeeps ==
    ASSUME IInv, NEW h \in Hashes, store' = LRU!Touch(store, h),
           UNCHANGED <<n, item, timer, age, outcome, entry, timers, phase>>
    PROVE  IInv'
  <1>1. store' \in LRU!Caches /\ LRU!WellFormed(store') /\ store'.entries = store.entries
    BY LruTouch DEF IInv, TypeOK, StoreWellFormed
  <1>2. TypeOK' /\ StoreWellFormed'
    BY <1>1 DEF IInv, TypeOK, StoreWellFormed, Submitted
  <1>3. LatestWins'
    BY <1>1 DEF IInv, LatestWins, LRU!Has, Submitted, HashAt
  <1>4. NoLostResult'
    BY <1>1 DEF IInv, NoLostResult, LRU!Has, Published
  <1>5. Fresh' /\ Handled' /\ Aged' /\ TimersTrackLatest' /\ NothingStartsAfterStop'
    BY DEF IInv, Fresh, Handled, Aged, TimersTrackLatest, NothingStartsAfterStop,
       Submitted, HashAt
  <1> QED
    BY <1>2, <1>3, <1>4, <1>5 DEF IInv

LEMMA RunKeeps ==
    ASSUME IInv, Run
    PROVE  IInv'
  <1> DEFINE S == {timers[h] : h \in Hashes}
  <1>1. /\ timer' = Stop(S) /\ phase' = "stopped"
        /\ UNCHANGED <<n, item, age, outcome, entry, timers, store>>
    BY DEF Run
  <1> HIDE DEF S
  <1>2. /\ timer' \in [Subs -> TimerStates]
        /\ \A s \in Subs : s \in S => timer'[s] # "armed"
        /\ \A s \in Subs : timer[s] # "armed" => timer'[s] = timer[s]
        /\ \A s \in Subs : timer'[s] = "stopped" \/ timer'[s] = timer[s]
    BY <1>1, StopShape DEF IInv
  <1>3. Submitted \subseteq Subs /\ \A s \in Submitted : HashAt(s) \in Hashes
    BY MaxSubmitsAssumption, HashOfAssumption, SMT DEF IInv, TypeOK, Submitted, Subs, HashAt
  <1>4. TypeOK'
    BY <1>1, <1>2 DEF IInv, TypeOK, Submitted
  <1>5. Fresh' /\ Handled' /\ Aged'
    BY <1>1, <1>2 DEF IInv, Fresh, Handled, Aged, Submitted
  <1>6. LatestWins' /\ StoreWellFormed'
    BY <1>1 DEF IInv, LatestWins, StoreWellFormed, Submitted, HashAt
  <1>7. NothingStartsAfterStop'
    <2> SUFFICES ASSUME NEW s \in Subs, timer'[s] = "armed"
                 PROVE  FALSE
      BY DEF NothingStartsAfterStop
    <2>1. timer[s] = "armed"
      BY <1>2
    <2>2. s \in Submitted
      BY <2>1, MaxSubmitsAssumption, SMT DEF IInv, Fresh, Submitted, Subs, TypeOK
    <2>3. s \in S
      BY <1>3, <2>1, <2>2 DEF IInv, TimersTrackLatest, S
    <2> QED
      BY <1>2, <2>3
  <1>8. TimersTrackLatest'
    <2>1. \A s \in Submitted : timer'[s] # "armed"
      BY <1>1, <1>3, <1>7 DEF NothingStartsAfterStop
    <2>2. \A x \in Hashes : timers[x] # None => timer'[timers[x]] \notin {"none", "done"}
      BY <1>2, <1>3 DEF IInv, TimersTrackLatest
    <2> QED
      BY <1>1, <2>1, <2>2 DEF IInv, TimersTrackLatest, Submitted, HashAt
  <1>9. NoLostResult'
    <2>1. \A x \in Hashes : LRU!Has(store, x) =>
            /\ store.entries[x] \in Subs
            /\ timer'[store.entries[x]] = "done" => timer[store.entries[x]] = "done"
            /\ timer[store.entries[x]] = "done" => timer'[store.entries[x]] = "done"
      BY <1>2, <1>3 DEF IInv, LatestWins
    <2> QED
      BY <1>1, <2>1 DEF IInv, NoLostResult, Published
  <1> QED
    BY <1>4, <1>5, <1>6, <1>7, <1>8, <1>9 DEF IInv

(* A submission that has a timer has been made.                            *)
LEMMA TimedIsSubmitted ==
    ASSUME TypeOK, Fresh, NEW s \in Subs, timer[s] # "none"
    PROVE  s \in Submitted
  <1>1. n \in Nat /\ s \in Nat /\ s >= 1
    BY MaxSubmitsAssumption, SMT DEF TypeOK, Subs
  <1>2. ~(s > n)
    BY Zenon DEF Fresh
  <1> QED
    BY <1>1, <1>2, SMT DEF Submitted

(* The history after a callback: its entries are those before it.          *)
LEMMA CompleteStore ==
    ASSUME IInv, NEW s \in Subs, Complete(s)
    PROVE  /\ s \in Submitted /\ HashAt(s) \in Hashes
           /\ store' \in LRU!Caches
           /\ LRU!WellFormed(store')
           /\ store'.entries = store.entries
  <1> DEFINE h == HashAt(s)
             touched == LRU!Touch(store, h)
  <1>1. s \in Submitted
    <2>1. timer[s] # "none"
      BY DEF Complete
    <2> QED
      BY <2>1, TimedIsSubmitted DEF IInv
  <1>2. h \in Hashes
    BY <1>1, HashOfAssumption DEF HashAt, IInv, TypeOK
  <1>3. /\ touched \in LRU!Caches /\ LRU!WellFormed(touched)
        /\ touched.entries = store.entries
    BY <1>2, LruTouch DEF IInv, TypeOK, StoreWellFormed
  <1>4. CASE OwnsEntry(s)
    <2>1. store' = LRU!Add(touched, h, s)
      BY <1>4 DEF Complete
    <2>2. store.entries[h] = s /\ s # None
      BY <1>4, NoneIsNoSubmission DEF OwnsEntry
    <2>3. LRU!Has(touched, h)
      BY <1>3, <2>2 DEF LRU!Has
    <2>4. LRU!Add(touched, h, s).entries = [touched.entries EXCEPT ![h] = s]
      BY <2>3 DEF LRU!Add
    <2>5. [touched.entries EXCEPT ![h] = s] = store.entries
      BY <1>2, <1>3, <2>2 DEF LRU!Caches, IInv, TypeOK
    <2> HIDE DEF touched, h
    <2>6. LRU!Add(touched, h, s) \in LRU!Caches /\ LRU!WellFormed(LRU!Add(touched, h, s))
      BY <1>2, <1>3, LruAdd
    <2> QED
      BY <1>1, <1>2, <2>1, <2>4, <2>5, <2>6 DEF h
  <1>5. CASE ~OwnsEntry(s)
    BY <1>1, <1>2, <1>3, <1>5 DEF Complete
  <1> QED
    BY <1>4, <1>5

LEMMA CompleteKeeps ==
    ASSUME IInv, NEW s \in Subs, Complete(s)
    PROVE  IInv'
  <1>1. /\ s \in Submitted /\ HashAt(s) \in Hashes
        /\ store' \in LRU!Caches /\ LRU!WellFormed(store')
        /\ store'.entries = store.entries
        /\ Submitted \subseteq Subs
    BY CompleteStore, MaxSubmitsAssumption, SMT DEF IInv, TypeOK, Submitted, Subs
  <1>2. /\ timer[s] = "returned"
        /\ timer' = [timer EXCEPT ![s] = "done"]
        /\ entry' = IF OwnsEntry(s) THEN [entry EXCEPT ![s] = Outcome(s)] ELSE entry
        /\ timers' = IF OwnsTimer(s) THEN [timers EXCEPT ![HashAt(s)] = None] ELSE timers
        /\ UNCHANGED <<n, item, age, outcome, phase>>
    BY DEF Complete
  <1>3. /\ timer' \in [Subs -> TimerStates] /\ timer'[s] = "done"
        /\ \A t \in Subs \ {s} : timer'[t] = timer[t] /\ entry'[t] = entry[t]
        /\ OwnsEntry(s) => entry'[s] = Outcome(s)
    BY <1>2 DEF IInv, TypeOK, TimerStates
  <1>4. TypeOK'
    <2>1. Outcome(s) \in [Status : Codes \cup {0, StatusAccepted}, Ret : Items \cup {None}]
      BY <1>1 DEF Outcome, IInv, TypeOK
    <2>2. entry' \in [Subs -> [Status : Codes \cup {0, StatusAccepted},
                               Ret : Items \cup {None}]]
      BY <1>2, <2>1 DEF IInv, TypeOK
    <2>3. timers' \in [Hashes -> Subs \cup {None}]
      BY <1>2 DEF IInv, TypeOK
    <2> QED
      BY <1>1, <1>2, <1>3, <2>2, <2>3 DEF IInv, TypeOK, Submitted
  <1>5. Fresh' /\ Aged'
    BY <1>1, <1>2, <1>3 DEF IInv, Fresh, Aged, Submitted, TypeOK
  <1>6. Handled' /\ NothingStartsAfterStop'
    BY <1>2, <1>3 DEF IInv, Handled, NothingStartsAfterStop
  <1>7. LatestWins' /\ StoreWellFormed'
    BY <1>1, <1>2 DEF IInv, LatestWins, StoreWellFormed, LRU!Has, Submitted, HashAt
  <1>8. TimersTrackLatest'
    <2>1. ASSUME NEW t \in Submitted, timer'[t] = "armed"
          PROVE  timers'[HashAt(t)] = t
      <3>1. t # s /\ timer[t] = "armed"
        BY <1>1, <1>3, <2>1
      <3>2. timers[HashAt(t)] = t
        BY <3>1 DEF IInv, TimersTrackLatest
      <3>3. HashAt(t) \in Hashes
        BY HashOfAssumption DEF HashAt, IInv, TypeOK
      <3> QED
        BY <1>1, <1>2, <3>1, <3>2, <3>3 DEF OwnsTimer, IInv, TypeOK
    <2>2. ASSUME NEW x \in Hashes, timers'[x] # None
          PROVE  /\ timers'[x] = timers[x]
                 /\ timer'[timers[x]] = timer[timers[x]]
      <3>1. timers'[x] = timers[x]
        BY <1>1, <1>2, <2>2 DEF IInv, TypeOK
      <3>2. timers[x] \in Submitted /\ HashAt(timers[x]) = x
        BY <2>2, <3>1 DEF IInv, TimersTrackLatest
      <3>3. timers[x] # s
        BY <1>1, <1>2, <2>2, <3>1, <3>2 DEF OwnsTimer, IInv, TypeOK
      <3> QED
        BY <1>1, <1>3, <3>1, <3>2, <3>3
    <2>3. Submitted' = Submitted /\ \A t : HashAt(t)' = HashAt(t)
      BY <1>2 DEF Submitted, HashAt
    <2>4. ASSUME NEW x \in Hashes, timers'[x] # None
          PROVE  /\ timers'[x] \in Submitted /\ HashAt(timers'[x]) = x
                 /\ timer'[timers'[x]] \notin {"none", "done"}
                 /\ timer'[timers'[x]] = "stopped" => phase = "stopped"
                 /\ \A t \in Submitted : HashAt(t) = x => t <= timers'[x]
      <3>1. timers'[x] = timers[x] /\ timer'[timers[x]] = timer[timers[x]]
        BY <2>2, <2>4
      <3>2. timers[x] # None
        BY <2>4, <3>1
      <3>3. /\ timers[x] \in Submitted /\ HashAt(timers[x]) = x
            /\ timer[timers[x]] \notin {"none", "done"}
            /\ timer[timers[x]] = "stopped" => phase = "stopped"
            /\ \A t \in Submitted : HashAt(t) = x => t <= timers[x]
        BY <3>2 DEF IInv, TimersTrackLatest
      <3> QED
        BY <3>1, <3>3
    <2>5. phase' = phase
      BY <1>2
    <2> QED
      BY <2>1, <2>3, <2>4, <2>5 DEF TimersTrackLatest
  <1>9. NoLostResult'
    <2> SUFFICES ASSUME NEW x \in Hashes, LRU!Has(store, x)
                 PROVE  LET t == store.entries[x]
                        IN  /\ timer'[t] = "done" => entry'[t] = Published(t)
                            /\ timer'[t] # "done" => entry'[t] = [Status |-> StatusAccepted, Ret |-> None]
                            /\ timer'[t] \in {"none", "stopped"} => phase = "stopped"
      <3>1. /\ \A x \in Hashes : LRU!Has(store', x) <=> LRU!Has(store, x)
            /\ \A t : Published(t)' = Published(t)
            /\ phase' = phase
        BY <1>1, <1>2 DEF LRU!Has, Published
      <3> QED
        BY <1>1, <3>1 DEF NoLostResult
    <2> DEFINE t == store.entries[x]
    <2>1. t \in Subs /\ HashAt(t) = x
      BY <1>1 DEF IInv, LatestWins
    <2>2. /\ timer[t] = "done" => entry[t] = Published(t)
          /\ timer[t] # "done" => entry[t] = [Status |-> StatusAccepted, Ret |-> None]
          /\ timer[t] \in {"none", "stopped"} => phase = "stopped"
      BY DEF IInv, NoLostResult
    <2>3. CASE t = s
      <3>1. entry'[s] = Outcome(s)
        BY <1>3, <2>1, <2>3 DEF OwnsEntry
      <3>2. entry[s] = [Status |-> StatusAccepted, Ret |-> None]
        BY <1>2, <2>2, <2>3
      <3>3. Outcome(s) = Published(s)
        <4> DEFINE e == [Status |-> StatusAccepted, Ret |-> None]
        <4>1. e.Ret = None
          OBVIOUS
        <4> HIDE DEF e
        <4>2. entry[s] = e
          BY <3>2 DEF e
        <4> QED
          BY <4>1, <4>2 DEF Outcome, Published
      <3> QED
        BY <1>3, <2>3, <3>1, <3>3
    <2>4. CASE t # s
      BY <1>2, <1>3, <2>1, <2>2, <2>4
    <2> QED
      BY <2>3, <2>4
  <1> QED
    BY <1>4, <1>5, <1>6, <1>7, <1>8, <1>9 DEF IInv

LEMMA TickKeeps ==
    ASSUME IInv, Tick
    PROVE  IInv'
  <1>1. age' \in [Subs -> 0 .. Delay]
    BY DelayAssumption, SMT DEF Tick, IInv, TypeOK
  <1>2. Aged'
    <2>1. Submitted \subseteq Subs
      BY MaxSubmitsAssumption, SMT DEF IInv, TypeOK, Submitted, Subs
    <2>2. \A s \in Submitted : /\ age[s] \in Nat
                               /\ age'[s] = IF age[s] < Delay THEN age[s] + 1 ELSE age[s]
      BY <2>1, DelayAssumption, SMT DEF Tick, IInv, TypeOK
    <2>3. Submitted' = Submitted
      BY DEF Tick, Submitted
    <2> QED
      BY <2>2, <2>3, DelayAssumption, SMT DEF IInv, Aged
  <1>3. TypeOK' /\ StoreWellFormed'
    BY <1>1 DEF Tick, IInv, TypeOK, Submitted, StoreWellFormed
  <1>4. Fresh' /\ Handled' /\ NothingStartsAfterStop'
    BY DEF Tick, IInv, Fresh, Handled, NothingStartsAfterStop
  <1>5. LatestWins' /\ TimersTrackLatest' /\ NoLostResult'
    BY DEF Tick, IInv, LatestWins, TimersTrackLatest, NoLostResult, Submitted,
       HashAt, Published
  <1> QED
    BY <1>2, <1>3, <1>4, <1>5 DEF IInv

LEMMA NextKeeps ==
    ASSUME IInv, [Next]_vars
    PROVE  IInv'
  <1>1. ASSUME NEW i \in Items, Submit(i) PROVE IInv'
    BY <1>1, SubmitKeeps
  <1>2. CASE Tick
    BY <1>2, TickKeeps
  <1>3. ASSUME NEW s \in Subs, Fire(s) PROVE IInv'
    BY <1>3, CallbackKeeps DEF Fire, IInv, TypeOK
  <1>4. ASSUME NEW s \in Subs, NEW c \in Codes, Handle(s, c) PROVE IInv'
    <2>1. /\ outcome' \in [Subs -> Codes \cup {0}]
          /\ outcome'[s] = c
          /\ \A t \in Subs \ {s} : outcome'[t] = outcome[t]
      BY <1>4 DEF Handle, IInv, TypeOK
    <2> QED
      BY <1>4, <2>1, CallbackKeeps DEF Handle
  <1>5. ASSUME NEW s \in Subs, Complete(s) PROVE IInv'
    BY <1>5, CompleteKeeps
  <1>6. ASSUME NEW h \in Hashes, Get(h) PROVE IInv'
    BY <1>6, GetKeeps DEF Get
  <1>7. CASE Shutdown
    BY <1>7 DEF Shutdown, IInv, TypeOK, Fresh, Handled, Aged, LatestWins,
       TimersTrackLatest, NoLostResult, NothingStartsAfterStop, StoreWellFormed,
       Submitted, HashAt, Published
  <1>8. CASE Run
    BY <1>8, RunKeeps
  <1>9. CASE UNCHANGED vars
    BY <1>9 DEF vars, IInv, TypeOK, Fresh, Handled, Aged, LatestWins,
       TimersTrackLatest, NoLostResult, NothingStartsAfterStop, StoreWellFormed,
       Submitted, HashAt, Published
  <1> QED
    BY <1>1, <1>2, <1>3, <1>4, <1>5, <1>6, <1>7, <1>8, <1>9 DEF Next

LEMMA Inductive == Spec => []IInv
  <1>1. IInv /\ [Next]_vars => IInv'
    BY NextKeeps
  <1> QED
    BY InitIInv, <1>1, PTL DEF Spec

-----------------------------------------------------------------------------
(* Type correctness of the queue.                                          *)
THEOREM QueueTypeOK == Spec => []TypeOK
  BY Inductive, PTL DEF IInv

(* Whatever the order in which overlapping callbacks take the mutex, a     *)
(* request ID answers for the newest request submitted under it.           *)
THEOREM QueueLatestWins == Spec => []LatestWins
  BY Inductive, PTL DEF IInv

(* The pointer comparisons of the callback keep q.timers exact: Submit and *)
(* the shutdown goroutine find every armed timer in it.                    *)
THEOREM QueueTimersTrackLatest == Spec => []TimersTrackLatest
  BY Inductive, PTL DEF IInv

(* A pending entry in the history has a callback that will publish it, and *)
(* a finished callback has published the handler's answer.                 *)
THEOREM QueueNoLostResult == Spec => []NoLostResult
  BY Inductive, PTL DEF IInv

(* After run returns no handler starts.                                    *)
THEOREM QueueNothingStartsAfterStop == Spec => []NothingStartsAfterStop
  BY Inductive, PTL DEF IInv

(* The map and the list of the history agree, and stay within its size.    *)
THEOREM QueueStoreWellFormed == Spec => []StoreWellFormed
  BY Inductive, PTL DEF IInv

(* Only Fire starts a callback, and it does so for the newest submission   *)
(* of a hash once it is due; by Aged every older one is due too.           *)
LEMMA QuietStep ==
    ASSUME IInv, [Next]_vars, NEW s \in Subs, timer[s] = "armed",
           timer'[s] = "running", NEW t \in Submitted, HashAt(t) = HashAt(s)
    PROVE  t <= s /\ age[t] >= Delay
  <1>1. Fire(s)
    <2>1. CASE \E i \in Items : Submit(i)
      <3>1. PICK i \in Items : Submit(i)
        BY <2>1
      <3>2. \A r \in Subs : \/ timer'[r] = "armed"
                            \/ timer'[r] = Stop({timers[HashOf[i]]})[r]
        BY <3>1, StopShape DEF Submit, IInv
      <3>3. \A r \in Subs : \/ Stop({timers[HashOf[i]]})[r] = "stopped"
                            \/ Stop({timers[HashOf[i]]})[r] = timer[r]
        BY StopShape DEF IInv
      <3>4. timer'[s] \in {"armed", "stopped", timer[s]}
        BY <3>2, <3>3
      <3> QED
        BY <3>4
    <2>2. CASE \E r \in Subs : Fire(r)
      BY <2>2 DEF Fire, IInv, TypeOK
    <2>3. CASE \E r \in Subs, c \in Codes : Handle(r, c)
      BY <2>3 DEF Handle, IInv, TypeOK
    <2>4. CASE \E r \in Subs : Complete(r)
      BY <2>4 DEF Complete, IInv, TypeOK
    <2>5. CASE Run
      BY <2>5, StopShape DEF Run, IInv
    <2>6. CASE Tick \/ Shutdown \/ (\E h \in Hashes : Get(h)) \/ UNCHANGED vars
      BY <2>6 DEF Tick, Shutdown, Get, vars
    <2> QED
      BY <2>1, <2>2, <2>3, <2>4, <2>5, <2>6 DEF Next
  <1>2. s \in Submitted
    BY MaxSubmitsAssumption, SMT DEF IInv, Fresh, Submitted, Subs, TypeOK
  <1>3. timers[HashAt(s)] = s /\ HashAt(s) \in Hashes /\ s # None
    BY <1>2, HashOfAssumption, NoneIsNoSubmission
       DEF IInv, TimersTrackLatest, HashAt, TypeOK
  <1>4. t <= s
    BY <1>3 DEF IInv, TimersTrackLatest
  <1>5. age[t] >= age[s] /\ age[s] >= Delay
    BY <1>1, <1>2, <1>4 DEF IInv, Aged, Fire
  <1>6. age[t] \in Nat /\ age[s] \in Nat
    BY <1>2, MaxSubmitsAssumption, DelayAssumption, SMT DEF IInv, TypeOK, Submitted, Subs
  <1> QED
    BY <1>4, <1>5, <1>6, DelayAssumption, SMT

(* A handler starts only after Delay without a request of its hash, and    *)
(* only for the last one.                                                  *)
THEOREM QueueQuietPeriod == Spec => QuietPeriod
  <1> DEFINE Quiet ==
        \A s \in Subs :
          (timer[s] = "armed" /\ timer'[s] = "running") =>
              \A t \in Submitted : HashAt(t) = HashAt(s) => t <= s /\ age[t] >= Delay
  <1>1. IInv /\ [Next]_vars => [Quiet]_vars
    BY QuietStep
  <1> QED
    BY Inductive, <1>1, PTL DEF Spec, QuietPeriod

-----------------------------------------------------------------------------
(* Room for every request ID: the history is as large as the set of        *)
(* hashes, and no handler reports 404 itself.                              *)
Roomy ==
    /\ IsFiniteSet(Hashes) /\ Cardinality(Hashes) <= Capacity
    /\ StatusNotFound \notin ErrCodes

(* Add then evicts nothing: a history without h has a place for it.        *)
LEMMA AddFits ==
    ASSUME Roomy, NEW c \in LRU!Caches, LRU!WellFormed(c),
           NEW h \in Hashes, NEW s \in Subs, NEW x \in Hashes, LRU!Has(c, x)
    PROVE  LRU!Has(LRU!Add(c, h, s), x)
  <1>1. /\ c.items \in Seq(Hashes) /\ c.entries \in [Hashes -> Subs \cup {None}]
        /\ s # None
    BY NoneIsNoSubmission DEF LRU!Caches
  <1>2. CASE LRU!Has(c, h)
    <2>1. LRU!Add(c, h, s).entries = [c.entries EXCEPT ![h] = s]
      BY <1>2 DEF LRU!Add
    <2> QED
      BY <1>1, <2>1 DEF LRU!Has
  <1>3. CASE ~LRU!Has(c, h)
    <2> DEFINE f == c.items
               top == Len(f)
    <2>1. top \in Nat /\ DOMAIN f = 1 .. top /\ f \in [1 .. top -> Hashes]
      BY <1>1, SMT
    <2>2. f \in Injection(1 .. top, Hashes) /\ f \notin Surjection(1 .. top, Hashes)
      <3>1. \A i, j \in 1 .. top : f[i] = f[j] => i = j
        BY <2>1 DEF LRU!WellFormed
      <3>2. \A i \in 1 .. top : f[i] # h
        BY <1>3, <2>1 DEF LRU!WellFormed
      <3> HIDE DEF f, top
      <3>3. f \in Injection(1 .. top, Hashes)
        BY <2>1, <3>1 DEF Injection, IsInjective
      <3> QED
        BY <3>2, <3>3 DEF Surjection
    <2> HIDE DEF f, top
    <2>3. IsFiniteSet(Hashes) /\ Cardinality(Hashes) <= Capacity
      BY DEF Roomy
    <2>4. /\ Cardinality(1 .. top) <= Cardinality(Hashes)
          /\ Cardinality(1 .. top) # Cardinality(Hashes)
      BY <2>2, <2>3, FS_Injection
    <2>5. Cardinality(1 .. top) = top /\ Cardinality(Hashes) \in Nat
      BY <2>1, <2>3, FS_Interval, FS_CardinalityType, SMT
    <2>6. top + 1 <= Capacity
      BY <2>1, <2>3, <2>4, <2>5, HistoryAssumption, SMT
    <2>7. Len(LRU!PushFront(c, h, s).items) = top + 1
      BY <1>1, SMT DEF LRU!PushFront, f, top
    <2>8. ~LRU!Overflows(LRU!PushFront(c, h, s))
      BY <2>1, <2>6, <2>7, HistoryAssumption, SMT DEF LRU!Overflows
    <2>9. LRU!Add(c, h, s).entries = [c.entries EXCEPT ![h] = s]
      BY <1>3, <2>8 DEF LRU!Add, LRU!PushFront
    <2> QED
      BY <1>1, <2>9 DEF LRU!Has
  <1> QED
    BY <1>2, <1>3

(* Every submission's hash is in the history.                              *)
Remembered == \A s \in Submitted : LRU!Has(store, HashAt(s))

LEMMA StaysRemembered ==
    ASSUME Roomy, IInv, IInv', Remembered, [Next]_vars
    PROVE  Remembered'
  <1>1. ASSUME n' = n, item' = item,
               \A h \in Hashes : LRU!Has(store, h) => LRU!Has(store', h)
        PROVE  Remembered'
    <2>1. \A s \in Submitted : HashAt(s) \in Hashes
      BY HashOfAssumption DEF IInv, TypeOK, HashAt
    <2> QED
      BY <1>1, <2>1 DEF Remembered, Submitted, HashAt
  <1>2. store \in LRU!Caches /\ LRU!WellFormed(store)
    BY DEF IInv, TypeOK, StoreWellFormed
  <1>3. ASSUME NEW i \in Items, Submit(i) PROVE Remembered'
    <2>1. /\ HashOf[i] \in Hashes /\ n \in Nat /\ n + 1 \in Subs
          /\ Submitted' = 1 .. n + 1 /\ Submitted = 1 .. n
      <3>1. n < MaxSubmits /\ n' = n + 1
        BY <1>3 DEF Submit
      <3>2. n \in 0 .. MaxSubmits /\ HashOf[i] \in Hashes
        BY HashOfAssumption, Zenon DEF IInv, TypeOK
      <3> QED
        BY <3>1, <3>2, MaxSubmitsAssumption, SMT DEF Subs, Submitted
    <2>2. /\ store' = LRU!Add(store, HashOf[i], n + 1)
          /\ item'[n + 1] = i /\ \A t \in 1 .. n : item'[t] = item[t]
      <3>1. /\ store' = LRU!Add(store, HashOf[i], n + 1)
            /\ item' = [t \in 1 .. n + 1 |-> IF t = n + 1 THEN i ELSE item[t]]
        BY <1>3, Zenon DEF Submit
      <3> QED
        BY <2>1, <3>1, SMT
    <2>3. \A h \in Hashes : LRU!Has(store, h) => LRU!Has(store', h)
      BY <1>2, <2>1, <2>2, AddFits
    <2>4. LRU!Has(store', HashOf[i])
      BY <1>2, <2>1, <2>2, LruAdd, NoneIsNoSubmission DEF LRU!Has
    <2> SUFFICES ASSUME NEW t \in Submitted' PROVE LRU!Has(store', HashOf[item'[t]])
      BY DEF Remembered, HashAt
    <2>5. CASE t = n + 1
      BY <2>2, <2>4, <2>5
    <2>6. CASE t \in 1 .. n
      <3>1. HashOf[item[t]] \in Hashes /\ LRU!Has(store, HashOf[item[t]])
        BY <2>1, <2>6, HashOfAssumption DEF IInv, TypeOK, Remembered, HashAt
      <3> QED
        BY <2>2, <2>3, <2>6, <3>1
    <2> QED
      BY <2>1, <2>5, <2>6, SMT
  <1>4. ASSUME NEW h \in Hashes, Get(h) PROVE Remembered'
    <2>1. store'.entries = store.entries
      BY <1>2, <1>4, LruTouch DEF Get
    <2> QED
      BY <1>1, <1>4, <2>1 DEF Get, LRU!Has
  <1>5. ASSUME NEW s \in Subs, Complete(s) PROVE Remembered'
    <2>1. HashAt(s) \in Hashes
      BY <1>5, CompleteStore
    <2> DEFINE d == LRU!Touch(store, HashAt(s))
    <2>2. d \in LRU!Caches /\ LRU!WellFormed(d) /\ d.entries = store.entries
      BY <1>2, <2>1, LruTouch
    <2>3. store' = d \/ store' = LRU!Add(d, HashAt(s), s)
      BY <1>5 DEF Complete
    <2> HIDE DEF d
    <2>4. \A h \in Hashes : LRU!Has(store, h) => LRU!Has(d, h)
      BY <2>2 DEF LRU!Has
    <2>5. \A h \in Hashes : LRU!Has(store, h) => LRU!Has(store', h)
      BY <2>1, <2>2, <2>3, <2>4, AddFits
    <2> QED
      BY <1>1, <1>5, <2>5 DEF Complete
  <1>6. ASSUME UNCHANGED <<n, item, store>> PROVE Remembered'
    BY <1>1, <1>6
  <1> QED
    BY <1>3, <1>4, <1>5, <1>6
       DEF Next, vars, Tick, Fire, Handle, Shutdown, Run

(* With room for every request ID no poll is told 404 while a handler      *)
(* runs: eviction from a full history, or a handler's own 404, is the only *)
(* way in which getresult contradicts docs/providers/test.md.              *)
THEOREM QueueInProgressIsAccepted ==
    ASSUME Roomy PROVE Spec => []InProgressIsAccepted
  <1>1. Init => Remembered
    BY SMT DEF Init, Remembered, Submitted
  <1>2. IInv /\ IInv' /\ Remembered /\ [Next]_vars => Remembered'
    BY StaysRemembered
  <1>3. IInv /\ Remembered => InProgressIsAccepted
    <2> SUFFICES ASSUME IInv, Remembered, NEW s \in Submitted
                 PROVE  View(HashAt(s)).Status # StatusNotFound
      BY DEF InProgressIsAccepted
    <2>1. HashAt(s) \in Hashes /\ LRU!Has(store, HashAt(s))
      BY HashOfAssumption DEF IInv, TypeOK, HashAt, Remembered
    <2>2. store.entries[HashAt(s)] \in Subs
      BY <2>1 DEF IInv, TypeOK, LRU!Caches, LRU!Has
    <2>3. View(HashAt(s)).Status \in Codes \cup {0, StatusAccepted}
      BY <2>1, <2>2 DEF View, IInv, TypeOK
    <2> QED
      BY <2>3, SMT DEF Roomy, Codes, StatusNotFound, StatusAccepted, StatusOK
  <1> QED
    BY <1>1, <1>2, <1>3, Inductive, PTL DEF Spec

-----------------------------------------------------------------------------
(* Steps that neither change the entries of the history nor the result of  *)
(* a finished callback are invisible on the board.                         *)
LEMMA SlotsUnchanged ==
    ASSUME IInv, store'.entries = store.entries, entry' = entry, n' = n,
           \A s \in Subs : timer'[s] = "done" <=> timer[s] = "done"
    PROVE  UNCHANGED Board!vars
  <1>1. \A h \in Hashes : store.entries[h] # None => store.entries[h] \in Subs
    BY DEF IInv, TypeOK, LRU!Caches
  <1>2. Slots' = Slots
    BY <1>1 DEF Slots
  <1> QED
    BY <1>2 DEF Board!vars

(* Submit takes the slot of its hash; what the history evicts is forgotten.*)
LEMMA SubmitAccepts ==
    ASSUME IInv, NEW i \in Items, Submit(i)
    PROVE  Board!Accept(HashOf[i])
  <1>1. PICK h : h = HashOf[i]
    OBVIOUS
  <1>2. PICK s : s = n + 1
    OBVIOUS
  <1>3. PICK next : next = LRU!Add(store, h, s)
    OBVIOUS
  <1>4. /\ h \in Hashes /\ n \in Nat /\ s \in Subs /\ s \notin Submitted
        /\ Submitted \subseteq Subs
    BY <1>1, <1>2, HashOfAssumption, MaxSubmitsAssumption, SMT
       DEF Submit, IInv, TypeOK, Subs, Submitted
  <1>5. /\ n' = s /\ store' = next /\ timer' = [Stop({timers[h]}) EXCEPT ![s] = "armed"]
        /\ entry' = [entry EXCEPT ![s] = [Status |-> StatusAccepted, Ret |-> None]]
    BY <1>1, <1>2, <1>3 DEF Submit
  <1>6. /\ next.entries[h] = s
        /\ \A x \in Hashes \ {h} : next.entries[x] \in {store.entries[x], None}
    BY <1>3, <1>4, LruAdd, SMT DEF IInv, TypeOK, StoreWellFormed
  <1>7. /\ timer'[s] = "armed"
        /\ \A t \in Submitted : /\ timer'[t] = "done" <=> timer[t] = "done"
                                /\ entry'[t] = entry[t]
    <2>1. Stop({timers[h]}) \in [Subs -> TimerStates]
      BY StopShape DEF IInv
    <2>2. \A t \in Submitted : timer'[t] = Stop({timers[h]})[t]
      BY <1>4, <1>5, <2>1
    <2>3. timer'[s] = "armed"
      BY <1>4, <1>5, <2>1
    <2>4. \A t \in Submitted : Stop({timers[h]})[t] = "done" <=> timer[t] = "done"
      <3>1. \A t \in Subs : /\ timer[t] # "armed" => Stop({timers[h]})[t] = timer[t]
                            /\ Stop({timers[h]})[t] = "stopped" \/ Stop({timers[h]})[t] = timer[t]
        BY StopShape DEF IInv
      <3> QED
        BY <1>4, <3>1, Zenon
    <2>5. \A t \in Submitted : entry'[t] = entry[t]
      BY <1>4, <1>5 DEF IInv, TypeOK
    <2> QED
      BY <2>2, <2>3, <2>4, <2>5
  <1> DEFINE forgotten == {x \in Hashes \ {h} : next.entries[x] = None}
             after == [g \in Hashes |->
                          IF g = h THEN [owner |-> n + 1, result |-> NoCompletion]
                          ELSE IF g \in forgotten THEN Board!Absent ELSE Slots[g]]
  <1>8. ASSUME NEW g \in Hashes
        PROVE  Slots'[g] = after[g]
    <2>1. Slots'[g] = [owner  |-> next.entries[g],
                       result |-> IF /\ next.entries[g] # None
                                     /\ timer'[next.entries[g]] = "done"
                                  THEN entry'[next.entries[g]] ELSE NoCompletion]
      BY <1>5, SMT DEF Slots
    <2>2. CASE g = h
      BY <1>2, <1>6, <1>7, <2>1, <2>2
    <2>3. CASE g \in forgotten
      BY <2>1, <2>3 DEF Board!Absent, None
    <2>4. CASE g # h /\ g \notin forgotten
      <3>1. next.entries[g] = store.entries[g] /\ store.entries[g] # None
        BY <1>6, <2>4
      <3>2. store.entries[g] \in Submitted
        BY <3>1 DEF IInv, LatestWins, LRU!Has
      <3>3. Slots'[g] = Slots[g]
        BY <1>7, <2>1, <3>1, <3>2 DEF Slots
      <3> QED
        BY <2>4, <3>3
    <2> QED
      BY <2>2, <2>3, <2>4
  <1>9. Slots' = after
    <2>1. Slots' = [g \in Hashes |-> Slots'[g]]
      BY DEF Slots
    <2> HIDE DEF after
    <2>2. after = [g \in Hashes |-> after[g]]
      BY DEF after
    <2> QED
      BY <1>8, <2>1, <2>2
  <1>10. forgotten \in SUBSET (Hashes \ {h})
    OBVIOUS
  <1>11. n' = n + 1
    BY <1>2, <1>5
  <1> HIDE DEF forgotten
  <1> QED
    BY <1>1, <1>9, <1>10, <1>11 DEF Board!Accept

(* The callback of the owner publishes; that of anyone else is invisible.  *)
LEMMA CompletePublishes ==
    ASSUME IInv, NEW s \in Subs, Complete(s)
    PROVE  Board!Next \/ UNCHANGED Board!vars
  <1>1. /\ s \in Submitted /\ HashAt(s) \in Hashes
        /\ store'.entries = store.entries /\ n' = n
        /\ timer[s] = "returned" /\ s # None
    BY CompleteStore, NoneIsNoSubmission DEF Complete
  <1>2. timer'[s] = "done" /\ \A t \in Subs \ {s} : timer'[t] = timer[t]
    BY DEF Complete, IInv, TypeOK
  <1>3. \A h \in Hashes : store.entries[h] # None =>
            store.entries[h] \in Subs /\ HashAt(store.entries[h]) = h
    <2>1. Submitted \subseteq Subs
      BY MaxSubmitsAssumption, SMT DEF IInv, TypeOK, Submitted, Subs
    <2>2. \A h \in Hashes : store.entries[h] # None => LRU!Has(store, h)
      BY DEF LRU!Has
    <2> QED
      BY <2>1, <2>2 DEF IInv, LatestWins
  <1>4. CASE OwnsEntry(s)
    <2>1. PICK h \in Hashes : h = HashAt(s)
      BY <1>1
    <2>2. store.entries[h] = s
      BY <1>4, <2>1 DEF OwnsEntry
    <2>3. /\ entry'[s] = Outcome(s)
          /\ \A t \in Subs \ {s} : entry'[t] = entry[t]
      BY <1>4 DEF Complete, IInv, TypeOK
    <2>4. Outcome(s) \in [Status : Codes, Ret : Items \cup {None}]
      BY <1>1 DEF Outcome, IInv, Handled, TypeOK
    <2>5. Slots[h] = [owner |-> s, result |-> NoCompletion]
      BY <1>1, <2>2 DEF Slots
    <2>6. Slots'[h] = [owner |-> s, result |-> Outcome(s)]
      BY <1>1, <1>2, <2>2, <2>3 DEF Slots
    <2>7. \A g \in Hashes \ {h} : Slots'[g] = Slots[g]
      <3> SUFFICES ASSUME NEW g \in Hashes \ {h} PROVE Slots'[g] = Slots[g]
        OBVIOUS
      <3>1. store.entries[g] # None => store.entries[g] \in Subs \ {s}
        BY <1>3, <2>1
      <3> QED
        BY <1>1, <1>2, <2>3, <3>1 DEF Slots
    <2>8. Slots' = [Slots EXCEPT ![h].result = Outcome(s)]
      <3>1. /\ Slots = [g \in Hashes |-> Slots[g]]
            /\ Slots' = [g \in Hashes |-> Slots'[g]]
        BY DEF Slots
      <3> DEFINE new == [Slots EXCEPT ![h].result = Outcome(s)]
      <3>2. new = [g \in Hashes |-> new[g]]
        BY <3>1
      <3>3. new[h] = [owner |-> s, result |-> Outcome(s)]
        BY <2>5, <3>1, SMT
      <3>4. \A g \in Hashes \ {h} : new[g] = Slots[g]
        BY <3>1
      <3> HIDE DEF new
      <3>5. \A g \in Hashes : Slots'[g] = new[g]
        BY <2>6, <2>7, <3>3, <3>4
      <3>6. Slots' = new
        BY <3>1, <3>2, <3>5
      <3> QED
        BY <3>6 DEF new
    <2>9. Board!Publish(h, Outcome(s))
      BY <1>1, <2>5, <2>8, SMT DEF Board!Publish, None
    <2> QED
      BY <2>4, <2>9 DEF Board!Next
  <1>5. CASE ~OwnsEntry(s)
    <2>1. \A h \in Hashes : store.entries[h] # s
      BY <1>1, <1>3, <1>5 DEF OwnsEntry
    <2>2. entry' = entry
      BY <1>5 DEF Complete
    <2>3. Slots' = Slots
      BY <1>1, <1>2, <1>3, <2>1, <2>2 DEF Slots
    <2> QED
      BY <1>1, <2>3 DEF Board!vars
  <1> QED
    BY <1>4, <1>5

(* The queue implements ResultBoard: with its timers, callbacks, mutex and *)
(* eviction hidden, all a client can observe is requests taking slots and  *)
(* owners publishing once.                                                 *)
THEOREM QueueImplementsResultBoard == Spec => ImplementsResultBoard
  <1>1. Init => Board!Init
    BY SMT DEF Init, Board!Init, Board!Absent, Slots, LRU!EmptyCache, None
  <1>2. ASSUME IInv, [Next]_vars
        PROVE  [Board!Next]_(Board!vars)
    <2>1. CASE \E i \in Items : Submit(i)
      BY <1>2, <2>1, SubmitAccepts, HashOfAssumption DEF Board!Next
    <2>2. CASE \E s \in Subs : Complete(s)
      BY <1>2, <2>2, CompletePublishes
    <2>3. CASE \E h \in Hashes : Get(h)
      BY <1>2, <2>3, LruTouch, SlotsUnchanged DEF Get, IInv, TypeOK, StoreWellFormed
    <2>4. CASE \E s \in Subs : Fire(s)
      BY <1>2, <2>4, SlotsUnchanged DEF Fire, IInv, TypeOK
    <2>5. CASE \E s \in Subs, c \in Codes : Handle(s, c)
      BY <1>2, <2>5, SlotsUnchanged DEF Handle, IInv, TypeOK
    <2>6. CASE Run
      BY <1>2, <2>6, SlotsUnchanged, StopShape, SMT DEF Run, IInv
    <2>7. CASE Tick \/ Shutdown \/ UNCHANGED vars
      BY <1>2, <2>7, SlotsUnchanged DEF Tick, Shutdown, vars
    <2> QED
      BY <1>2, <2>1, <2>2, <2>3, <2>4, <2>5, <2>6, <2>7 DEF Next
  <1>3. IInv /\ [Next]_vars => [Board!Next]_(Board!vars)
    BY <1>2
  <1> QED
    BY <1>1, <1>3, Inductive, PTL DEF Spec, ImplementsResultBoard, Board!Spec
=============================================================================
