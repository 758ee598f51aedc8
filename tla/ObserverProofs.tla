--------------------------- MODULE ObserverProofs ---------------------------
(***************************************************************************)
(* The node observer and its HTTP client.  The reconciler loses no event,  *)
(* repeats no accepted request, and keeps its retry delays, for any        *)
(* informers, delays and number of events, and whatever the API, the       *)
(* broker and Stop do.  DoRequestWithRetries, for every number of          *)
(* attempts, every cap on the wait, every set of status codes and every    *)
(* set of Retry-After headers: how long a call may wait, when it may give  *)
(* up, and how soon it lets a caller go that has given up.                 *)
(***************************************************************************)
EXTENDS StatusInformer, HttpRetry, FiniteSetTheorems, TLAPS

-----------------------------------------------------------------------------
(* The reconciler (StatusInformer).                                        *)

Numbers ==
    /\ requested \in Nat /\ completed \in Nat /\ attempted \in Nat
    /\ generation \in Nat /\ sentAt \in Nat /\ acked \in Nat /\ accepts \in Nat
    /\ delayed \in Nat \cup {NoDelay}
    /\ retryLeft \in Nat /\ quiet \in Nat /\ owed \in 0..MaxDelay
    /\ dirty \in BOOLEAN
    /\ sender = [i \in Names |-> sender[i]]

(* Something other than the worker will bring it back.                     *)
Pending ==
    \/ \E i \in Names : sender[i] = "adding"
    \/ dirty
    \/ delayed # NoDelay

(* The worker's attempt is for a generation that is neither completed nor  *)
(* ahead of the events, and an event that came after it is pending.        *)
Attempting ==
    worker \in {"reconcile", "sent"} =>
        /\ completed < generation /\ generation <= requested
        /\ worker = "sent" => generation <= sentAt /\ sentAt <= requested
        /\ requested > generation /\ ~Cancelled => Pending

(* retryNotBefore keeps the distance the last outcome asks for.            *)
Spaced == attempted > completed => quiet + retryLeft >= owed

Inv == Numbers /\ CompletedIsBacked /\ NoLostEvent /\ Attempting /\ Spaced

-----------------------------------------------------------------------------
(* The initial states.                                                     *)
LEMMA InitInv == Init => Inv
<1> SUFFICES ASSUME Init PROVE Inv
  OBVIOUS
<1>1. MaxDelay \in Nat
  BY DelayAssumption DEF MaxDelay
<1>2. Numbers
  <2>1. owed \in 0..MaxDelay
    BY <1>1 DEF Init
  <2>2. sender = [i \in Names |-> sender[i]]
    BY DEF Init
  <2>3. QED
    BY <2>1, <2>2 DEF Init, Numbers
<1>3. QED
  BY <1>2 DEF Init, Inv, CompletedIsBacked, NoLostEvent, Attempting, Spaced

(* AddAfter leaves an entry pending, unless Stop has come.                 *)
LEMMA AddAfterPending ==
    ASSUME NEW d \in Nat, delayed \in Nat \cup {NoDelay}, AddAfter(d)
    PROVE  /\ delayed' \in Nat \cup {NoDelay}
           /\ ~Cancelled => delayed' # NoDelay
BY DEF AddAfter, Sooner, NoDelay, Cancelled, QueueShutDown

(* Callbacks and the queue's waiting loop hand the key over: what was      *)
(* pending stays pending.                                                  *)
LEMMA AddPending ==
    ASSUME Inv, Add
    PROVE  dirty' \in BOOLEAN /\ (dirty => dirty') /\ (~Cancelled => dirty')
BY DEF Inv, Numbers, Add, Cancelled, QueueShutDown

(* An attempt that ends.                                                   *)
LEMMA FinishKeeps ==
    ASSUME Inv, NEW res \in {"error", "notReady", "ok"}, Finish(res),
           worker \in {"reconcile", "sent"},
           res = "ok" => worker = "sent" /\ acked' = sentAt /\ accepts' = accepts + 1,
           res # "ok" => acked' = acked /\ accepts' = accepts,
           UNCHANGED <<requested, dirty, sender, generation, stop, sentAt>>
    PROVE  Inv'
<1>0. /\ Numbers /\ CompletedIsBacked /\ NoLostEvent /\ Attempting /\ Spaced
      /\ RetryDelay \in 0..MaxDelay /\ BrokerDelay \in 0..MaxDelay
  BY DelayAssumption DEF Inv, MaxDelay
<1>1. worker' \in {"get", "exited"}
  BY DEF Finish
<1>2. CASE Cancelled
  BY <1>0, <1>2 DEF Finish, Inv, Numbers, CompletedIsBacked, NoLostEvent, Attempting, Spaced, Cancelled
<1>3. CASE ~Cancelled /\ res = "ok"
  <2>1. /\ attempted' = generation /\ completed' = generation /\ retryLeft' = 0
        /\ UNCHANGED <<delayed, quiet, owed>>
    BY <1>3 DEF Finish, Completes
  <2>2. CompletedIsBacked' /\ Numbers'
    BY <1>0, <1>3, <2>1 DEF Numbers, CompletedIsBacked, Attempting
  <2>3. NoLostEvent'
    BY <1>0, <1>3, <2>1 DEF NoLostEvent, Attempting, Pending, Cancelled
  <2>4. QED
    BY <1>0, <1>1, <2>1, <2>2, <2>3 DEF Inv, Attempting, Spaced, Numbers
<1>4. CASE ~Cancelled /\ res # "ok"
  <2>1. PICK d \in {RetryDelay, BrokerDelay} :
          /\ attempted' = generation /\ retryLeft' = d /\ AddAfter(d)
          /\ quiet' = 0 /\ owed' = d /\ completed' = completed
    BY <1>4 DEF Finish
  <2>2. d \in Nat /\ d \in 0..MaxDelay
    BY <1>0, DelayAssumption
  <2>3. delayed' \in Nat \cup {NoDelay} /\ delayed' # NoDelay
    BY <1>0, <1>4, <2>1, <2>2, AddAfterPending DEF Numbers
  <2>4. Numbers' /\ CompletedIsBacked'
    BY <1>0, <1>4, <2>1, <2>2, <2>3 DEF Numbers, CompletedIsBacked, MaxDelay
  <2>5. NoLostEvent' /\ Attempting' /\ Spaced'
    BY <1>0, <1>1, <2>1, <2>2, <2>3 DEF NoLostEvent, Attempting, Spaced
  <2>6. QED
    BY <2>4, <2>5 DEF Inv
<1>5. QED
  BY <1>2, <1>3, <1>4

(* Every step.                                                             *)
LEMMA StepInv == Inv /\ [Next]_vars => Inv'
<1> SUFFICES ASSUME Inv, [Next]_vars PROVE Inv'
  OBVIOUS
<1>0. Numbers /\ CompletedIsBacked /\ NoLostEvent /\ Attempting /\ Spaced
  BY DEF Inv
<1>1. ASSUME NEW i \in Names, Notify(i) PROVE Inv'
  BY <1>0, <1>1 DEF Notify, fields, workqueue, history, Inv, Numbers, CompletedIsBacked,
     NoLostEvent, Attempting, Pending, Spaced, Cancelled
<1>2. ASSUME NEW i \in Names, SendRequest(i) PROVE Inv'
  <2>1. /\ requested' = requested + 1 /\ sender' = [sender EXCEPT ![i] = "adding"]
        /\ UNCHANGED <<completed, attempted, retryLeft, dirty, delayed, worker, generation, stop,
                       sentAt, acked, accepts, quiet, owed>>
    BY <1>2 DEF SendRequest, workqueue, history
  <2>2. sender'[i] = "adding" /\ sender' = [j \in Names |-> sender'[j]]
    BY <1>0, <2>1 DEF Numbers
  <2>3. Numbers' /\ CompletedIsBacked'
    BY <1>0, <2>1, <2>2 DEF Numbers, CompletedIsBacked
  <2>4. Pending'
    BY <2>2 DEF Pending
  <2>5. Attempting'
    BY <1>0, <2>1, <2>4 DEF Numbers, Attempting
  <2>6. QED
    BY <1>0, <2>1, <2>3, <2>4, <2>5 DEF Inv, NoLostEvent, Pending, Spaced
<1>3. ASSUME NEW i \in Names, SendRequestAdd(i) PROVE Inv'
  <2>1. /\ sender' = [sender EXCEPT ![i] = "idle"] /\ Add
        /\ UNCHANGED <<requested, completed, attempted, retryLeft, delayed, worker, generation, stop,
                       sentAt, acked, accepts, quiet, owed>>
    BY <1>3 DEF SendRequestAdd, fields, history
  <2>2. Numbers' /\ CompletedIsBacked'
    BY <1>0, <2>1, AddPending DEF Numbers, CompletedIsBacked
  <2>3. Cancelled' = Cancelled /\ (~Cancelled => dirty')
    BY <2>1, AddPending DEF Cancelled
  <2>4. QED
    BY <1>0, <2>1, <2>2, <2>3 DEF Inv, NoLostEvent, Attempting, Pending, Spaced
<1>4. ASSUME DelayExpires PROVE Inv'
  <2>1. /\ delayed' = NoDelay /\ Add
        /\ UNCHANGED <<requested, completed, attempted, retryLeft, sender, worker, generation, stop,
                       sentAt, acked, accepts, quiet, owed>>
    BY <1>4 DEF DelayExpires, fields, history
  <2>2. Numbers' /\ CompletedIsBacked'
    BY <1>0, <2>1, AddPending DEF Numbers, CompletedIsBacked
  <2>3. Cancelled' = Cancelled /\ (~Cancelled => dirty')
    BY <2>1, AddPending DEF Cancelled
  <2>4. QED
    BY <1>0, <2>1, <2>2, <2>3 DEF Inv, NoLostEvent, Attempting, Pending, Spaced
<1>5. ASSUME Start \/ WaitForInformerCache PROVE Inv'
  <2>1. /\ worker \in {"idle", "starting"} /\ worker' \in {"starting", "gaveUp", "get", "exited"}
        /\ UNCHANGED <<requested, completed, attempted, retryLeft, dirty, delayed, sender, generation,
                       stop, sentAt, acked, accepts, quiet, owed>>
    BY <1>5 DEF Start, waitForTopograph, WaitForInformerCache, fields, workqueue, history
  <2>2. QED
    BY <1>0, <2>1 DEF Inv, Numbers, CompletedIsBacked, NoLostEvent, Attempting, Spaced, Cancelled
<1>6. ASSUME GetKey PROVE Inv'
  <2>1. /\ worker = "get"
        /\ \/ worker' = "got" /\ dirty' = FALSE
           \/ worker' = "exited" /\ dirty' = dirty /\ Cancelled
        /\ UNCHANGED <<requested, completed, attempted, retryLeft, delayed, sender, generation,
                       stop, sentAt, acked, accepts, quiet, owed>>
    BY <1>6 DEF GetKey, fields, history, QueueShutDown, Cancelled
  <2>2. QED
    BY <1>0, <2>1 DEF Inv, Numbers, CompletedIsBacked, NoLostEvent, Attempting, Spaced, Cancelled
<1>7. ASSUME Decide PROVE Inv'
  <2>1. /\ worker = "got" /\ generation' = requested
        /\ UNCHANGED <<requested, completed, attempted, retryLeft, dirty, sender, stop,
                       sentAt, acked, accepts, quiet, owed>>
    BY <1>7 DEF Decide, fields, history
  <2>2. CASE requested <= completed /\ worker' = "get" /\ delayed' = delayed
    BY <1>0, <2>1, <2>2 DEF Inv, Numbers, CompletedIsBacked, NoLostEvent, Attempting, Spaced
  <2>3. CASE worker' = "get" /\ AddAfter(retryLeft)
    <3>1. delayed' \in Nat \cup {NoDelay} /\ (~Cancelled => delayed' # NoDelay)
      BY <1>0, <2>3, AddAfterPending DEF Numbers
    <3>2. QED
      BY <1>0, <2>1, <2>3, <3>1 DEF Inv, Numbers, CompletedIsBacked, NoLostEvent, Attempting, Spaced, Cancelled
  <2>4. CASE ~(requested <= completed) /\ worker' = "reconcile" /\ delayed' = delayed
    BY <1>0, <2>1, <2>4 DEF Inv, Numbers, CompletedIsBacked, NoLostEvent, Attempting, Spaced, Cancelled
  <2>5. QED
    BY <1>7, <2>2, <2>3, <2>4 DEF Decide, Obsolete, UntilRetry
<1>8. ASSUME Reconcile PROVE Inv'
  <2>1. CASE HasBroker /\ ~brokerReady
    <3>1. /\ worker = "reconcile" /\ Finish("notReady")
          /\ UNCHANGED <<requested, dirty, sender, generation, stop, sentAt, acked, accepts>>
      BY <1>8, <2>1 DEF Reconcile
    <3>2. QED
      BY <3>1, FinishKeeps
  <2>2. CASE ~(HasBroker /\ ~brokerReady)
    <3>1. /\ worker = "reconcile" /\ worker' = "sent" /\ sentAt' = requested
          /\ UNCHANGED <<requested, completed, attempted, retryLeft, dirty, delayed, sender, generation,
                         stop, acked, accepts, quiet, owed>>
      BY <1>8, <2>2 DEF Reconcile
    <3>2. QED
      BY <1>0, <3>1 DEF Inv, Numbers, CompletedIsBacked, NoLostEvent, Attempting, Pending, Spaced, Cancelled
  <2>3. QED
    BY <2>1, <2>2
<1>9. ASSUME Response PROVE Inv'
  <2>1. worker = "sent" /\ UNCHANGED <<requested, dirty, sender, generation, stop, sentAt>>
    BY <1>9 DEF Response
  <2>2. CASE acked' = sentAt /\ accepts' = accepts + 1 /\ Finish("ok")
    BY <2>1, <2>2, FinishKeeps
  <2>3. CASE acked' = acked /\ accepts' = accepts /\ Finish("error")
    BY <2>1, <2>3, FinishKeeps
  <2>4. QED
    BY <1>9, <2>2, <2>3 DEF Response
<1>10. ASSUME Stop PROVE Inv'
  <2>1. /\ Cancelled'
        /\ UNCHANGED <<requested, completed, attempted, retryLeft, dirty, delayed, sender, worker,
                       generation, sentAt, acked, accepts, quiet, owed>>
    BY <1>10 DEF Stop, fields, workqueue, history, Cancelled
  <2>2. QED
    BY <1>0, <2>1 DEF Inv, Numbers, CompletedIsBacked, NoLostEvent, Attempting, Spaced
<1>11. ASSUME ServerFlips PROVE Inv'
  BY <1>0, <1>11 DEF ServerFlips, fields, workqueue, history, Inv, Numbers, CompletedIsBacked,
     NoLostEvent, Attempting, Pending, Spaced, Cancelled
<1>12. ASSUME Tick PROVE Inv'
  <2>1. /\ delayed' = (IF delayed > 0 THEN delayed - 1 ELSE delayed)
        /\ retryLeft' = (IF retryLeft > 0 THEN retryLeft - 1 ELSE 0)
        /\ quiet' = (IF quiet < MaxDelay THEN quiet + 1 ELSE quiet)
        /\ UNCHANGED <<requested, completed, attempted, dirty, sender, worker, generation, stop,
                       sentAt, acked, accepts, owed>>
    BY <1>12 DEF Tick
  <2>2. MaxDelay \in Nat
    BY DelayAssumption DEF MaxDelay
  <2>3. Numbers' /\ (delayed # NoDelay => delayed' # NoDelay)
    BY <1>0, <2>1, <2>2 DEF Numbers, NoDelay
  <2>4. Spaced'
    BY <1>0, <2>1, <2>2 DEF Numbers, Spaced
  <2>5. CompletedIsBacked'
    BY <1>0, <2>1 DEF CompletedIsBacked
  <2>6. NoLostEvent' /\ Attempting'
    BY <1>0, <2>1, <2>3 DEF NoLostEvent, Attempting, Pending, Cancelled
  <2>7. QED
    BY <2>3, <2>4, <2>5, <2>6 DEF Inv
<1>13. CASE UNCHANGED vars
  BY <1>0, <1>13 DEF vars, Inv, Numbers, CompletedIsBacked, NoLostEvent, Attempting, Pending, Spaced, Cancelled
<1>14. QED
  BY <1>1, <1>2, <1>3, <1>4, <1>5, <1>6, <1>7, <1>8, <1>9, <1>10, <1>11, <1>12, <1>13 DEF Next

-----------------------------------------------------------------------------
(* completedGeneration never runs ahead of the accepted requests.          *)
THEOREM Backed == Spec => []CompletedIsBacked
<1>1. Inv => CompletedIsBacked
  BY DEF Inv
<1>2. QED
  BY <1>1, InitInv, StepInv, PTL DEF Spec

(* An event that is not covered yet has something left that brings the     *)
(* worker back to it.                                                      *)
THEOREM EventsKept == Spec => []NoLostEvent
<1>1. Inv => NoLostEvent
  BY DEF Inv
<1>2. QED
  BY <1>1, InitInv, StepInv, PTL DEF Spec

(* An accepted request completes a new generation, unless Stop has come.   *)
THEOREM Requests == Spec => NoRedundantRequest
<1> DEFINE News == accepts' > accepts /\ ~Cancelled => completed' > completed
<1>1. Inv /\ [Next]_vars => [News]_vars
  <2> SUFFICES ASSUME Inv, Next, accepts' > accepts, ~Cancelled PROVE completed' > completed
    OBVIOUS
  <2>1. accepts \in Nat /\ ~(accepts > accepts)
    BY DEF Inv, Numbers
  <2>2. Response
    BY <2>1 DEF Next, Notify, SendRequest, SendRequestAdd, DelayExpires, Start, waitForTopograph,
       WaitForInformerCache,
       GetKey, Decide, Reconcile, Stop, ServerFlips, Tick, history
  <2>3. worker = "sent" /\ Finish("ok")
    BY <2>1, <2>2 DEF Response
  <2>4. completed' = generation
    BY <2>3 DEF Finish, Completes
  <2>5. QED
    BY <2>3, <2>4 DEF Inv, Numbers, Attempting
<1>2. QED
  BY <1>1, InitInv, StepInv, PTL DEF Spec, NoRedundantRequest

(* A retry waits the delay its predecessor's outcome asks for.             *)
THEOREM Retries == Spec => RetrySpacing
<1> DEFINE Late == worker = "got" /\ worker' = "reconcile" /\ attempted > completed
                     /\ requested = attempted => quiet >= owed
<1>1. Inv /\ [Next]_vars => [Late]_vars
  <2> SUFFICES ASSUME Inv, Next, worker = "got", worker' = "reconcile", attempted > completed,
                      requested = attempted
               PROVE  quiet >= owed
    OBVIOUS
  <2>1. Decide
    BY DEF Next, Notify, SendRequest, SendRequestAdd, DelayExpires, Start, waitForTopograph,
       WaitForInformerCache,
       GetKey, Reconcile, Response, Stop, ServerFlips, Tick
  <2>2. ~(retryLeft > 0)
    BY <2>1 DEF Decide, Early
  <2>3. QED
    BY <2>2 DEF Inv, Numbers, Spaced
<1>2. QED
  BY <1>1, InitInv, StepInv, PTL DEF Spec, RetrySpacing

-----------------------------------------------------------------------------
(* The client (HttpRetry).                                                 *)

(* Powers of two count sets of numbers.                                    *)
LEMMA Powers ==
    ASSUME NEW n \in Nat
    PROVE  /\ IsFiniteSet(SUBSET (1..n))
           /\ 2^n = Cardinality(SUBSET (1..n)) /\ 2^n \in Nat \ {0}
<1>1. IsFiniteSet(1..n) /\ Cardinality(1..n) = n
  BY FS_Interval
<1>2. IsFiniteSet(SUBSET (1..n)) /\ Cardinality(SUBSET (1..n)) = 2^n
  BY <1>1, FS_SUBSET
<1>3. Cardinality(SUBSET (1..n)) \in Nat
  BY <1>2, FS_CardinalityType
<1>4. Cardinality(SUBSET (1..n)) # 0
  <2>1. {} \in SUBSET (1..n)
    OBVIOUS
  <2>2. SUBSET (1..n) # {}
    BY <2>1
  <2>3. QED
    BY <1>2, <2>2, FS_EmptySet
<1>5. QED
  BY <1>2, <1>3, <1>4

(* A later attempt never backs off for less.                               *)
LEMMA Growing ==
    ASSUME NEW m \in Nat, NEW n \in Nat, m <= n PROVE 2^m <= 2^n
<1>1. SUBSET (1..m) \in SUBSET (SUBSET (1..n))
  OBVIOUS
<1>2. /\ IsFiniteSet(SUBSET (1..n)) /\ 2^n = Cardinality(SUBSET (1..n))
      /\ 2^m = Cardinality(SUBSET (1..m))
  BY Powers
<1>3. Cardinality(SUBSET (1..m)) <= Cardinality(SUBSET (1..n))
  BY <1>1, <1>2, FS_Subset
<1>4. QED
  BY <1>2, <1>3
-----------------------------------------------------------------------------
(* The longest single wait: the cap, or the backoff after the last attempt *)
(* but one.                                                                *)
Longest ==
    LET backoff == Backoff * 2^(MaxRetries - 2)
    IN  IF MaxRetryAfter > backoff THEN MaxRetryAfter ELSE backoff

LEMMA LongestType ==
    ASSUME MaxRetries > 1
    PROVE  /\ Longest \in Nat /\ MaxRetryAfter <= Longest
           /\ 2^(MaxRetries - 2) <= Longest
<1>1. MaxRetries - 2 \in Nat /\ MaxRetryAfter \in Nat
  BY RetryAssumption
<1>2. 2^(MaxRetries - 2) \in Nat
  BY <1>1, Powers
<1>3. QED
  BY <1>1, <1>2 DEF Longest, Backoff

(* No wait GetNextBackoff computes before another attempt is longer than   *)
(* that, whatever the header says.                                         *)
LEMMA OneWait ==
    ASSUME MaxRetries > 1, NEW k \in 1..MaxRetries - 1, NEW h, h.value \in Int
    PROVE  GetNextBackoff(h, Backoff, k - 1) \in 0..Longest
<1>1. Longest \in Nat /\ MaxRetryAfter \in 0..Longest /\ 2^(MaxRetries - 2) \in 0..Longest
  <2>1. MaxRetries - 2 \in Nat /\ MaxRetryAfter \in Nat
    BY RetryAssumption
  <2>2. 2^(MaxRetries - 2) \in Nat
    BY <2>1, Powers
  <2>3. QED
    BY <2>1, <2>2, LongestType
<1>2. ParseRetryAfter(h) \in 0..Longest \/ ParseRetryAfter(h) = NoWait
  BY <1>1, RetryAssumption DEF ParseRetryAfter, Capped, Second, NoWait
<1>3. 2^(k - 1) \in 0..Longest
  <2>1. k - 1 \in Nat /\ MaxRetries - 2 \in Nat /\ k - 1 <= MaxRetries - 2
    BY RetryAssumption
  <2>2. 2^(k - 1) \in Nat /\ 2^(k - 1) <= 2^(MaxRetries - 2)
    BY <2>1, Powers, Growing
  <2>3. QED
    BY <1>1, <2>2
<1>4. QED
  BY <1>2, <1>3 DEF GetNextBackoff, NoWait, Backoff
(* What k waits may come to.                                               *)
Budget(k) == k * Longest

LEMMA BudgetGrows ==
    ASSUME MaxRetries > 1, NEW k \in Nat
    PROVE  /\ Budget(k) \in Nat /\ Budget(0) = 0
           /\ Budget(k + 1) = Budget(k) + Longest
           /\ \A n \in Nat : k <= n => Budget(k) <= Budget(n)
<1>1. Longest \in Nat
  BY LongestType
<1>2. Budget(k) \in Nat /\ Budget(0) = 0 /\ Budget(k + 1) = Budget(k) + Longest
  BY <1>1 DEF Budget
<1>3. ASSUME NEW n \in Nat, k <= n PROVE Budget(k) <= Budget(n)
  <2>1. PICK d \in Nat : n = k + d
    BY <1>3, n - k \in Nat
  <2>2. d * Longest \in Nat /\ Budget(n) = Budget(k) + d * Longest
    BY <1>1, <2>1 DEF Budget
  <2>3. QED
    BY <1>2, <2>2
<1>4. QED
  BY <1>2, <1>3

-----------------------------------------------------------------------------
(* The wait of a call is bounded by its attempts: k of them are separated  *)
(* by k - 1 waits, and the wait in progress counts in full.                *)
WaitInv ==
    /\ state \in {"trying", "flying", "waiting", "returned"}
    /\ attempt \in 0..MaxRetries /\ wait \in Nat /\ waited \in Nat
    /\ state = "trying" => attempt < MaxRetries /\ waited <= Budget(attempt)
    /\ state = "flying" => attempt > 0 /\ waited <= Budget(attempt - 1)
    /\ state = "waiting" =>
          /\ 0 < attempt /\ attempt < MaxRetries
          /\ waited + wait <= Budget(attempt)
    /\ waited <= Budget(MaxRetries - 1)
    /\ state = "returned" /\ ShouldRetry(result) =>
          attempt = MaxRetries \/ (Built /\ cancelled)

LEMMA WaitInit ==
    ASSUME MaxRetries > 1, InitClient PROVE WaitInv
<1>1. MaxRetries \in Nat /\ MaxRetries - 1 \in Nat /\ 0 \in Nat
  BY RetryAssumption
<1>2. 0 <= Budget(0) /\ 0 <= Budget(MaxRetries - 1)
  BY <1>1, BudgetGrows
<1>3. QED
  BY <1>1, <1>2 DEF InitClient, WaitInv

(* The end of an attempt: return, or begin to wait.                        *)
LEMMA JudgeWaits ==
    ASSUME MaxRetries > 1, WaitInv, state = "flying",
           NEW a, a.header.value \in Int, Judge(a),
           UNCHANGED <<build, attempt, cancelled, waited>>
    PROVE  WaitInv'
<1>1. MaxRetries \in Nat /\ attempt \in 1..MaxRetries
  BY RetryAssumption DEF WaitInv
<1>2. CASE CancelNoticed \/ Final(a.code)
  <2>1. state' = "returned" /\ result' = a.code /\ wait' = wait
    BY <1>2 DEF Judge, Return
  <2>2. ShouldRetry(a.code) => attempt = MaxRetries \/ (Built /\ cancelled)
    BY <1>2 DEF ShouldRetry, Final, Success, CancelNoticed
  <2>3. QED
    BY <2>1, <2>2 DEF WaitInv, Built
<1>3. CASE ~(CancelNoticed \/ Final(a.code))
  <2>1. /\ state' = "waiting" /\ attempt \in 1..MaxRetries - 1
        /\ wait' = GetNextBackoff(a.header, Backoff, attempt - 1)
    BY <1>1, <1>3 DEF Judge, Final
  <2>2. wait' \in 0..Longest
    BY <2>1, OneWait
  <2>3. waited + wait' <= Budget(attempt)
    <3>1. waited \in Nat /\ waited <= Budget(attempt - 1)
      BY DEF WaitInv
    <3>2. Budget(attempt - 1) \in Nat /\ Budget(attempt) = Budget(attempt - 1) + Longest
      <4>1. attempt - 1 \in Nat /\ (attempt - 1) + 1 = attempt
        BY <1>1
      <4>2. QED
        BY <4>1, BudgetGrows
    <3>3. QED
      BY <2>2, <3>1, <3>2, LongestType
  <2>4. QED
    BY <1>1, <2>1, <2>2, <2>3 DEF WaitInv
<1>4. QED
  BY <1>2, <1>3

LEMMA WaitStep ==
    ASSUME MaxRetries > 1, WaitInv, [NextClient]_clientVars PROVE WaitInv'
<1>1. MaxRetries \in Nat /\ attempt \in 0..MaxRetries
  BY RetryAssumption DEF WaitInv
<1>2. CASE Attempt
  BY <1>1, <1>2 DEF Attempt, WaitInv, Built
<1>3. CASE BuildFails
  <2>1. PICK a : a = [code |-> build, header |-> NoHeader]
    OBVIOUS
  <2>2. Judge(a) /\ a.header.value \in Int
    BY <1>3, <2>1 DEF BuildFails, NoHeader, Header
  <2>3. QED
    BY <1>3, <2>2, JudgeWaits DEF BuildFails
<1>4. CASE Answer
  <2>1. PICK h \in Headers, c \in Codes \cup {ReadFailure} :
            Judge([code |-> c, header |-> h])
    BY <1>4 DEF Answer
  <2>2. [code |-> c, header |-> h].header.value \in Int
    BY HeadersAssumption
  <2>3. QED
    BY <1>4, <2>1, <2>2, JudgeWaits DEF Answer
<1>5. CASE TransportFails
  <2>1. TransportError.header.value \in Int
    BY DEF TransportError, NoHeader, Header
  <2>2. QED
    BY <1>5, <2>1, JudgeWaits DEF TransportFails
<1>6. CASE WaitElapses
  <2>1. /\ state = "waiting" /\ state' = "waiting" /\ wait > 0
        /\ wait' = wait - 1 /\ waited' = waited + 1 /\ attempt' = attempt
    BY <1>6 DEF WaitElapses
  <2>2. attempt \in 1..MaxRetries - 1 /\ waited + wait <= Budget(attempt)
    BY <1>1, <2>1 DEF WaitInv
  <2>3. /\ Budget(attempt) \in Nat /\ Budget(MaxRetries - 1) \in Nat
        /\ Budget(attempt) <= Budget(MaxRetries - 1)
    BY <1>1, <2>2, BudgetGrows
  <2>4. /\ wait' \in Nat /\ waited' \in Nat
        /\ waited' + wait' <= Budget(attempt) /\ waited' <= Budget(MaxRetries - 1)
    <3>1. wait \in Nat /\ waited \in Nat
      BY DEF WaitInv
    <3>2. QED
      BY <2>1, <2>2, <2>3, <3>1
  <2>5. QED
    BY <2>1, <2>2, <2>4 DEF WaitInv
<1>7. CASE WaitEnds
  <2>1. state = "waiting" /\ UNCHANGED <<build, attempt, wait, waited, cancelled>>
    BY <1>7 DEF WaitEnds
  <2>2. \/ wait = 0 /\ state' = "trying"
        \/ state' = "returned" /\ Built /\ cancelled
    BY <1>7 DEF WaitEnds, Return, Cancellable
  <2>3. CASE wait = 0 /\ state' = "trying"
    BY <2>1, <2>3 DEF WaitInv
  <2>4. CASE state' = "returned" /\ Built /\ cancelled
    BY <2>1, <2>4 DEF WaitInv, Built
  <2>5. QED
    BY <2>2, <2>3, <2>4
<1>8. CASE Cancel
  BY <1>8 DEF Cancel, WaitInv
<1>9. CASE UNCHANGED clientVars
  BY <1>9 DEF clientVars, WaitInv, Built
<1>10. QED
  BY <1>2, <1>3, <1>4, <1>5, <1>6, <1>7, <1>8, <1>9 DEF NextClient

(* However often it is asked to come back later, a call of a client with   *)
(* at least two attempts waits no longer in total than its attempts and    *)
(* the cap allow, and it passes a retryable error on only after its last   *)
(* attempt or to a caller that has cancelled.                              *)
THEOREM WaitBounded ==
    ASSUME MaxRetries > 1 PROVE ClientSpec => []TotalWaitBounded
<1>1. InitClient => WaitInv
  BY WaitInit
<1>2. WaitInv /\ [NextClient]_clientVars => WaitInv'
  BY WaitStep
<1>3. WaitInv => TotalWaitBounded
  BY DEF WaitInv, TotalWaitBounded, Budget, Longest
<1>4. QED
  BY <1>1, <1>2, <1>3, PTL DEF ClientSpec

-----------------------------------------------------------------------------
(* An attempt begun with a dead context is the last: the loop notices the  *)
(* cancellation when the attempt ends.                                     *)
CancelInv ==
    /\ cancelled \in BOOLEAN /\ triesAfter \in Nat
    /\ Built /\ state \in {"trying", "waiting"} => triesAfter = 0
    /\ triesAfter > 0 => cancelled
    /\ CancelIsPrompt

LEMMA JudgeLetsGo ==
    ASSUME CancelInv, NEW a, Judge(a),
           UNCHANGED <<build, cancelled, waitedAfter, triesAfter>>
    PROVE  CancelInv'
<1>1. Built /\ cancelled => state' = "returned"
  BY DEF Judge, CancelNoticed, Return
<1>2. QED
  BY <1>1 DEF CancelInv, CancelIsPrompt, Built

LEMMA CancelStep == CancelInv /\ [NextClient]_clientVars => CancelInv'
<1> SUFFICES ASSUME CancelInv, [NextClient]_clientVars PROVE CancelInv'
  OBVIOUS
<1> USE DEF CancelInv, CancelIsPrompt, Built
<1>1. CASE Attempt
  BY <1>1 DEF Attempt
<1>2. CASE BuildFails
  <2>1. PICK a : a = [code |-> build, header |-> NoHeader]
    OBVIOUS
  <2>2. Judge(a)
    BY <1>2, <2>1 DEF BuildFails
  <2>3. QED
    BY <1>2, <2>2, JudgeLetsGo DEF BuildFails
<1>3. CASE Answer
  BY <1>3, JudgeLetsGo DEF Answer
<1>4. CASE TransportFails
  BY <1>4, JudgeLetsGo DEF TransportFails
<1>5. CASE WaitElapses
  BY <1>5 DEF WaitElapses, Cancellable
<1>6. CASE WaitEnds
  BY <1>6 DEF WaitEnds, Return
<1>7. CASE Cancel
  BY <1>7 DEF Cancel
<1>8. CASE UNCHANGED clientVars
  BY <1>8 DEF clientVars
<1>9. QED
  BY <1>1, <1>2, <1>3, <1>4, <1>5, <1>6, <1>7, <1>8 DEF NextClient

(* A caller that cancels waits for at most one more attempt and for no     *)
(* backoff, whatever the answers and the headers.                          *)
THEOREM CancelPrompt == ClientSpec => []CancelIsPrompt
<1>1. InitClient => CancelInv
  BY DEF InitClient, CancelInv, CancelIsPrompt
<1>2. CancelInv => CancelIsPrompt
  BY DEF CancelInv
<1>3. QED
  BY <1>1, <1>2, CancelStep, PTL DEF ClientSpec
=============================================================================
