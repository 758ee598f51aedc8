------------------------- MODULE TrailingDelayQueue -------------------------
(***************************************************************************)
(* The request queue of the API server, pkg/server/trailing_delay_queue.go.*)
(*                                                                         *)
(* Each call of Submit allocates one Completion and one time.Timer; both   *)
(* pointers are identified here by the number of the call, so comparing    *)
(* pointers in the code is comparing submission numbers.  The callback of  *)
(* a timer runs the handler WITHOUT the mutex and takes the mutex only to  *)
(* publish, so a callback has three steps (Fire, Handle, Complete) between *)
(* which other submissions, callbacks and reads interleave.  Submit, Get,  *)
(* the tail of the callback and the shutdown goroutine hold the mutex from *)
(* start to end and are one action each.                                   *)
(*                                                                         *)
(* Time is counted in ticks that saturate at Delay: age[s] is the time     *)
(* since submission s, and a timer may fire at Delay or at any time later. *)
(***************************************************************************)
EXTENDS Integers, Sequences

CONSTANTS
    Items,      \* the requests a client can send
    Hashes,     \* what topology.Request.Hash can return
    HashOf,     \* the hash of each request; several requests may share one
    ErrCodes,   \* codes of the errors the handler can return
    Capacity,   \* RequestHistorySize
    Delay,      \* the aggregation delay, in ticks
    MaxSubmits  \* bound: number of submissions explored

ASSUME HashOfAssumption == HashOf \in [Items -> Hashes]
ASSUME HistoryAssumption == Capacity \in Nat \ {0}
ASSUME DelayAssumption == Delay \in Nat
ASSUME MaxSubmitsAssumption == MaxSubmits \in Nat
ASSUME ErrCodesAssumption == ErrCodes \subseteq Nat

StatusOK == 200
StatusAccepted == 202
StatusNotFound == 404

Subs == 1 .. MaxSubmits
None == 0        \* a nil pointer: no timer, no entry

LRU == INSTANCE LruCache
         WITH Keys <- Hashes, Values <- Subs, NoValue <- None

VARIABLES
    n,        \* number of submissions so far
    item,     \* item[s]: the request of submission s
    timer,    \* timer[s]: where the timer and the callback of s are
    age,      \* ticks since submission s, saturating at Delay
    outcome,  \* code the handler returned to the callback of s
    entry,    \* entry[s]: the Completion allocated by submission s
    timers,   \* q.timers
    store,    \* q.store
    phase     \* "up", "closing" (channel closed), "stopped" (run returned)

vars == <<n, item, timer, age, outcome, entry, timers, store, phase>>

Submitted == 1 .. n
HashAt(s) == HashOf[item[s]]

(* Completion: Ret is the request whose topology it holds, None before.    *)
NoCompletion == [Status |-> 0, Ret |-> None]
Codes == ErrCodes \cup {StatusOK}

TimerStates == {"none", "armed", "stopped", "running", "returned", "done"}

TypeOK ==
    /\ n \in 0 .. MaxSubmits
    /\ item \in [Submitted -> Items]
    /\ timer \in [Subs -> TimerStates]
    /\ age \in [Subs -> 0 .. Delay]
    /\ outcome \in [Subs -> Codes \cup {0}]
    /\ entry \in [Subs -> [Status : Codes \cup {0, StatusAccepted},
                           Ret : Items \cup {None}]]
    /\ timers \in [Hashes -> Subs \cup {None}]
    /\ store \in LRU!Caches
    /\ phase \in {"up", "closing", "stopped"}

Init ==
    /\ n = 0
    /\ item = [s \in {} |-> None]
    /\ timer = [s \in Subs |-> "none"]
    /\ age = [s \in Subs |-> 0]
    /\ outcome = [s \in Subs |-> 0]
    /\ entry = [s \in Subs |-> NoCompletion]
    /\ timers = [h \in Hashes |-> None]
    /\ store = LRU!EmptyCache
    /\ phase = "up"

(* Mutant: the replaced timer is not stopped.                              *)
StopNothing(S) == timer

(* time.Timer.Stop on a set of timers: no effect on one that has fired.    *)
Stop(S) == [s \in Subs |-> IF s \in S /\ timer[s] = "armed"
                           THEN "stopped" ELSE timer[s]]

-----------------------------------------------------------------------------
(* Submit.  Only HTTP handlers call it, and HttpServer.Stop waits for them *)
(* (http.Server.Shutdown) before it closes the queue, hence phase = "up".  *)
Submit(i) ==
    LET h == HashOf[i]
        s == n + 1
    IN  /\ phase = "up"
        /\ n < MaxSubmits
        /\ n' = s
        /\ item' = [t \in 1 .. s |-> IF t = s THEN i ELSE item[t]]
        /\ timer' = [Stop({timers[h]}) EXCEPT ![s] = "armed"]
        /\ age' = [age EXCEPT ![s] = 0]
        /\ entry' = [entry EXCEPT
               ![s] = [Status |-> StatusAccepted, Ret |-> None]]
        /\ timers' = [timers EXCEPT ![h] = s]
        /\ store' = LRU!Add(store, h, s)
        /\ UNCHANGED <<outcome, phase>>

(* The clock advances for the timers that are not due yet.                 *)
Tick ==
    /\ \E s \in Submitted : age[s] < Delay
    /\ age' = [s \in Subs |-> IF s \in Submitted /\ age[s] < Delay
                              THEN age[s] + 1 ELSE age[s]]
    /\ UNCHANGED <<n, item, timer, outcome, entry, timers, store, phase>>

(* Mutant: a timer that never fires.                                       *)
FireNever(s) ==
    /\ timer[s] = "armed"
    /\ age[s] > Delay
    /\ timer' = [timer EXCEPT ![s] = "running"]
    /\ UNCHANGED <<n, item, age, outcome, entry, timers, store, phase>>

(* The runtime starts the callback of a due timer on its own goroutine.    *)
Fire(s) ==
    /\ timer[s] = "armed"
    /\ age[s] >= Delay
    /\ timer' = [timer EXCEPT ![s] = "running"]
    /\ UNCHANGED <<n, item, age, outcome, entry, timers, store, phase>>

(* q.handle(item) returns: data, or an error with a code.                  *)
Handle(s, code) ==
    /\ timer[s] = "running"
    /\ timer' = [timer EXCEPT ![s] = "returned"]
    /\ outcome' = [outcome EXCEPT ![s] = code]
    /\ UNCHANGED <<n, item, age, entry, timers, store, phase>>

(* Mutant: an error of the handler is dropped.                             *)
OutcomeOnSuccess(s) ==
    IF outcome[s] = StatusOK
    THEN [Status |-> StatusOK, Ret |-> item[s]] ELSE entry[s]

(* The Completion the callback of s leaves behind.                         *)
Outcome(s) ==
    [Status |-> outcome[s],
     Ret    |-> IF outcome[s] = StatusOK THEN item[s] ELSE entry[s].Ret]

(* Mutant: any entry of the hash counts as that of s.                      *)
AnyEntry(s) == LRU!Has(store, HashAt(s))

(* "if currEntry, ok := q.store.Get(hash); ok && currEntry == entry", and  *)
(* "if currTimer, ok := q.timers[hash]; ok && currTimer == timer".         *)
OwnsEntry(s) == store.entries[HashAt(s)] = s
OwnsTimer(s) == timers[HashAt(s)] = s

(* The locked tail of the callback.  store.Get moves the key to the front  *)
(* whoever owns the entry; the owner alone publishes and adds again.       *)
Complete(s) ==
    LET h == HashAt(s)
    IN  /\ timer[s] = "returned"
        /\ timer' = [timer EXCEPT ![s] = "done"]
        /\ entry' = IF OwnsEntry(s) THEN [entry EXCEPT ![s] = Outcome(s)] ELSE entry
        /\ store' = IF OwnsEntry(s) THEN LRU!Add(LRU!Touch(store, h), h, s)
                    ELSE LRU!Touch(store, h)
        /\ timers' = IF OwnsTimer(s) THEN [timers EXCEPT ![h] = None]
                     ELSE timers
        /\ UNCHANGED <<n, item, age, outcome, phase>>

(* What Get returns, a copy of the Completion or a fresh 404.              *)
View(h) == IF LRU!Has(store, h) THEN entry[store.entries[h]]
           ELSE [Status |-> StatusNotFound, Ret |-> None]

Get(h) ==
    /\ phase = "up"
    /\ store' = LRU!Touch(store, h)
    /\ UNCHANGED <<n, item, timer, age, outcome, entry, timers, phase>>

(* Shutdown closes the channel; stopOnce in HttpServer.Stop makes it once. *)
Shutdown ==
    /\ phase = "up"
    /\ phase' = "closing"
    /\ UNCHANGED <<n, item, timer, age, outcome, entry, timers, store>>

(* Mutant: shutdown stops only the timers of requests still in the store.  *)
RunStored ==
    /\ phase = "closing"
    /\ phase' = "stopped"
    /\ timer' = Stop({store.entries[h] : h \in Hashes})
    /\ UNCHANGED <<n, item, age, outcome, entry, timers, store>>

(* run: the goroutine that waits for the channel stops every known timer.  *)
Run ==
    /\ phase = "closing"
    /\ phase' = "stopped"
    /\ timer' = Stop({timers[h] : h \in Hashes})
    /\ UNCHANGED <<n, item, age, outcome, entry, timers, store>>

Next ==
    \/ \E i \in Items : Submit(i)
    \/ Tick
    \/ \E s \in Subs : Fire(s)
    \/ \E s \in Subs, code \in Codes : Handle(s, code)
    \/ \E s \in Subs : Complete(s)
    \/ \E h \in Hashes : Get(h)
    \/ Shutdown
    \/ Run

Spec == Init /\ [][Next]_vars

(* Clocks run, the Go runtime starts due callbacks, the shutdown goroutine *)
(* and a callback waiting for the mutex get it, and the handler returns    *)
(* (its retries are bounded, see RequestProcessor).  Nobody has to call.   *)
Fairness ==
    /\ WF_vars(Tick)
    /\ WF_vars(Run)
    /\ \A s \in Subs : /\ WF_vars(Fire(s))
                       /\ WF_vars(\E code \in Codes : Handle(s, code))
                       /\ WF_vars(Complete(s))

FairSpec == Spec /\ Fairness

-----------------------------------------------------------------------------
(* What a client reads under a request ID is never the completion of a     *)
(* superseded request, although the handlers of both may overlap and the   *)
(* older one may finish last.                                              *)
LatestWins ==
    \A h \in Hashes : LRU!Has(store, h) =>
        LET s == store.entries[h]
        IN  /\ s \in Submitted
            /\ HashAt(s) = h
            /\ \A t \in Submitted : HashAt(t) = h => t <= s

(* q.timers holds exactly the timer that the next Submit of a hash has to  *)
(* stop: every armed timer is the one recorded for its hash, a recorded    *)
(* timer is that of the newest request, and none outlives its callback.    *)
TimersTrackLatest ==
    /\ \A s \in Submitted : timer[s] = "armed" => timers[HashAt(s)] = s
    /\ \A h \in Hashes : timers[h] # None =>
           LET s == timers[h]
           IN  /\ s \in Submitted
               /\ HashAt(s) = h
               /\ timer[s] \notin {"none", "done"}
               /\ timer[s] = "stopped" => phase = "stopped"
               /\ \A t \in Submitted : HashAt(t) = h => t <= s

(* What a finished callback owes the client: the handler's code, and the   *)
(* topology of the request itself if there is one.                         *)
Published(s) ==
    [Status |-> outcome[s],
     Ret    |-> IF outcome[s] = StatusOK THEN item[s] ELSE None]

(* An entry in the history that is still pending has a callback that will  *)
(* publish it (unless the server stopped), and a callback that finished    *)
(* left the handler's code in it, errors included.                         *)
NoLostResult ==
    \A h \in Hashes : LRU!Has(store, h) =>
        LET s == store.entries[h]
        IN  /\ timer[s] = "done" => entry[s] = Published(s)
            /\ timer[s] # "done" =>
                   entry[s] = [Status |-> StatusAccepted, Ret |-> None]
            /\ timer[s] \in {"none", "stopped"} => phase = "stopped"

(* Once the shutdown goroutine has run no further handler starts.          *)
NothingStartsAfterStop ==
    phase = "stopped" => \A s \in Subs : timer[s] # "armed"

(* The request history stays a consistent, bounded LRU map.                *)
StoreWellFormed == LRU!WellFormed(store)

(* docs/api.md: "processing only if no new requests arrive during the      *)
(* specified duration".  A handler starts only when no request of the same *)
(* hash came in during the last Delay ticks, so a burst is handled once,   *)
(* for its last request.                                                   *)
QuietPeriod ==
    [][\A s \in Subs :
         (timer[s] = "armed" /\ timer'[s] = "running") =>
             \A t \in Submitted : HashAt(t) = HashAt(s) =>
                 t <= s /\ age[t] >= Delay]_vars

(* Every accepted request is eventually processed, or stopped; with        *)
(* NoLostResult and TimersTrackLatest a stopped one has been superseded or *)
(* the server has stopped.                                                 *)
EverySubmissionSettles ==
    \A s \in Subs : (s \in Submitted) ~> (timer[s] \in {"done", "stopped"})

(* docs/providers/test.md: "While those internal retries are running,      *)
(* `/v1/topology` continues to return `202 Accepted` for the request ID."  *)
(* Does not hold: the LRU history may evict a request that is in progress. *)
InProgressIsAccepted ==
    \A s \in Submitted :
        timer[s] \in {"running", "returned"} =>
            View(HashAt(s)).Status # StatusNotFound

-----------------------------------------------------------------------------
(* What clients can see: under each hash the submission that owns it, and  *)
(* its Completion once the callback is done.                               *)
Slots ==
    [h \in Hashes |->
        LET s == store.entries[h]
        IN  [owner  |-> s,
             result |-> IF s # None /\ timer[s] = "done"
                        THEN entry[s] ELSE NoCompletion]]

Board == INSTANCE ResultBoard
    WITH Results <- [Status : Codes, Ret : Items \cup {None}],
         Pending <- NoCompletion,
         accepted <- n,
         board <- Slots

(* Every step of the queue is a step of ResultBoard or invisible to its    *)
(* clients: the promise stated there holds for the code's locking.         *)
ImplementsResultBoard == Board!Spec
=============================================================================
