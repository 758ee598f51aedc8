--------------------------- MODULE StatusInformer ---------------------------
(***************************************************************************)
(* The node observer's reconciler (pkg/node_observer/status_informer.go).  *)
(* Informer callbacks turn cluster events into generations: sendRequest    *)
(* bumps requestedGeneration and adds the one key of a work queue.  One    *)
(* worker takes the key, decides from the generations whether the entry is *)
(* obsolete, early or due, asks the broker gate and sends one generate     *)
(* request to the topograph API.  The work queue is client-go's: Add       *)
(* coalesces, a key that is being processed is parked until Done, and      *)
(* AddAfter keeps one pending entry per key, with the earliest deadline.   *)
(*                                                                         *)
(* Time is discrete.  retryLeft is retryNotBefore minus now (0 once it has *)
(* passed) and delayed the time left of the queue's pending entry.         *)
(***************************************************************************)
EXTENDS Integers, Sequences, Functions

CONSTANTS
    Informers,      \* the configured ones of "node", "pod", "api" and "broker", in this order
    RetryDelay,     \* retryDelay
    BrokerDelay,    \* defaultBrokerRetryDelay
    MaxEvents,      \* bound: events delivered by the informers
    MaxFlips        \* bound: times the API server goes down or comes back

ASSUME InformersAssumption == Informers \in Seq(STRING)
ASSUME DelayAssumption ==
    /\ RetryDelay \in Nat \ {0}
    /\ BrokerDelay \in Nat \ {0}
ASSUME BoundsAssumption == MaxEvents \in Nat /\ MaxFlips \in Nat

VARIABLES
    \* --- the StatusInformer's fields
    requested,      \* requestedGeneration
    completed,      \* completedGeneration
    attempted,      \* attemptedGeneration
    retryLeft,      \* retryNotBefore
    \* --- the work queue, for its single key
    dirty,          \* the key was added and not taken since
    processing,     \* the key is with the worker
    delayed,        \* time left of the pending AddAfter entry, or NoDelay
    \* --- the goroutines
    started,        \* informers whose cache has synced
    backlog,        \* notifications an informer has stored and not delivered
    sender,         \* a callback between the two statements of sendRequest
    worker,         \* where processNextWorkItem is
    generation,     \* its local of that name
    stop,           \* how far Stop has got
    \* --- the environment
    brokerReady,    \* what the broker informer's store says of the DaemonSet
    serverUp,       \* the topograph API answers requests
    flips,
    \* --- history
    sentAt,         \* requested when the outstanding request was sent
    acked,          \* largest sentAt among the accepted requests
    accepts,        \* number of accepted requests
    quiet,          \* time since the last attempt ended without success
    owed            \* the time its outcome asks to wait

vars == <<requested, completed, attempted, retryLeft, dirty, processing,
          delayed, started, backlog, sender, worker, generation, stop,
          brokerReady, serverUp, flips, sentAt, acked, accepts, quiet, owed>>

fields == <<requested, completed, attempted, retryLeft>>
workqueue == <<dirty, processing, delayed>>
environment == <<brokerReady, serverUp, flips>>
history == <<sentAt, acked, accepts, quiet, owed>>

NoDelay == -1
MaxDelay == IF RetryDelay > BrokerDelay THEN RetryDelay ELSE BrokerDelay
Names == Range(Informers)
Broker == "broker"
HasBroker == Broker \in Names
Cancelled == stop # "up"
QueueShutDown == stop \in {"shut", "down"}

-----------------------------------------------------------------------------
(* The work queue's operations (k8s.io/client-go/util/workqueue).          *)

(* Add: coalesced with an entry that is already waiting; ignored after     *)
(* ShutDown.                                                               *)
Add == dirty' = (dirty \/ ~QueueShutDown)

(* The key is in the list Get takes from.                                  *)
Queued == dirty /\ ~processing

(* What AddAfter(key, d) leaves pending: the earlier of the two deadlines. *)
Sooner(d) == IF delayed = NoDelay \/ d < delayed THEN d ELSE delayed

AddAfter(d) == delayed' = IF QueueShutDown THEN delayed ELSE Sooner(d)

(* The queue's waiting loop adds the key whose deadline has passed.        *)
DelayExpires ==
    /\ delayed = 0
    /\ ~QueueShutDown
    /\ delayed' = NoDelay
    /\ Add
    /\ UNCHANGED <<fields, processing, started, backlog, sender, worker,
                   generation, stop, environment, history>>

-----------------------------------------------------------------------------
(* Informer callbacks.                                                     *)

(* Notifications stored and not delivered; only the bound counts them.     *)
Backlog == FoldFunction(LAMBDA x, y : x + y, 0, backlog)

(* A watched object: whether it is ready, and what else its handler looks  *)
(* at (labels and identity of a Node, restarts of an API server pod, the   *)
(* desired number of the broker DaemonSet).                                *)
Objects == [ready : BOOLEAN, mark : 0..1]
Events == [kind : {"add", "update", "delete"}, old : Objects, new : Objects]

(* With both node triggers, readiness and labels, configured.              *)
shouldRequestOnNodeUpdate(old, new) == old.ready # new.ready \/ old.mark # new.mark

shouldRequestOnAPIServerUpdate(old, new) ==
    new.ready /\ (old.ready => new.mark > old.mark)

(* The filters of the event handlers.                                      *)
ShouldRequest(i, e) ==
    \/ e.kind = "delete"
    \/ e.kind = "add" /\ (i \in {"node", Broker} \/ e.new.ready)
    \/ /\ e.kind = "update"
       /\ \/ i \in {"pod", Broker} /\ e.old.ready # e.new.ready
          \/ i = Broker /\ e.old.mark # e.new.mark
          \/ i = "node" /\ shouldRequestOnNodeUpdate(e.old, e.new)
          \/ i = "api" /\ shouldRequestOnAPIServerUpdate(e.old, e.new)

(* What the broker informer's store says before and after an event.        *)
BrokerStore(e) ==
    /\ brokerReady = (e.kind # "add" /\ e.old.ready)
    /\ brokerReady' = (e.kind # "delete" /\ e.new.ready)

(* An event of informer i that its handler lets through is in the          *)
(* informer's store; one that it does not changes nothing here.  An        *)
(* informer delivers from the moment Start has started its factory, before *)
(* its cache has synced.                                                   *)
Notify(i) ==
    /\ worker \notin {"idle", "gaveUp"}
    /\ ~Cancelled
    /\ \E k \in DOMAIN Informers : Informers[k] = i /\ k <= started + 1
    /\ requested + Backlog < MaxEvents
    /\ backlog' = [backlog EXCEPT ![i] = @ + 1]
    /\ \E e \in Events : /\ ShouldRequest(i, e)
                         /\ IF i = Broker THEN BrokerStore(e) ELSE UNCHANGED brokerReady
    /\ UNCHANGED <<fields, workqueue, started, sender, worker, generation,
                   stop, serverUp, flips, history>>

(* sendRequest, first statement: requestedGeneration.Add(1).               *)
SendRequest(i) ==
    /\ backlog[i] > 0
    /\ sender[i] = "idle"
    /\ backlog' = [backlog EXCEPT ![i] = @ - 1]
    /\ requested' = requested + 1
    /\ sender' = [sender EXCEPT ![i] = "adding"]
    /\ UNCHANGED <<completed, attempted, retryLeft, workqueue, started,
                   worker, generation, stop, environment, history>>

(* sendRequest, second statement: queue.Add(topologyQueueKey).             *)
SendRequestAdd(i) ==
    /\ sender[i] = "adding"
    /\ sender' = [sender EXCEPT ![i] = "idle"]
    /\ Add
    /\ UNCHANGED <<fields, processing, delayed, started, backlog, worker,
                   generation, stop, environment, history>>

-----------------------------------------------------------------------------
(* Start: the informers one after the other, each until its cache has      *)
(* synced, then run(); a cancelled context makes Start return.             *)

(* Wait until the API is healthy, or give up after healthCheckTimeout.     *)
waitForTopograph == worker' = IF serverUp THEN "starting" ELSE "gaveUp"

(* Controller.Start.                                                       *)
Start ==
    /\ worker = "idle"
    /\ waitForTopograph
    /\ UNCHANGED <<fields, workqueue, started, backlog, sender, generation,
                   stop, environment, history>>

WaitForInformerCache ==
    /\ worker = "starting"
    /\ \/ /\ started < Len(Informers)
          /\ started' = started + 1
          /\ UNCHANGED worker
       \/ /\ started = Len(Informers)
          /\ worker' = "get"
          /\ UNCHANGED started
       \/ /\ started < Len(Informers)
          /\ Cancelled
          /\ worker' = "exited"
          /\ UNCHANGED started
    /\ UNCHANGED <<fields, workqueue, backlog, sender, generation, stop,
                   environment, history>>

-----------------------------------------------------------------------------
(* processNextWorkItem.                                                    *)

(* The deferred queue.Done(key); the key goes back to the list if it was   *)
(* added meanwhile.                                                        *)
Done == processing' = FALSE

(* Mutant: the shutdown flag of Get is ignored.                            *)
GetKeyForever ==
    /\ worker = "get"
    /\ Queued
    /\ dirty' = FALSE
    /\ processing' = TRUE
    /\ worker' = "got"
    /\ UNCHANGED <<fields, delayed, started, backlog, sender, generation,
                   stop, environment, history>>

(* queue.Get: the key, or the end once the queue is shut down and empty.   *)
GetKey ==
    /\ worker = "get"
    /\ \/ /\ Queued
          /\ dirty' = FALSE
          /\ processing' = TRUE
          /\ worker' = "got"
       \/ /\ ~Queued
          /\ QueueShutDown
          /\ worker' = "exited"
          /\ UNCHANGED <<dirty, processing>>
    /\ UNCHANGED <<fields, delayed, started, backlog, sender, generation,
                   stop, environment, history>>

(* Mutant: every entry counts as news.                                     *)
NeverObsolete(g) == FALSE

(* Mutant: an entry counts as obsolete once its generation was attempted.  *)
ObsoleteIfAttempted(g) == g <= attempted

(* An entry whose generation has been completed is obsolete.               *)
Obsolete(g) == g <= completed

(* Mutant: no entry counts as early.                                       *)
NeverEarly(g) == FALSE

(* An entry of the generation attempted last, before its retry deadline.   *)
Early(g) == g = attempted /\ retryLeft > 0

(* time.Until(s.retryNotBefore), asked before that deadline.               *)
UntilRetry == retryLeft

(* Load the generation; discard, postpone or go on to reconcile.           *)
Decide ==
    /\ worker = "got"
    /\ generation' = requested
    /\ \/ /\ Obsolete(requested)
          /\ worker' = "get"
          /\ Done
          /\ UNCHANGED delayed
       \/ /\ ~Obsolete(requested)
          /\ Early(requested)
          /\ AddAfter(UntilRetry)
          /\ worker' = "get"
          /\ Done
       \/ /\ ~Obsolete(requested)
          /\ ~Early(requested)
          /\ worker' = "reconcile"
          /\ UNCHANGED <<processing, delayed>>
    /\ UNCHANGED <<fields, dirty, started, backlog, sender, stop,
                   environment, history>>

(* Mutant: the generation is read again when the attempt has succeeded.    *)
CompletesLatest == requested

(* The generation a successful attempt completes.                          *)
Completes == generation

(* The rest of processNextWorkItem once reconcile has returned res.        *)
Finish(res) ==
    IF Cancelled
    THEN /\ worker' = "exited"
         /\ Done
         /\ UNCHANGED <<completed, attempted, retryLeft, delayed, quiet, owed>>
    ELSE /\ worker' = "get"
         /\ Done
         /\ attempted' = generation
         /\ CASE res = "error" ->
                   /\ retryLeft' = RetryDelay
                   /\ AddAfter(RetryDelay)
                   /\ quiet' = 0 /\ owed' = RetryDelay
                   /\ UNCHANGED completed
              [] res = "notReady" ->
                   /\ retryLeft' = BrokerDelay
                   /\ AddAfter(BrokerDelay)
                   /\ quiet' = 0 /\ owed' = BrokerDelay
                   /\ UNCHANGED completed
              [] res = "ok" ->
                   /\ retryLeft' = 0
                   /\ completed' = Completes
                   /\ UNCHANGED <<delayed, quiet, owed>>

(* reconcile: the broker gate, then the request goes out.                  *)
Reconcile ==
    /\ worker = "reconcile"
    /\ IF HasBroker /\ ~brokerReady
       THEN /\ Finish("notReady")
            /\ UNCHANGED sentAt
       ELSE /\ worker' = "sent"
            /\ sentAt' = requested
            /\ UNCHANGED <<completed, attempted, retryLeft, processing,
                           delayed, quiet, owed>>
    /\ UNCHANGED <<requested, dirty, started, backlog, sender, generation,
                   stop, environment, acked, accepts>>

(* reqExecFunc returns.  A cancelled context fails the request, unless the *)
(* answer was there first; reconcile returns no error for it.              *)
Response ==
    /\ worker = "sent"
    /\ \/ /\ serverUp
          /\ acked' = sentAt
          /\ accepts' = accepts + 1
          /\ Finish("ok")
       \/ /\ ~serverUp \/ Cancelled
          /\ Finish("error")
          /\ UNCHANGED <<acked, accepts>>
    /\ UNCHANGED <<requested, dirty, started, backlog, sender, generation,
                   stop, environment, sentAt>>

-----------------------------------------------------------------------------
(* Stop (once): cancel, ShutDown of the queue, Shutdown of the factories,  *)
(* which waits for the callbacks that are running.                         *)
Stop ==
    /\ \/ stop = "up" /\ stop' = "cancelled"
       \/ stop = "cancelled" /\ stop' = "shut"
       \/ /\ stop = "shut"
          /\ \A i \in Names : sender[i] = "idle" /\ backlog[i] = 0
          /\ stop' = "down"
    /\ UNCHANGED <<fields, workqueue, started, backlog, sender, worker,
                   generation, environment, history>>

ServerFlips ==
    /\ flips < MaxFlips
    /\ flips' = flips + 1
    /\ serverUp' = ~serverUp
    /\ UNCHANGED <<fields, workqueue, started, backlog, sender, worker,
                   generation, stop, brokerReady, history>>

Tick ==
    /\ delayed > 0 \/ retryLeft > 0
    /\ delayed' = IF delayed > 0 THEN delayed - 1 ELSE delayed
    /\ retryLeft' = IF retryLeft > 0 THEN retryLeft - 1 ELSE 0
    /\ quiet' = IF quiet < MaxDelay THEN quiet + 1 ELSE quiet
    /\ UNCHANGED <<requested, completed, attempted, dirty, processing,
                   started, backlog, sender, worker, generation, stop,
                   environment, sentAt, acked, accepts, owed>>

-----------------------------------------------------------------------------
Init ==
    /\ requested = 0 /\ completed = 0 /\ attempted = 0 /\ retryLeft = 0
    /\ dirty = FALSE /\ processing = FALSE /\ delayed = NoDelay
    /\ started = 0
    /\ backlog = [i \in Names |-> 0]
    /\ sender = [i \in Names |-> "idle"]
    /\ worker = "idle" /\ generation = 0 /\ stop = "up"
    /\ brokerReady = FALSE
    /\ serverUp \in BOOLEAN
    /\ flips = 0
    /\ sentAt = 0 /\ acked = 0 /\ accepts = 0
    /\ quiet = 0 /\ owed = 0

Next ==
    \/ \E i \in Names : Notify(i) \/ SendRequest(i) \/ SendRequestAdd(i)
    \/ DelayExpires
    \/ Start \/ WaitForInformerCache
    \/ GetKey \/ Decide \/ Reconcile \/ Response
    \/ Stop \/ ServerFlips \/ Tick

Spec == Init /\ [][Next]_vars

(* The goroutines run, time passes, and an exchange with the API ends, in  *)
(* an answer or in an error (http.Client sets no timeout, so this is left  *)
(* to the network).  Nothing is assumed of the state of the API or of the  *)
(* broker, nor that Stop is called or gets further.                        *)
Fairness ==
    /\ WF_vars(Start) /\ WF_vars(WaitForInformerCache)
    /\ WF_vars(GetKey) /\ WF_vars(Decide) /\ WF_vars(Reconcile)
    /\ WF_vars(Response) /\ WF_vars(DelayExpires) /\ WF_vars(Tick)
    /\ \A i \in Names : WF_vars(SendRequest(i)) /\ WF_vars(SendRequestAdd(i))

FairSpec == Spec /\ Fairness

-----------------------------------------------------------------------------
TypeOK ==
    /\ requested \in Nat /\ completed \in Nat /\ attempted \in Nat
    /\ retryLeft \in 0..MaxDelay
    /\ dirty \in BOOLEAN /\ processing \in BOOLEAN
    /\ delayed \in {NoDelay} \cup 0..MaxDelay
    /\ started \in 0..Len(Informers)
    /\ backlog \in [Names -> Nat]
    /\ sender \in [Names -> {"idle", "adding"}]
    /\ worker \in {"idle", "starting", "get", "got", "reconcile", "sent",
                   "exited", "gaveUp"}
    /\ generation \in Nat
    /\ stop \in {"up", "cancelled", "shut", "down"}
    /\ brokerReady \in BOOLEAN /\ serverUp \in BOOLEAN /\ flips \in Nat
    /\ sentAt \in Nat /\ acked \in Nat /\ accepts \in Nat
    /\ quiet \in 0..MaxDelay /\ owed \in 0..MaxDelay

(* completedGeneration never runs ahead of the requests the API accepted:  *)
(* an event of a completed generation happened before some accepted        *)
(* request was sent, so that request's topology reflects it, however many  *)
(* events arrived while processNextWorkItem was waiting for the answer.    *)
CompletedIsBacked == completed <= acked /\ acked <= requested

(* While the observer runs, an event that no completed attempt covers has  *)
(* something left that will bring the worker back to it: a notification or *)
(* a callback in progress, a queued, parked or delayed entry, or the       *)
(* worker's own attempt.  Add's coalescing and the discarding of obsolete  *)
(* entries lose no event.                                                  *)
NoLostEvent ==
    requested > completed /\ ~Cancelled =>
        \/ \E i \in Names : sender[i] = "adding"
        \/ dirty
        \/ delayed # NoDelay
        \/ worker \in {"got", "reconcile", "sent"}

(* Every accepted request but one cut off by Stop completes a generation   *)
(* that no earlier one had completed: an obsolete delayed entry, which     *)
(* AddAfter cannot take back, is discarded and not turned into another     *)
(* generation of the same topology.                                        *)
NoRedundantRequest ==
    [][accepts' > accepts /\ ~Cancelled => completed' > completed]_vars

(* An attempt that no new event asks for starts no earlier than the retry  *)
(* delay of the attempt before it: "postpone an obsolete entry until the   *)
(* latest attempt's retry deadline instead of reconciling too early".      *)
RetrySpacing ==
    [][worker = "got" /\ worker' = "reconcile" /\ attempted > completed
       /\ requested = attempted => quiet >= owed]_vars

(* If from some point on the API answers and the broker is ready, and the  *)
(* observer is not stopped, every event is covered by a completed attempt. *)
EventsAreServed ==
    <>[](serverUp /\ (HasBroker => brokerReady) /\ ~Cancelled) =>
        \A g \in 1..MaxEvents : [](requested >= g => <>(completed >= g))

(* Once Stop has shut the queue down, the worker returns: an entry left in *)
(* the queue is drained with a cancelled context, never retried for ever.  *)
StopEndsWorker == (stop = "shut") ~> (worker \in {"exited", "gaveUp"})
=============================================================================
