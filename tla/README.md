# Topograph in TLA+

Topograph discovers the network topology of a cluster through a provider (a
cloud API, a fabric manager, node labels), turns it into a graph, and lets an
engine write it where a scheduler reads it (Slurm files, a ConfigMap, node
labels, NFD objects).  These modules model the parts of it in which several
things happen at once, and the whole way of one request from its payload to its
output.  The TLC configurations check them on small instances, and the `*Proofs`
modules hold theorems that TLAPS checks for every value of the constants.

## The system

| Part | State | Operations | What is hard about it |
|---|---|---|---|
| API server, `pkg/server/http_server.go` | the queue, one `stopOnce` | generate, getresult, healthz, Start, Stop | shutdown while requests and timers are in flight |
| Request queue, `trailing_delay_queue.go` | map of timers, LRU of completions, shutdown channel | Submit, timer callback, Get, Shutdown, run | callbacks run their handler without the mutex and overlap |
| Request history, `lru.go` | list and map | Add, Get | eviction at capacity |
| Request processing, `engine.go` | locals of the retry loop | five attempts, each of seven calls | failure at any call; sleeps nothing can cancel |
| Node observer, `pkg/node_observer` | generation counters, retry deadline, work queue | informer callbacks, worker, Start, Stop | events during an attempt, delayed entries that cannot be taken back, the broker gate |
| HTTP client, `internal/httpreq` | locals of the retry loop | DoRequestWithRetries, waitForRetry | Retry-After, cancellation racing a timer |
| lambdai credential, `token.go` | cached key, two mutexes | Token, deferRefresh, InvalidateIfCurrent | shared by all requests; expiry, revocation and failed refreshes interleave |
| Cloud providers, `pkg/providers/{aws,gcp,oci,nebius,lambdai,nscale,firebird,crusoe,dsx}` | locals of one request | credentials, page loops, conversion of hosts | paging, order, partial answers, failures of every call |
| On-premises providers, `pkg/ib`, `pkg/providers/{infiniband,netq,nautobot,nodelabels,dra}` | locals of one request | scan of the nodes, walk over the fabric, accelerator domains | redundant switches, lost links, nodes that do not answer |
| Simulations and model files, `*_sim.go`, `pkg/models` | a parsed file | Loader, injected errors | what a file stands for |
| Topology and translation, `pkg/topology`, `pkg/translate`, `internal/cluset` | values | ToGraph, merging, block trees, units, Slurm and YAML output, host lists | pure algorithms with many interacting cases |
| Engines, `pkg/engines` | objects in the cluster | list, patch, create, update, delete | stale reads, partial failure, overlapping generations |
| Node data broker, `cmd/node-data-broker` | annotations of its node | read, merge, update | conflicts with other writers of the Node |

The observer sends generate requests through the HTTP client to the API server.
The server answers 202 at once and hands the request to the queue; after a quiet
period the queue's callback runs the request processing, which calls a provider
(several of them through the HTTP client, one of them with the credential) and
an engine.  Clients poll the outcome in the request history.

`PROJECT.json` lists every part with its source files, the hazards at the lines
where they bite, the lines each definition stands for, and for every checked
property a small change of the code that breaks it.  Definitions marked
"Mutant" in the modules are those changes; no specification uses them.

## Modules

| Module | Models | State and actions |
|---|---|---|
| `LruCache` | `lru.go` | a cache is a record of the list (front first) and the map; `Add`, `Touch` (the reordering `Get`), `RemoveOldest` |
| `LruCacheUse` | a client of it | every sequence of `Calls` calls, with the call history for comparison |
| `TrailingDelayQueue` | the queue | one record per submission, numbered; pointer comparison is comparison of numbers; `Submit`, `Fire`, `Handle`, `Complete`, `Get`, `Shutdown`, `Run`, `Tick` |
| `ResultBoard` | what the queue promises | under each hash an owner and a result; accept, publish, forget |
| `RequestProcessor` | `engine.go` | one call with its attempts, stage by stage |
| `HttpReq`, `HttpRetry` | `httpreq.go` | retry decision, Retry-After and backoff as operators; one `DoRequestWithRetries` call with a cancelling caller |
| `StatusInformer` | `status_informer.go`, `health.go`, `controller.go` | counters, work queue (external, from client-go as it is used), the events that pass the handlers' filters, informer callbacks in their two statements, worker in four steps, `Stop` in three |
| `TokenCredential` | `token.go` and `InstanceList` in `provider.go` | cached key, `refreshMu`, callers with a program counter, and a server that mints, expires and revokes keys; a key's deadline is what `expiryOf` reads from the answer, which need not be the server's own |
| `K8sLabels` | `pkg/engines/k8s` | labels of the Nodes, by default and configured keys, per handler its `cachedNodeMap` and the labels it wants; listing, translation of the graph, fetch, merge and patch of one Node at a time; other controllers |
| `NfdObjects` | `pkg/engines/nfd` | the managed objects, per generation the wanted ones and two goroutines that patch, create, list and delete |
| `Cluset` | `internal/cluset` | host lists: a text is a prefix and a number with a width; `Compact`, `Expand`, `ExpandWithLimit` |
| `FabricGraph` | `pkg/topology` | what a provider reports about a host; `ToGraph` with `mergeVertices`, normalised names and trimmed tiers; the domain map |
| `BlockTree` | `pkg/topology/domain.go`, `pkg/translate/block_tree.go` | domain tree, inferred block sizes, base and aggregate blocks, padding |
| `NetTopology` | `pkg/translate/topology.go`, `tree.go`, `block.go`, `block_complement.go` | `NewNetworkTopology`: `initTree`, `initBlocks`, `complementBlocks` |
| `TopologyOutput` | `pkg/translate/tree.go`, `block.go`, `yaml.go` | topology.conf in tree and block form, topology.yaml, skeletons, `GetNodeTopologySpec` |
| `CloudProviders` | the cloud providers | credentials and loaders, the conversion of one host |
| `SimModel` | `pkg/models`, the simulations, `pkg/providers/providers.go` | model files, what each simulated API answers, `GroupByRegion` |
| `OnPremProviders` | the on-premises providers, `pkg/ib`, `pkg/accelerator`, `Merger` | the fabric as a set of cables; what each provider makes of it |
| `SlurmEngine` | `pkg/engines/slurm`, `pkg/engines/graph` | parameters, partitions, the document of instances |
| `Generation` | `pkg/server`, and all of the above | one request: `stage` is the next step, one action per call that can fail or page that arrives |
| `SlinkyEngine` | `pkg/engines/slinky`, `cmd/node-data-broker`, `internal/k8s/node_metadata.go` | the cluster (Nodes, Pods, ConfigMap, a broker) beside a request of `Generation`; other writers |
| `Soundness` | what the outputs of both have to say | no state of its own: what the cloud says a tree, a block file, a unit, a document or the Nodes should be, and the properties that compare them with what is written |
| `Publication` | what a request promises about what it writes | file, ConfigMap and Nodes, with the order of the stages; discovery, translation and the other writers are left open |
| `MC*` | | values for TLC |
| `LruCacheProofs`, `ServerProofs`, `ObserverProofs`, `TokenCredentialProofs`, `K8sLabelsProofs`, `NfdObjectsProofs`, `PublicationProofs`, `SlinkyProofs` | | theorems; `ServerProofs` is about `TrailingDelayQueue` and `RequestProcessor`, `ObserverProofs` about `StatusInformer` and `HttpRetry`, `SlinkyProofs` about `SlinkyEngine` and the `Generation` below it |

Where one module of proofs is about two state machines, the second has names of
its own for its parts (`HandlerSpec`, `NextStep` and `handlerVars` in
`RequestProcessor`; `ClientSpec`, `NextClient` and `clientVars` in `HttpRetry`).  The
loops and recursions of the code are folds, recursive functions, or the bounded
loop `Repeat` and the queue of `BreadthFirst` in `FabricGraph`; no module declares a
recursive operator.

Locks: a section that holds a mutex from start to end is one action.  Everything
that other goroutines can see in between is a separate action: the handler
inside a timer callback, the two statements of `sendRequest`, the steps of
`Token` between its critical sections.

Composition: the queue's module instantiates `LruCache` for its history and
`ResultBoard` for its promise; `SlinkyEngine` is shown to implement `Publication`
(in `SlinkyProofs`); `RequestProcessor` and `HttpRetry` share `HttpReq`.
The queue takes from `RequestProcessor` that a handler returns
(`HandlerReturns`), which is the fairness of its `Handle`.  In the engines' modules
several handlers run at once because the queue's callbacks do, and an attempt
that the processing starts over is another handler.  A failing API call may have
had its effect.

`Generation` composes the operator modules into one request, `SlinkyEngine` adds
the cluster.  Texts are abstracted: a name, an ID or a label value is a record of
a prefix, a number and its width, in the order Go sorts the strings, so that
sorting, compaction, zero padding and generated names are what they are in the
code while no text is spelled out.  A cloud is a function from instance IDs to
hosts with their switches, labels and domains; a fabric is derived from it as
a set of cables, with twins of redundant switches and links that are down.
The properties in `Soundness` compare what is written with the cloud itself (`Truth`), never with
the graph on the way.

A request of `Generation` passes the stages of the code.  `readRequest` is `generate`:
the payload is completed from the configuration (names, provider and engine
parameters), validated, and given to the test provider, which may be told to answer
here, before the request is queued (`HandleTestProviderRequest`), or in place of the
topology (`ToldTo`).  The engine is loaded before the provider: the graph engine
decodes its parameters then (`LoadFileEngine`), the slinky engine its own and sets up its
client, rate limits included (`LoadEngine`); the slurm engine decodes its parameters when
it translates.  The slinky engine lists the pods of one section at a time
(`resolveTopologies`), and others may write between two listings.

A unit of topology.yaml records the switches above each child of its switches as its own
walk over the partition reaches them (`UnitParents`), and `GetNodeTopologySpec` reads those.
Blocks that are rebuilt have an ID and hosts; their display name, with the parsing of the
base block's ID and the look-up of a placeholder's domain behind it, ends up in a comment
of topology.conf, and every host of a domain map has a name.

Simplifications of `Generation`: a node that answers `pdsh` answers each command;
`ibnetdiscover`'s text is the set of its cables; the pages of one nautobot batch are
one step; the simulation of firebird injects its topology error only; requests
to infiniband-k8s name Nodes by instance ID; the test provider has a model file.

## Runs

| Run | Bounds | Shows |
|---|---|---|
| `history` | 4 keys, 2 values, capacity 3, 7 calls | `CacheWellFormed`: list and map agree and respect the capacity. `KeepsMostRecent`: the cache holds exactly the most recently used keys, in order, with their last values |
| `queue` | requests sharing and not sharing a hash, 3 submissions, capacity 1, delay 1, handler outcomes 200, 202 and 502 | `LatestWins`, `NoLostResult`, `NothingStartsAfterStop`, `QuietPeriod`, the refinement `ImplementsResultBoard`, and `EverySubmissionSettles` |
| `history_eviction` | the same | expected violation: a request in progress can be evicted (finding below) |
| `observer` | node and broker informers, 3 events, 2 changes of the API server, retry delay 2, broker delay 1 | `CompletedIsBacked`, `NoLostEvent`, `NoRedundantRequest`, `RetrySpacing`, `EventsAreServed`, `StopEndsWorker` |
| `http_retry` | 5 attempts, wait cap 6, all kinds of Retry-After | `TotalWaitBounded`, `CancelIsPrompt`, `ReturnsIfAnswered` |
| `processing` | 5 attempts, one code that is not retried and two that are | `BackoffSchedule`, `OutputIsFresh`, `SuccessWasWritten`, `HandlerReturns` |
| `credential` | 2 callers, 2 keys minted, clock to 2, lifetimes -1 and 3, answers that take 1, a default lifetime of 2 and a refresh window of 2 | `NoResurrection`, `RetryUsesAnotherKey`, `ServedKeyIsLive`, `OnlyRejectedKeysDropped`, `NoNeedlessExchange`, `CallsEnd` |
| `labels` | 2 handlers (symmetric), 2 Nodes in and outside the selection, 2 writes of other controllers, 4 graphs | `ForeignLabelsPreserved`, `OutsideSelectionPreserved`, `SuccessReconciles` |
| `source_label` | those of `labels`, with a fabric label under the key of the source label | expected violation: the source label is overwritten (finding below) |
| `nfd` | 2 generations (symmetric), 2 nodes, 3 values, 6 inputs with and without clean-up | `SuccessIsExact`, `NeverEmptied` |
| `nfd_overlap` | the same | expected violation: an overlapping clean-up removes groups in use (finding below) |
| `generation` | 141 requests (below) | `TreeFileSound`, `BlockFileSound`, `AggregatesKeepDomains`, `UnitsMatchSpecs`, `DocumentSound`, `SlinkyAgrees`, `NoLostUpdate`, `ListingsEnd` |

Why the bounds are enough for the interesting cases: three submissions are an
old handler, its replacement and a third that replaces or evicts; capacity 1
makes every request for another hash evict.  Three events are one attempted, one
that arrives during the attempt and one after it; two changes of the server are
an outage and its end, with a retry pending.  The HTTP and processing loops run
at the code's own limit of five attempts; the wait cap of 6 units lies between
the third and the fourth backoff, so both sides of it occur.  Two callers of the
credential are enough for every pairwise race; by the three ways to learn a deadline
their keys last shorter and longer than the refresh window, are dead on
arrival, or die before their deadline.  Its clock is short because of `CallsEnd`;
the safety properties are proved for every clock.  Two handlers of an engine are a pair that overlaps, or one that fails half way and one that follows;
two writes move a Node out of the selection and back, or change the source label
and the selection.  The history variables `alone` and `overlapped` say which of
these a behaviour is.

The run `generation` (`MCGeneration`) takes one of its requests at a time, each
with every cloud, model file or cluster of a set, every order and paging of the
listings, every call failing or not, and one write of somebody else:

* trees: each cloud provider over all placings of two or three hosts on two leaf
  switches of one spine switch, one of another, or none; partial paths, trimmed
  tiers, two regions, hosts that are not asked for or not there;
* blocks: every way of putting four or five hosts into two domains and two
  sub-domains, with inferred and with one to three configured sizes: each size
  smaller, equal to and larger than a domain occurs, with one padding block or more;
* units: partitions that are given, looked up, empty or unknown, over all placings
  of four hosts, with block names that fail;
* simulations with every injected error, broken model files, documents, nodes
  found through SLURM, refused payloads and credentials, parameters that do not
  decode, and answers the test provider is told to give;
* on premises: all placings on two islands, redundant switches at every tier, one lost
  link, hosts that are not asked for beside one that is or alone on a switch,
  full and short host names, hosts that share an alias;
* Slinky: ConfigMap there or not, skeleton or full, static or dynamic nodes, pods
  that are not ready, sections listed one after the other, a client that cannot be
  set up, Nodes without annotations, a broker that is annotating one,
  identities read from other annotations or labels.

Host numbers 8 to 12 put the change from one digit to two into every host list.
Two hosts tell sharing from not sharing at each tier; the third is needed
where hosts that were not requested matter.

Deadlock checking is off where the modelled thing ends: a call returns, a server
stops, and the bounds on inputs are exhausted.

### Fairness

* Queue: the clock runs, due callbacks start, whoever waits for the mutex gets
  it, handlers return.  Nothing makes clients submit, read or shut down.
* Observer: its goroutines run, time passes, an exchange with the API ends in an
  answer or an error.  `http.Client` sets no timeout, so the last of these is an
  assumption on the network.  Nothing is assumed of the API's state, the broker
  or `Stop`: `EventsAreServed` has "the API and the broker are eventually ready
  for good" as its premise.
* HTTP client: the caller runs and time passes.  Nothing makes the server
  answer; `ReturnsIfAnswered` has that as its premise.
* Processing: every call returns, time passes.
* Generation: a page that is asked for arrives, or the call fails.  A server may
  repeat a page token to oci and firebird as often as it likes: they notice, and
  `ListingsEnd` shows that they stop.  To the others it does so at most `MaxRepeats` times:
  their page loops do not notice, so they end only if the server behaves.
* Credential: weak fairness of each caller's steps after it has called, strong fairness of taking
  `refreshMu`, which `sync.Mutex` provides (a waiter cannot be overtaken for ever).

### Findings

`InProgressIsAccepted` states docs/providers/test.md line 71: while the internal
retries of a request run, `/v1/topology` continues to return `202 Accepted`.
The run `history_eviction` shows the exception: the history evicts its least
recently used request whether or not its handler is running, so with more
outstanding requests than `requestHistorySize` a poll gets 404.  The theorem
`QueueInProgressIsAccepted` shows that a full history is the only way, but for handlers that
report 404 themselves.

`EveryValueHasGroup` states the comment on `buildNFDObjects` (objects.go line 85):
per-node features and groups for each distinct topology value.  The run
`nfd_overlap` shows two overlapping generations that both succeed: the second
lists a group the first has just created as stale, the first writes the node's
feature last, and the second then deletes the group, so that the feature's value
has none.  The theorem `GroupedUnlessOverlapped` shows that this takes an overlap.

`SourceLabelPreserved` states docs/api.md line 145: the source label is never
overwritten.  `getParameters` accepts a fabric label under the key of
`acceleratorDomainSourceLabel`, and the run `source_label` shows that the engine
then writes its own value over the other controller's.  The theorem `SourceLabel`
shows that nothing else can.

## Proofs

`LruCacheProofs` proves what `Add`, `Touch` and `RemoveOldest` do to a well-formed
cache, for every set of keys and values and every positive capacity: the result
is well-formed, `Touch` keeps all entries, `Add` sets its key, and every other
entry is kept or evicted.  It then proves both properties of the run `history` for any number
of calls.  `CacheWellFormed` follows from those lemmas alone.  `KeepsMostRecent` needs
the invariant `UseInv`: the list is in the order of last use (`Ordered`), no use lies
in the future (`Times`), and a key that was used and is gone was used before every
key that is left, in a full cache (`Evicted`).  The order is what makes the back
of the list the least recently used key, and that it is full is what makes the
eviction necessary.

`ServerProofs` proves, for all requests, hashes, error codes, delays,
positive capacities and numbers of submissions, every safety property of the run
`queue`: the invariants, `QuietPeriod`, and that the queue implements `ResultBoard`.
The invariant `IInv` adds to the checked invariants what makes them inductive:

* `Fresh`: submissions not made yet have no timer, so the number `Submit` allocates
  is nobody else's;
* `Handled`: a callback past its handler has one of the handler's codes;
* `Aged`: an older submission has waited at least as long as a newer one;
  without it `QuietPeriod` would not follow from the timer's own age;
* `StoreWellFormed`, without which the lemmas about the history do not apply.

`LatestWins` and `TimersTrackLatest` need each other's shape but not each other:
the entry may be evicted while the timer stays.  `NoLostResult` needs
`TimersTrackLatest`, since a stopped timer's entry must have been replaced.
Assumptions: `HashOf` maps requests to hashes, the capacity is positive (the
configuration sets it), delay and number of submissions are natural numbers,
codes are natural numbers.

`QueueInProgressIsAccepted` says when the statement of the first finding does hold: if
the history has room for every hash and no handler reports 404 itself (`Roomy`),
no request in progress is answered 404.  The list of a well-formed history that
lacks a hash is an injection that is not onto, so it is shorter than the capacity
and `Add` evicts nothing (`AddFits`); every submission is then remembered for ever
(`Remembered`).

`K8sLabelsProofs` proves the three properties of the run `labels`, and
`SourceLabelPreserved`, for all Nodes, keys, graphs, handlers and writes of others.
`SafeInv` adds that the labels a handler wants are under managed keys
(`ManagedOnly`), that it patches a Node it has labels for and has fetched (`AtNode`),
and that a Node which matched when it was read is recorded as one that ever did
(`EverIn`).  `ReconcileInv` follows one handler: while nobody else writes, the labels
it has cached are those of the Nodes (`Coherent`), and the Nodes it has done hold
its graph's labels (`Done`).  The keys the engine manages are the default ones beside
those configured, so that a domain left under the default key goes when another key
is configured; the run has the default key configured, the theorems have any.
`SourceLabel` and `SuccessfulHandlers` assume that the source
label's key is not a managed one; the finding shows that the first needs it.
Assumptions of the module: the pool label is nobody else's key, graphs are about
Nodes of the cluster and have no more tiers than there are default keys, and with a
source label the domain label has its default key.

`TokenCredentialProofs` proves every safety property of the run `credential` for all
callers, lifetimes, windows, jitters, backoffs and clocks.  The invariant says of
the cached key that it was minted, has not left the cache before and is refreshed
no later than it expires (`CurOK`), and of each caller what it may still do with what it has
seen (`CallerOK`): behind `refreshMu` nobody else mints, so the value it set out to
renew is still there or was dropped.  `RefreshInTime` is the arithmetic: whatever
the jitter, integer division keeps the refresh time before the hard expiry.

`ObserverProofs` proves every safety property of the run `observer` for any
informers, delays, events and changes of the server.  The invariant adds that an
attempt under way is for a generation that is not completed, with later events
still pending (`Attempting`), and that
the time since the last attempt and the time left to its deadline add up to at
least the delay that is owed (`Spaced`).

`NfdObjectsProofs` proves both properties of the run `nfd` for all topologies and
generations.  A goroutine has left to do only what its generation wants, and then
only what it does not (`Works`); what it has done is in the cluster while nobody
else writes (`Progress`); without overlap nobody does (`Undisturbed`); and a generation
that cleans up wants something (`Wants`), which is where `GenerateOutput`'s refusal of
an empty result enters.  `GroupedUnlessOverlapped` says that the second finding takes an
overlap: without one, every published value has its group once all generations
have succeeded.  While generations apply, the group of a value is there or
still to be applied by one of them (`Grouped`); what `buildNFDObjects` asks for has a
group for every value (`BuiltAreClosed`); and a clean-up that ends leaves only that.
Assumptions: `Order` lists every object the inputs can ask for, labels and sources
take values, and no kind or value is the absent one.

`ServerProofs` also proves the safety properties of the run `processing` for any number of
attempts and any first backoff.  For `OutputIsFresh` and `SuccessWasWritten` the invariant
says that writes are in the order of their attempts, and that the current attempt
has none before its output stage (`Earlier`).  For `BackoffSchedule` it says (`Schedule`)
that during attempt k the waits before it are over, `InitialBackoff * (2^(k-1) - 1)` in
all, and that during a sleep what was slept and what is left add up to the next of
these sums.  That one step of it doubles (`Doubling`) is a fact about powers of two,
taken from the number of subsets of a set instead of an induction.  Assumptions:
no call fails with code 200, the first backoff is a natural number.

`ObserverProofs` also proves the safety properties of the run `http_retry` for every cap, every set
of codes and every set of Retry-After headers.  `TotalWaitBounded` needs that before
attempt k at most k - 1 waits are over, where a wait in progress counts in full
(`WaitInv`), and that no wait is longer than the longest (`OneWait`), since a later backoff
is never shorter (`Growing`).  It is stated for `MaxRetries > 1`, as the bound itself speaks of the
attempt before the last; the code's constant is 5.  `CancelIsPrompt` needs that whoever is about
to try or is waiting has not begun an attempt with a dead context (`CancelInv`): the end of
such an attempt is where the loop looks at the context.  Assumptions: attempts and cap
are natural numbers, a header's value is an integer.

`PublicationProofs` and `SlinkyProofs` are about the way of one request through
`Generation` and `SlinkyEngine`, for all requests, model files, clouds, fabrics and
clusters.  The detailed specification has some thirty actions and computes whole
topologies in a step, of which the promises about the writes need nothing.
So the promises are stated of `Publication`, which has the same variables
for the request, the file, the ConfigMap, the Nodes and the engine, but in which a
provider, a translation or a listing may come up with anything; they are proved
there; and the detailed one is shown to implement it.

* In `PublicationProofs` the invariant `Inv` says which stages belong to which engine,
  that no answer is given before the last, and where a listing of the nodes goes back to
  (`Control`); what the file is at each stage (`FileInv`); and that a version of the ConfigMap
  stands for its contents, so that a write with the version that was read loses
  nothing (`ClusterInv`).  In every stage after its own, also while the nodes are listed
  in between, the ConfigMap has the output, or a version later than the one that had it
  and by no more than others have written since (`PublishedInv`).  Unless somebody else
  has written, a listed Node has the spec it was listed with or, once the
  reconciliation has begun, the one it should have, the latter for every Node the
  reconciliation is done with (`ListedInv`).  The walk goes by the annotations of the listing, not by
  those of the cluster, which is why both are needed.  A Node may be listed twice, or be
  deleted.  `AnswersArePromises` and `NobodysWriteIsLost` follow.
* In `SlinkyProofs`, `SlinkyImplementsPublication` takes the steps of the detailed
  specification one by one (`ProcessMaps`, `ReadMaps`, `EngineMaps`, `OthersMap`).  A step of the
  discovery must keep the file and the cluster, and if it answers, it must be with an
  error.  That takes the codes of every loader, page loop and translation
  (`RequestCodes`, `ToldCodes`, `LoaderCodes`, `OnPremLoaderCodes`, `PagingErrors`,
  `TranslateCodes`), where 202 is one too: the test provider can be told to give it.  And a
  request is worked on only if its provider and engine are registered (`Known`, which also
  says that the cluster stays finite).
  `ListNodesMaps` shows that a filtered listing has the specs of its Nodes.  `InvMaps`
  carries the invariant over, so that the promises hold of the detailed specification
  (`AnswersHold`), and with them `NoLostUpdate` of the run `generation`
  (`NothingIsLost`).

Assumptions (`KubesAssumption`): a cluster has finitely many Nodes, each with
annotations and a topology spec; a ConfigMap that exists has a version, and one that does
not has no data.  Nothing is assumed of requests, model files, clouds and fabrics.
The refinement and the promises were also checked with TLC on the instance of the run
`generation`.

Several of these modules begin with `USE Zenon`, which makes Zenon the prover of
every leaf that does not name another; the leaves that need arithmetic, records or
case distinctions on functions name SMT.

The invariants of these proofs were also checked with TLC on the instances of the
runs; no run of their own is kept for them.

Only model-checked:

* all liveness properties (`EverySubmissionSettles`, `EventsAreServed`,
  `StopEndsWorker`, `ReturnsIfAnswered`, `HandlerReturns`, `CallsEnd`, `ListingsEnd`),
  which the prover does not handle;
* what the run `generation` says about the content of the outputs (`TreeFileSound`,
  `BlockFileSound`, `AggregatesKeepDomains`, `UnitsMatchSpecs`, `DocumentSound`, `SlinkyAgrees`).
  They compare a file, a document or a Node's spec with the cloud it came from.  Between
  the two lie `mergeVertices`, `buildTree`, `initTree`, `buildBlockTree` and `Compact`: folds and
  loops over trees and sequences, about which nothing can be said for every
  input without an induction over them, and the prover has none to offer.

## What the model shows beyond its properties

These follow from the code as it is; the properties are stated so that they hold
around them.

* Dynamic nodes and OCI or nautobot: `GetNodeTopologySpec` uses switch IDs, while
  topology.conf holds the normalised names.
* A host whose switches are all trimmed is on no line of a tree file.
* `blockName` formats that fail for a block drop it and move the blocks after it.
* A leaf switch none of whose hosts is requested is taken for an upper switch by
  `buildTree` of `pkg/ib`; a lost link between twin switches makes `initTree` refuse the fabric
  (400).  If every `ibnetdiscover` fails, an empty topology is written with 200; so is the one of
  a SLURM cluster without nodes.
* NetQ's accelerator domains hold hosts that were not requested.
* The request hash leaves out nodes and credentials, so such requests supersede
  each other.
* One node with blank metadata makes aws, gcp and oci refuse the whole request;
  nebius and nscale leave it out.
* Overlapping generations write the same objects in any order.

## Not modelled

* Observer: its configuration; a node trigger of one kind only is a filter that lets
  less through.
* Credential: the map of shared credentials in `sharedCredential`.  It holds 32; when
  one is evicted, calls in flight keep it and later ones mint keys with a new
  one, which are two instances of `TokenCredential` that share nothing.
* NFD engine: the listing of Nodes and the naming of objects.
* Broker: what each provider's metadata service answers; the annotations are given.
* End to end: observer, queue and generation in one specification.  The observer does
  not read the result of a request, so it gains nothing from the composition; what
  overlapping generations do to each other is in the engines' modules.
* Crashes of the server: it keeps nothing but what its engines write.  The file is
  truncated before it is written; SLURM reads it when it is told to.
* Configuration parsing, metrics, flags, client set-up, TLS and test-cluster
  generation, which hold no state that changes while the system runs.
