------------------------------ MODULE K8sLabels -----------------------------
(***************************************************************************)
(* The output of the Kubernetes engine (pkg/engines/k8s): each handler of  *)
(* the API server lists the Nodes, waits for its provider, turns the graph *)
(* into labels and patches the Nodes one by one, each patch a difference   *)
(* against the labels it listed.  Handlers overlap (see                    *)
(* TrailingDelayQueue), other controllers write labels of their own at any *)
(* time, and every API call may fail.  A failed attempt is started over    *)
(* with a new engine, which makes it a handler of its own here.            *)
(*                                                                         *)
(* The labels of a Node are a function from keys, None for an absent key.  *)
(* A graph gives the switches above each node, closest first, and the      *)
(* accelerator domains as triples (none: no domain map); switches and      *)
(* domains stand for the label values checkLabel makes of them.            *)
(***************************************************************************)
EXTENDS Integers, Sequences, FiniteSets

CONSTANTS
    Nodes,          \* the cluster's Nodes
    Identified,     \* those with instance and region metadata
    Handlers,       \* generations, each a call of the request handler
    Requests,       \* what resolves their instances: [resolve, names]
    Graphs,         \* what their providers return: [tiers, paths, domains]
    TierKeys,       \* default fabric label keys, closest first
    FabricLabels,   \* configured ones, <<>> for the defaults
    DefaultDomain,  \* default accelerator domain label key
    DomainKey,      \* the one in use: acceleratorLabel, or the default
    SubKey,         \* accelerator sub-domain label key
    Source,         \* acceleratorDomainSourceLabel, NoKey if not configured
    Pool,           \* the label of the node selector
    Selected,       \* the value it asks for
    OldLabels,      \* labels the Nodes may have in the beginning
    Writes,         \* what other controllers write: pairs of key and value
    MaxWrites       \* bound: how often

NoKey == "no key"
None == "none"
Empty == "empty"    \* a label whose value is blank

ToSet(s) == {s[i] : i \in DOMAIN s}
(* isManagedLevelLabel: the default keys and the configured ones.           *)
Managed ==
    ToSet(TierKeys) \cup ToSet(FabricLabels) \cup {DefaultDomain, DomainKey, SubKey}
Keys == (Managed \cup {Source, Pool}) \ {NoKey}

ASSUME NodesAssumption == Identified \subseteq Nodes
ASSUME KeysAssumption ==
    Pool \notin Managed \cup {Source, NoKey} /\ NoKey \notin Managed
(* getParameters refuses acceleratorLabel together with the source label.  *)
ASSUME SourceAssumption == Source # NoKey => DomainKey = DefaultDomain
ASSUME LabelsAssumption ==
    /\ \A l \in OldLabels : l = [k \in Keys |-> l[k]]
    /\ \A w \in Writes : w[1] \in Keys
ASSUME BoundsAssumption == MaxWrites \in Nat

VARIABLES
    labels,     \* the labels of each Node in the cluster
    pc,         \* where each handler is
    request,    \* its request
    loaded,     \* cachedNodeMap is not nil
    cache,      \* cachedNodeMap: "absent", "deferred" (nil) or a Node's labels
    gen,        \* nodeLabels: the labels to apply, by Node
    todo,       \* the Nodes of it still to be labelled
    target,     \* the Node AddNodeLabels is at
    writes,     \* writes of other controllers so far
    foreign,    \* history: labels as other controllers wrote them
    everIn,     \* history: Nodes that have matched the selector
    alone       \* history: nobody else wrote since this handler's list

vars == <<labels, pc, request, loaded, cache, gen, todo, target,
          writes, foreign, everIn, alone>>

handler == <<pc, loaded, cache, gen, todo, target>>

NoLabels == [k \in Keys |-> None]
Absent == [kind |-> "absent", labels |-> NoLabels]
Deferred == [kind |-> "deferred", labels |-> NoLabels]
Cached(l) == [kind |-> "node", labels |-> l]
NoNodes == [n \in {} |-> NoLabels]
NoGraph(g) == ~g.tiers /\ g.domains = {}

Matches(l) == l[Pool] = Selected
Listed == {n \in Nodes : Matches(labels[n])}

-----------------------------------------------------------------------------
(* From a graph to labels (labeler.go).                                    *)

FabricKey(i) ==
    IF FabricLabels = <<>> THEN TierKeys[i]
    ELSE IF i \in DOMAIN FabricLabels THEN FabricLabels[i] ELSE NoKey

(* getDomainLabels refuses a node in two domains.                          *)
DomainConflict(g) ==
    \E d, e \in g.domains : d.node = e.node /\ d.domain # e.domain

Labelled(g) ==
    {d.node : d \in g.domains} \cup (IF g.tiers THEN DOMAIN g.paths ELSE {})

(* A graph is about Nodes of the cluster, and has no more tiers than there *)
(* are default keys.                                                       *)
ASSUME GraphsAssumption ==
    \A g \in Graphs :
        /\ Labelled(g) \subseteq Nodes
        /\ \A n \in DOMAIN g.paths : DOMAIN g.paths[n] \subseteq DOMAIN TierKeys

(* getTierLabels: the i-th switch above n, as far as there are keys.       *)
TierLabel(g, n, k) ==
    IF g.tiers /\ n \in DOMAIN g.paths
       /\ \E i \in DOMAIN g.paths[n] : FabricKey(i) = k
    THEN g.paths[n][CHOOSE i \in DOMAIN g.paths[n] : FabricKey(i) = k]
    ELSE None

DomainLabel(g, n, k) ==
    IF \E d \in g.domains : d.node = n
    THEN LET d == CHOOSE d \in g.domains : d.node = n
         IN  IF k = DomainKey THEN d.domain ELSE IF k = SubKey THEN d.sub ELSE None
    ELSE None

BuildNodeLabels(g) ==
    [n \in Labelled(g) |->
        [k \in Keys |-> IF k \in {DomainKey, SubKey} THEN DomainLabel(g, n, k)
                        ELSE TierLabel(g, n, k)]]

-----------------------------------------------------------------------------
(* The labels a Node shall have, and the patch (kubernetes.go).            *)

Usable(l) == Source # NoKey /\ l[Source] \notin {None, Empty}

(* skipAcceleratorLabelsWhenSourceExists.                                  *)
Provided(current, new, k) ==
    IF Usable(current) /\ k \in {DomainKey, SubKey} THEN None ELSE new[k]

(* Mutant: labels that the graph does not mention stay.                    *)
MergeKeepingStale(current, new) ==
    [k \in Keys |->
        IF Provided(current, new, k) # None THEN Provided(current, new, k)
        ELSE current[k]]

MergeNodeLabels(current, new) ==
    [k \in Keys |->
        IF Provided(current, new, k) # None THEN Provided(current, new, k)
        ELSE IF k \in Managed \ {Source} THEN None ELSE current[k]]

(* Mutant: the patch holds every desired label.                            *)
FullPatch(current, desired) ==
    {k \in Keys : desired[k] # None \/ current[k] # None}

(* The keys nodeLabelPatch sets or deletes.                                *)
NodeLabelPatch(current, desired) == {k \in Keys : desired[k] # current[k]}

-----------------------------------------------------------------------------
(* One handler.                                                            *)

Set(f, h, v) == f' = [f EXCEPT ![h] = v]

(* The listing of a handler: the Nodes among names, nil for one the list   *)
(* does not hold (cacheRequestedNodes).                                    *)
Listing(names) ==
    [n \in Nodes |-> IF n \notin names THEN Absent
                     ELSE IF n \in Listed THEN Cached(labels[n]) ELSE Deferred]

(* ResolveComputeInstances; the server leaves it out when the provider has *)
(* returned an empty list (resolveComputeInstances in pkg/server).         *)
ResolveComputeInstances(h) ==
    LET r == request[h]
        names == IF r.names = {} THEN Listed \cap Identified ELSE r.names
    IN  /\ pc[h] = "resolve"
        /\ Set(pc, h, "generate")
        /\ Set(loaded, h, r.resolve)
        /\ Set(cache, h, IF r.resolve THEN Listing(names)
                         ELSE [n \in Nodes |-> Absent])
        /\ Set(alone, h, TRUE)
        /\ UNCHANGED <<labels, request, gen, todo, target, writes,
                       foreign, everIn>>

(* GenerateOutput up to its loop: labels for the graph's nodes, and empty  *)
(* ones for the listed Nodes that the graph leaves out.                    *)
GenerateOutput(h) ==
    /\ pc[h] = "generate"
    /\ \E g \in Graphs :
         LET nodes == IF loaded[h] THEN cache[h] ELSE Listing(Listed)
             left == {n \in Nodes : nodes[n].kind = "node"} \ Labelled(g)
             new == [n \in Labelled(g) \cup left |->
                        IF n \in left THEN NoLabels ELSE BuildNodeLabels(g)[n]]
         IN  \/ /\ NoGraph(g)
                /\ Set(pc, h, "ok")
                /\ Set(gen, h, NoNodes)
                /\ UNCHANGED <<loaded, cache, todo, alone>>
             \/ /\ ~NoGraph(g)
                /\ ~DomainConflict(g)
                /\ Set(pc, h, IF DOMAIN new = {} THEN "ok" ELSE "apply")
                /\ Set(gen, h, new)
                /\ Set(todo, h, DOMAIN new)
                /\ Set(loaded, h, TRUE)
                /\ Set(cache, h, nodes)
                /\ Set(alone, h, IF loaded[h] THEN alone[h] ELSE TRUE)
    /\ UNCHANGED <<labels, request, target, writes, foreign, everIn>>

(* AddNodeLabels for some node of the map, in no particular order; a       *)
(* deferred one is fetched.                                                *)
PickNode(h, n) ==
    /\ pc[h] = "apply"
    /\ n \in todo[h]
    /\ Set(pc, h, "patch")
    /\ Set(todo, h, todo[h] \ {n})
    /\ Set(target, h, n)
    /\ cache' = IF cache[h][n].kind = "deferred"
                THEN [cache EXCEPT ![h][n] = Cached(labels[n])] ELSE cache
    /\ UNCHANGED <<labels, request, loaded, gen, writes, foreign,
                   everIn, alone>>

(* Mutant: Nodes fetched one by one are not held against the selector.     *)
AnyNode(l) == TRUE

(* matchesNodeSelector.                                                    *)
MatchesNodeSelector(l) == Matches(l)

(* The rest of AddNodeLabels: skip the Node, or patch what differs.        *)
AddNodeLabels(h) ==
    LET n == target[h]
        node == cache[h][n]
        desired == MergeNodeLabels(node.labels, gen[h][n])
        patch == NodeLabelPatch(node.labels, desired)
        skip == node.kind = "absent" \/ ~MatchesNodeSelector(node.labels)
                \/ desired = node.labels
    IN  /\ IF skip
           THEN UNCHANGED <<labels, cache, alone>>
           ELSE /\ labels' = [labels EXCEPT ![n] =
                       [k \in Keys |-> IF k \in patch THEN desired[k] ELSE @[k]]]
                /\ cache' = [cache EXCEPT ![h][n] = Cached(desired)]
                /\ alone' = [i \in Handlers |-> i = h /\ alone[i]]

NodeDone(h) ==
    /\ pc[h] = "patch"
    /\ AddNodeLabels(h)
    /\ Set(pc, h, IF todo[h] = {} THEN "ok" ELSE "apply")
    /\ UNCHANGED <<request, loaded, gen, todo, target, writes,
                   foreign, everIn>>

(* Any call fails, or the graph is refused.  A patch may have taken effect *)
(* although its answer is lost.                                            *)
Fail(h) ==
    /\ \/ /\ pc[h] \in {"resolve", "generate", "apply", "patch"}
          /\ UNCHANGED <<labels, cache, alone>>
       \/ /\ pc[h] = "patch"
          /\ AddNodeLabels(h)
    /\ Set(pc, h, "failed")
    /\ UNCHANGED <<request, loaded, gen, todo, target, writes, foreign, everIn>>

(* Another controller writes one of its labels.                            *)
OtherWrites(n, w) ==
    /\ writes < MaxWrites
    /\ labels[n][w[1]] # w[2]
    /\ writes' = writes + 1
    /\ labels' = [labels EXCEPT ![n][w[1]] = w[2]]
    /\ foreign' = [foreign EXCEPT ![n][w[1]] = w[2]]
    /\ everIn' = everIn \cup (IF Matches(labels'[n]) THEN {n} ELSE {})
    /\ alone' = [h \in Handlers |-> FALSE]
    /\ UNCHANGED <<request, handler>>

Init ==
    /\ labels \in [Nodes -> OldLabels]
    /\ pc = [h \in Handlers |-> "resolve"]
    /\ request \in [Handlers -> Requests]
    /\ loaded = [h \in Handlers |-> FALSE]
    /\ cache = [h \in Handlers |-> [n \in Nodes |-> Absent]]
    /\ gen = [h \in Handlers |-> NoNodes]
    /\ todo = [h \in Handlers |-> {}]
    /\ target \in [Handlers -> {CHOOSE n \in Nodes : TRUE}]
    /\ writes = 0
    /\ foreign = labels
    /\ everIn = Listed
    /\ alone = [h \in Handlers |-> FALSE]

Next ==
    \/ \E h \in Handlers :
          \/ ResolveComputeInstances(h) \/ GenerateOutput(h)
          \/ \E n \in Nodes : PickNode(h, n)
          \/ NodeDone(h) \/ Fail(h)
    \/ \E n \in Nodes, w \in Writes : OtherWrites(n, w)

Spec == Init /\ [][Next]_vars

-----------------------------------------------------------------------------
(* A label that the engine does not manage always has the value its owner  *)
(* gave it, although the engine computes its patches from labels listed    *)
(* long before: an owner's write in between is never undone.               *)
ForeignLabelsPreserved ==
    \A n \in Nodes, k \in Keys \ Managed : labels[n][k] = foreign[n][k]

(* "Nodes outside the selection [...] are preserved": a Node that never    *)
(* matched the selector keeps its managed labels, whichever way it got     *)
(* into a request.                                                         *)
OutsideSelectionPreserved ==
    \A n \in Nodes \ everIn, k \in Managed : labels[n][k] = foreign[n][k]

(* "the source label is never overwritten" (docs/api.md): the label of     *)
(* acceleratorDomainSourceLabel keeps the value another controller gave    *)
(* it.  getParameters accepts a fabric label under the same key, and then  *)
(* it does not.                                                            *)
SourceLabelPreserved ==
    \A n \in Nodes : Source # NoKey /\ foreign[n][Source] # None
                        => labels[n][Source] = foreign[n][Source]

(* "A successful graph is authoritative for the resolved selection": if    *)
(* nobody else wrote meanwhile, a handler that succeeds leaves on every    *)
(* resolved Node exactly the labels its graph gives it, whatever earlier   *)
(* generations or failed attempts had left there; the accelerator labels   *)
(* give way to the source label.                                           *)
SuccessReconciles ==
    \A h \in Handlers : pc[h] = "ok" /\ alone[h] =>
        \A n \in DOMAIN gen[h] :
            cache[h][n].kind = "node" /\ Matches(labels[n]) =>
                \A k \in Managed \ {Source} :
                    labels[n][k] =
                        IF k \in {DomainKey, SubKey} /\ Usable(labels[n])
                        THEN None ELSE gen[h][n][k]
=============================================================================
