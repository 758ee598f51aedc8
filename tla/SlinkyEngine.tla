---------------------------- MODULE SlinkyEngine ----------------------------
(***************************************************************************)
(* The slinky engine (pkg/engines/slinky/engine.go) as the last part of a  *)
(* request: it finds the SLURM nodes among the cluster's pods, writes the  *)
(* topology into a ConfigMap and, for dynamic nodes, the topology spec of  *)
(* every node into an annotation of its Kubernetes Node.  The cluster has  *)
(* other writers, one of them the node data broker                         *)
(* (cmd/node-data-broker/main.go).                                         *)
(*                                                                         *)
(* kube is [nodes, pods, cm, exec, broker]: nodes maps a name to [sel,     *)
(* ann, labels, label, spec, own] (whether nodeSelector selects it, the    *)
(* annotations, other labels, the domain label, the topology spec, and     *)
(* what the metadata service of the host says it is), pods is a sequence   *)
(* of [node, host, ready, part], cm is absent or [ver, data], exec tells   *)
(* whether scontrol runs in a controller or login pod, broker is the step  *)
(* of the broker of one Node and the Node it has read.                     *)
(***************************************************************************)
EXTENDS Generation

CONSTANTS ConfigPath,    \* the key of the topology in the ConfigMap
          MaxWrites      \* bound: writes by others during the request

VARIABLES kube,          \* the cluster
          eng,           \* the engine: [back, listed, hosts, cached, sects, cm, next]
          writes         \* what others wrote during the request

kvars == <<kube, eng, writes>>

NoConfigMap == [ver |-> 0, data |-> NoMap]
NoBroker == [at |-> "off", name |-> Empty, seen |-> NoMap]
NoKube == [nodes |-> NoMap, pods |-> <<>>, cm |-> NoConfigMap, exec |-> FALSE, broker |-> NoBroker]
NoEngine == [back |-> "none", listed |-> <<>>, hosts |-> NoMap, cached |-> FALSE, sects |-> NoMap,
             cm |-> NoConfigMap, next |-> 1]

\* the clusters of the requests are what an API server holds: a ConfigMap that exists has a
\* version, and Nodes have annotations, the topology spec among them
ASSUME KubesAssumption ==
  \A c \in DOMAIN Cases : \A k \in Cases[c].kubes :
    /\ DOMAIN k = DOMAIN NoKube /\ IsFiniteSet(DOMAIN k.nodes)
    /\ k.cm.ver \in Nat /\ (k.cm.ver = 0 => k.cm = NoConfigMap)
    /\ \A n \in DOMAIN k.nodes : {"ann", "spec"} \subseteq DOMAIN k.nodes[n]

Slinky == stage # "idle" /\ req.engine = "slinky"

InitSlinky == Init /\ kube = NoKube /\ eng = NoEngine /\ writes = 0

-----------------------------------------------------------------------------
(* Loader and the nodes of the cluster.                                    *)

\* getParameters: nodes and podSelector exclude each other
ValidParameters(params) ==
  /\ params.valid /\ params.mode \in {"full", "none", "skeleton-only"}
  /\ \A t \in DOMAIN params.topologies :
       ~(params.topologies[t].given /\ params.topologies[t].selector # Empty)

LoadEngine ==
  /\ stage = "engine" /\ Slinky
  /\ \E env \in Envs :
       LET code == FirstError(<<IF ValidParameters(req.params) THEN 0 ELSE 400,
                                IF env.inCluster THEN 0 ELSE 502, IF env.limits THEN 0 ELSE 400>>)
       IN  IF code # 0 THEN Answer(code) ELSE stage' = "load" /\ UNCHANGED status
  /\ UNCHANGED <<asked, model, world, cis, disc, graph, out, disk, kvars>>

\* nodeMetadata of the server's configuration names the sources of the two annotations, which
\* may be each other; both are read first, and a blank value removes the annotation
resolveNodeMetadata(sources, node) ==
  LET value(f) == Lookup(IF sources[f].type = "label" THEN node.labels ELSE node.ann, sources[f].key)
      blank == {f \in DOMAIN sources : value(f) = Empty}
  IN  [node EXCEPT !.ann = [f \in (DOMAIN @ \cup DOMAIN sources) \ blank |->
                              IF f \in DOMAIN sources THEN value(f) ELSE @[f]]]

\* getClusterNodes, first call: the selected Nodes, by name
ListNodes ==
  /\ stage = "nodes"
  /\ \/ Answer(502) /\ UNCHANGED eng
     \/ LET names == Sorted({n \in DOMAIN kube.nodes : kube.nodes[n].sel})
        IN  /\ eng' = [eng EXCEPT !.listed = [i \in DOMAIN names |->
                         [name |-> names[i], node |-> resolveNodeMetadata(req.sources, kube.nodes[names[i]])]]]
            /\ stage' = "pods" /\ UNCHANGED status
  /\ UNCHANGED <<asked, model, world, cis, disc, graph, out, disk, kube, writes>>

\* the SLURM names of Kubernetes nodes, from Ready pods; the last pod of a node counts
nodeMap(pods) ==
  FoldLeft(LAMBDA m, p : IF p.ready /\ p.host # Empty THEN (p.node :> p.host) @@ m ELSE m, NoMap, pods)

\* getClusterNodes, second call
ListPods ==
  /\ stage = "pods"
  /\ \/ Answer(502) /\ UNCHANGED eng
     \/ /\ eng' = [eng EXCEPT !.hosts = nodeMap(kube.pods), !.cached = TRUE]
        /\ stage' = eng.back /\ UNCHANGED status
  /\ UNCHANGED <<asked, model, world, cis, disc, graph, out, disk, kube, writes>>

\* the listed nodes with a SLURM name and both annotations, by region in order of appearance
getComputeInstances(listed, hosts) ==
  LET usable == SelectSeq(listed, LAMBDA l : /\ l.name \in DOMAIN hosts
                                             /\ {"inst", "region"} \subseteq DOMAIN l.node.ann)
      add(acc, l) ==
        LET r == l.node.ann.region
            k == SelectInSeq(acc, LAMBDA ci : ci.region = r)
            one == l.node.ann.inst :> hosts[l.name]
        IN  IF k = 0 THEN Append(acc, [region |-> r, instances |-> one])
            ELSE [acc EXCEPT ![k].instances = one @@ @]
  IN  FoldLeft(add, <<>>, usable)

\* lists the cluster's nodes unless it was done before
NeedsNodes(back) == eng' = [eng EXCEPT !.back = back] /\ stage' = "nodes" /\ UNCHANGED status

ResolveComputeInstances ==
  /\ stage = "resolve" /\ Slinky
  /\ LET given == IF req.nodes = <<>> /\ (req.sim \/ req.p = "test") THEN ProviderInstances ELSE req.nodes
     IN  CASE given # <<>> /\ (~req.params.dynamic \/ eng.cached) -> Resolved(given) /\ UNCHANGED eng
           [] given = <<>> /\ eng.cached -> Resolved(getComputeInstances(eng.listed, eng.hosts)) /\ UNCHANGED eng
           [] OTHER -> NeedsNodes("resolve") /\ UNCHANGED cis
  /\ UNCHANGED <<asked, model, world, disc, graph, out, disk, kube, writes>>

-----------------------------------------------------------------------------
(* GenerateOutput.                                                         *)

\* the node list of a section's pod selector
listPartitionNodes(part) ==
  LET ready == SelectSeq(kube.pods, LAMBDA p : p.part = part /\ p.ready /\ p.host # Empty)
  IN  FlattenSeq([i \in DOMAIN ready |-> Compact(<<ready[i].host>>)])

\* the sections whose pods are to be listed yet
Unlisted == {t \in DOMAIN req.params.topologies \ DOMAIN eng.sects :
               req.params.topologies[t].nodes = <<>> /\ req.params.topologies[t].selector # Empty}

\* one call for every such section, in any order; the others are taken as they are
resolveTopologies ==
  /\ stage = "translate" /\ Slinky
  /\ IF Unlisted = {}
     THEN /\ eng' = [eng EXCEPT !.sects = @ @@ req.params.topologies]
          /\ stage' = "network" /\ UNCHANGED status
     ELSE \/ Answer(500) /\ UNCHANGED eng
          \/ /\ \E t \in Unlisted : \E s \in {req.params.topologies[t]} :
                  eng' = [eng EXCEPT !.sects =
                    (t :> [s EXCEPT !.given = TRUE, !.nodes = listPartitionNodes(s.selector)]) @@ @]
             /\ UNCHANGED <<stage, status>>
  /\ UNCHANGED <<asked, model, world, cis, disc, graph, out, disk, kube, writes>>

\* scontrol in a controller or login pod; dynamic nodes are in no partition yet
getPartitionNodes(p) ==
  CASE p.dynamic -> [n \in {p.topologies[t].partition : t \in DOMAIN p.topologies} \ {Empty} |->
                      [found |-> TRUE, nodes |-> <<>>]]
    [] OTHER     -> IF kube.exec THEN req.scontrol ELSE NoMap

usesBlockTopology(p) ==
  p.plugin = Block \/ \E t \in DOMAIN p.topologies : p.topologies[t].plugin = Block

\* the domains named by a label of the nodes replace the graph's
withLabelBackedDomains(g, listed, hosts) ==
  LET usable == SelectSeq(listed, LAMBDA l : /\ l.name \in DOMAIN hosts /\ l.node.label # Empty
                                             /\ "inst" \in DOMAIN l.node.ann)
      host(l) == [domain |-> l.node.label, sub |-> Empty, id |-> l.node.ann.inst, name |-> hosts[l.name]]
  IN  [g EXCEPT !.domains = FoldLeft(LAMBDA d, l : AddHostInfo(d, host(l)), NoMap, usable)]

SectionParams == [req.params EXCEPT !.topologies = eng.sects]
ByLabel == SectionParams.label /\ usesBlockTopology(SectionParams)

\* what the sections ask for, and what becomes of the graph with them
Configs == GetTranslateConfig(SectionParams, getPartitionNodes(SectionParams))
Domained == IF ByLabel THEN withLabelBackedDomains(graph, eng.listed, eng.hosts) ELSE graph
Outputs == Translated(Domained, SectionParams, getPartitionNodes(SectionParams), req.params.mode = "skeleton-only")

\* the translation, with no state of its own between the cluster's nodes and the ConfigMap
Generate ==
  /\ stage = "network"
  /\ \/ \E c \in Configs : c.code # 0 /\ Answer(c.code) /\ UNCHANGED <<eng, out>>
     \/ /\ \A c \in Configs : c.code = 0
        /\ IF ByLabel /\ ~eng.cached THEN NeedsNodes("network") /\ UNCHANGED out
           ELSE IF ByLabel /\ Domained.domains = NoMap THEN Answer(502) /\ UNCHANGED <<eng, out>>
           ELSE \E t \in Outputs :
                  IF t.code # 0 THEN Answer(t.code) /\ UNCHANGED <<eng, out>>
                  ELSE /\ out' = t /\ UNCHANGED <<eng, status>>
                       /\ stage' = IF req.params.mode = "none" THEN "reconcile" ELSE "getcm"
  /\ UNCHANGED <<asked, model, world, cis, disc, graph, disk, kube, writes>>

-----------------------------------------------------------------------------
(* UpdateTopologyConfigmap: read, compare, write back.  A write may also   *)
(* be done although the call reports an error.                             *)

Exists(cm) == cm.ver # 0

\* a missing key reads as the empty text, which only a tree without switches is
Unchanged(cm) ==
  IF ConfigPath \in DOMAIN cm.data THEN cm.data[ConfigPath] = out.file
  ELSE Exists(cm) /\ out.file = [kind |-> "tree", lines |-> <<>>]

GetConfigMap ==
  /\ stage = "getcm"
  /\ \/ Answer(500) /\ UNCHANGED eng
     \/ /\ eng' = [eng EXCEPT !.cm = kube.cm]
        /\ stage' = IF Unchanged(kube.cm) THEN "reconcile" ELSE "putcm"
        /\ UNCHANGED status
  /\ UNCHANGED <<asked, model, world, cis, disc, graph, out, disk, kube, writes>>

\* mutant: a write that does not carry the version that was read
AnyVersion(cm) == Exists(cm) = Exists(eng.cm)

\* Create is refused when the object exists, Update when its version is another one
SameVersion(cm) == cm.ver = eng.cm.ver

Written == [ver  |-> kube.cm.ver + 1,
            data |-> [k \in DOMAIN eng.cm.data \cup {ConfigPath} |->
                       IF k = ConfigPath THEN out.file ELSE eng.cm.data[k]]]

PutConfigMap ==
  /\ stage = "putcm"
  /\ \/ Answer(500) /\ UNCHANGED kube
     \/ /\ SameVersion(kube.cm)
        /\ kube' = [kube EXCEPT !.cm = Written]
        /\ \/ Answer(500)
           \/ stage' = "reconcile" /\ UNCHANGED status
  /\ UNCHANGED <<asked, model, world, cis, disc, graph, out, disk, eng, writes>>

-----------------------------------------------------------------------------
(* performReconciliation: one node after the other, until an error.        *)

desiredSpec(host) == GetNodeTopologySpec(out.nt, out.units, host)

\* mutant: any annotation will do
HasSpec(l) == l.name \notin DOMAIN eng.hosts \/ desiredSpec(eng.hosts[l.name]) = <<>> \/ l.node.spec # <<>>

\* by the annotation that was listed, which may be another by now
UpToDate(l) == \/ l.name \notin DOMAIN eng.hosts
               \/ desiredSpec(eng.hosts[l.name]) \in {<<>>, l.node.spec}

PatchAnnotation(l) ==
  \/ Answer(502) /\ UNCHANGED <<kube, eng>>
  \/ /\ l.name \in DOMAIN kube.nodes
     /\ kube' = [kube EXCEPT !.nodes[l.name].spec = desiredSpec(eng.hosts[l.name])]
     /\ \/ Answer(502) /\ UNCHANGED eng
        \/ eng' = [eng EXCEPT !.next = @ + 1] /\ UNCHANGED <<stage, status>>

performReconciliation ==
  /\ stage = "reconcile"
  /\ CASE ~req.params.dynamic -> Answer(200) /\ UNCHANGED <<kube, eng>>
       [] req.params.dynamic /\ ~eng.cached -> NeedsNodes("reconcile") /\ UNCHANGED kube
       [] OTHER -> IF eng.next > Len(eng.listed) THEN Answer(200) /\ UNCHANGED <<kube, eng>>
                   ELSE LET l == eng.listed[eng.next]
                        IN  IF UpToDate(l) THEN /\ eng' = [eng EXCEPT !.next = @ + 1]
                                                /\ UNCHANGED <<kube, stage, status>>
                            ELSE PatchAnnotation(l)
  /\ UNCHANGED <<asked, model, world, cis, disc, graph, out, disk, writes>>

-----------------------------------------------------------------------------
\* someone else writes: another key or the same one of the ConfigMap, a spec, a Node, a pod
OtherWrite ==
  LET cm == kube.cm
      other == [c |-> "other"]
  IN  \/ \E k \in {ConfigPath, "other"} :
           kube' = [kube EXCEPT !.cm = [ver |-> cm.ver + 1, data |-> (k :> other) @@ cm.data]]
      \/ \E n \in DOMAIN kube.nodes :
           \/ kube' = [kube EXCEPT !.nodes[n].spec = <<other>>]
           \/ kube' = [kube EXCEPT !.nodes = [m \in DOMAIN @ \ {n} |-> @[m]]]
      \/ \E i \in DOMAIN kube.pods : kube' = [kube EXCEPT !.pods[i].ready = ~@]

\* apply of the node data broker: the Node is read, and updated with the annotations of its
\* host unless it has changed; after an error the pod starts again
brokerGet ==
  /\ kube.broker.at = "get"
  /\ \E n \in DOMAIN kube.nodes :
       kube' = [kube EXCEPT !.broker = [at |-> "update", name |-> n, seen |-> kube.nodes[n]]]
  /\ UNCHANGED writes

mergeNodeAnnotations(node) == [node EXCEPT !.ann = node.own @@ @]

brokerUpdate ==
  LET b == kube.broker
  IN  /\ b.at = "update"
      /\ \/ /\ b.name \in DOMAIN kube.nodes /\ kube.nodes[b.name] = b.seen
            /\ kube' = [kube EXCEPT !.nodes[b.name] = mergeNodeAnnotations(b.seen), !.broker.at = "done"]
            /\ writes' = writes + 1
         \/ kube' = [kube EXCEPT !.broker = [NoBroker EXCEPT !.at = "get"]] /\ UNCHANGED writes

Disturb ==
  /\ Slinky /\ stage \in {"nodes", "pods", "translate", "network", "getcm", "putcm", "reconcile"}
  /\ \/ writes < MaxWrites /\ writes' = writes + 1 /\ OtherWrite
     \/ brokerGet \/ brokerUpdate
  /\ UNCHANGED <<vars, eng>>

SlinkyStep == \/ LoadEngine \/ ListNodes \/ ListPods \/ ResolveComputeInstances
              \/ resolveTopologies \/ Generate \/ GetConfigMap \/ PutConfigMap \/ performReconciliation

NextSlinky ==
  \/ readRequest /\ kube' \in Cases[case'].kubes /\ UNCHANGED <<eng, writes>>
  \/ Process /\ UNCHANGED kvars
  \/ SlinkyStep
  \/ Disturb

SlinkySpec == /\ InitSlinky /\ [][NextSlinky]_<<vars, kvars>>
              /\ WF_vars(startRegion \/ FetchPage)

-----------------------------------------------------------------------------
\* The engine changes its own key only and undoes nobody's write (UpdateTopologyConfigmap):
\* whoever writes to the ConfigMap after it was read keeps what was written.  Nor does the
\* broker's update of a Node (apply) undo the spec the engine has patched in meanwhile.
NoLostUpdate ==
  [][stage # "idle" =>
       /\ kube'.cm # kube.cm /\ writes' = writes =>
            \A k \in DOMAIN kube.cm.data \ {ConfigPath} :
              k \in DOMAIN kube'.cm.data /\ kube'.cm.data[k] = kube.cm.data[k]
       /\ kube'.broker # kube.broker =>
            /\ DOMAIN kube'.nodes = DOMAIN kube.nodes
            /\ \A n \in DOMAIN kube.nodes : kube'.nodes[n].spec = kube.nodes[n].spec]_<<vars, kvars>>
=============================================================================
