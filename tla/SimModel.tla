------------------------------ MODULE SimModel ------------------------------
(***************************************************************************)
(* Simulation models (pkg/models/model.go) and the API answers that the    *)
(* simulated clients give for their nodes (provider_sim.go of every        *)
(* provider).  The same encoding stands for the answers of the real APIs.  *)
(*                                                                         *)
(* A model file is [switches, blocks]: switches maps a name to             *)
(* [switches, labels, ann], a block is [switch, nodes, labels, ann].       *)
(* A derived model is [ok, switches, nodes, order (of the node names)]; a  *)
(* node is [id, layers (closest first), labels, ann].                      *)
(***************************************************************************)
EXTENDS CloudProviders

CONSTANTS DefaultRegion,       \* "none"
          SimClique,           \* the clique ID of lambdai's simulation
          InstanceIDPrefix     \* prefix offset of "i-<host>"

Lookup(m, k) == IF k \in DOMAIN m THEN m[k] ELSE Empty

EmptySwitch == [switches |-> <<>>, labels |-> NoMap, ann |-> NoMap]

\* UnmarshalYAML: a switch that only a parent names gets an empty definition
Materialized(switches) ==
  LET named == UNION {ToSet(switches[s].switches) : s \in DOMAIN switches}
  IN  switches @@ [s \in named \ DOMAIN switches |-> EmptySwitch]

completeCapacityBlocks(blocks, switches) ==
  LET all == FlattenSeq([i \in DOMAIN blocks |-> Expand(blocks[i].nodes)])
  IN  /\ \A i \in DOMAIN blocks : /\ Expand(blocks[i].nodes) # <<>>
                                  /\ blocks[i].switch \in DOMAIN switches \cup {Empty}
      /\ Cardinality(ToSet(all)) = Len(all)

\* a switch is listed once, by one parent
buildSwitchMaps(switches) ==
  LET edges == UNION {{<<s, i>> : i \in DOMAIN switches[s].switches} : s \in DOMAIN switches}
      child(e) == switches[e[1]].switches[e[2]]
  IN  [ok |-> \A e, f \in edges : child(e) = child(f) => e = f,
       parentOf |-> [c \in {child(e) : e \in edges} |-> (CHOOSE e \in edges : child(e) = c)[1]]]

\* from a leaf switch up; empty for a circular topology
getNetworkLayers(parentOf, switch) ==
  LET up(path) == IF path = <<>> \/ Last(path) \notin DOMAIN parentOf THEN path
                  ELSE IF parentOf[Last(path)] \in ToSet(path) THEN <<>>
                  ELSE Append(path, parentOf[Last(path)])
  IN  Repeat(Cardinality(DOMAIN parentOf), up, <<switch>>)

\* labels of the switches from the top down, the node's own last: later ones win
mergeMaps(switches, layers, field, own) ==
  FoldLeft(LAMBDA m, s : m @@ (IF field = "labels" THEN switches[s].labels ELSE switches[s].ann),
           own, layers)

withDefaultRegion(labels) ==
  IF Lookup(labels, "region") # Empty THEN labels ELSE ("region" :> DefaultRegion) @@ labels

\* NewModelFromFile
derive(file) ==
  LET switches == Materialized(file.switches)
      maps  == buildSwitchMaps(switches)
      names == UNION {ToSet(Expand(file.blocks[i].nodes)) : i \in DOMAIN file.blocks}
      of(n) == file.blocks[CHOOSE i \in DOMAIN file.blocks : n \in ToSet(Expand(file.blocks[i].nodes))]
      layers(n) == IF of(n).switch = Empty THEN <<>>
                   ELSE getNetworkLayers(maps.parentOf, of(n).switch)
      node(n) == LET path == layers(n)
                 IN  [id |-> n, layers |-> path,
                      labels |-> withDefaultRegion(mergeMaps(switches, path, "labels", of(n).labels)),
                      ann    |-> mergeMaps(switches, path, "ann", of(n).ann)]
  IN  IF /\ completeCapacityBlocks(file.blocks, switches)
         /\ maps.ok
         /\ \A n \in names : of(n).switch # Empty => layers(n) # <<>>
      THEN [ok |-> TRUE, switches |-> switches, nodes |-> [n \in names |-> node(n)],
            order |-> FlattenSeq([i \in DOMAIN file.blocks |-> Expand(file.blocks[i].nodes)])]
      ELSE [ok |-> FALSE]

Domain(node) == Lookup(node.ann, "domain")
SubDomain(node) == Lookup(node.ann, "sub")

\* BaseSimProvider: the compute instances, by region in order, and the metadata
setInstances(nodes) ==
  LET region(n) == Lookup(nodes[n].labels, "region")
      order == Sorted({region(n) : n \in DOMAIN nodes})
  IN  [i \in DOMAIN order |->
        [region |-> order[i],
         instances |-> [n \in {m \in DOMAIN nodes : region(m) = order[i]} |-> n]]]

InstanceMap(nodes) ==
  [n \in DOMAIN nodes |-> [layers |-> nodes[n].layers, domain |-> Lookup(nodes[n].labels, "domain"),
                           sub |-> Lookup(nodes[n].labels, "sub")]]

InstanceID(host) == [host EXCEPT !.pre = @ + InstanceIDPrefix]

-----------------------------------------------------------------------------
(* Model.ToGraph, for the test provider.                                   *)
ModelGraph(model, wanted) ==
  LET hosts == DOMAIN model.nodes
      sws   == DOMAIN model.switches
      ref(s) == [lvl |-> 0, id |-> s]
      on(s) == {n \in hosts : model.nodes[n].layers # <<>> /\ model.nodes[n].layers[1] = s}
      kids(s) == [c \in ToSet(model.switches[s].switches) |-> ref(c)]
                 @@ [i \in {InstanceID(n) : n \in on(s)} |-> LeafRef(i)]
      top   == {s \in sws : \A p \in sws : s \notin ToSet(model.switches[p].switches)}
      inDomain == {n \in hosts : Domain(model.nodes[n]) # Empty}
      host(n) == [domain |-> Domain(model.nodes[n]), sub |-> SubDomain(model.nodes[n]),
                  id |-> InstanceID(n), name |-> n]
      listed == {n \in hosts : wanted = {} \/ InstanceID(n) \in wanted}
      meta  == InstanceMap(model.nodes)
  IN  [verts |-> (RootRef :> [Vertex(Empty, Empty) EXCEPT !.kids = [s \in top |-> ref(s)]])
                 @@ [v \in {ref(s) : s \in sws} |-> [Vertex(v.id, Empty) EXCEPT !.kids = kids(v.id)]]
                 @@ [v \in {LeafRef(InstanceID(n)) : n \in hosts} |->
                      Vertex(v.id, CHOOSE n \in hosts : InstanceID(n) = v.id)],
       domains |-> FoldLeft(LAMBDA d, n : AddHostInfo(d, host(n)), NoMap, Sorted(inDomain)),
       insts |-> [i \in {InstanceID(n) : n \in listed} |-> meta[CHOOSE n \in listed : InstanceID(n) = i]]]

-----------------------------------------------------------------------------
(* The answers of the simulated APIs.  apiErr is the injected failure.     *)

FirstLayers(node, k) == SubSeq(node.layers, 1, Min({k, Len(node.layers)}))

Host(node, path, part) == [id |-> node.id, path |-> path, domain |-> Domain(node), part |-> part]

\* per provider: what is answered for a host, and when a call fails as a whole

\* AWS: root first; the zone label is required
DescribeInstanceTopology(node) == Host(node, Reverse(node.layers), Empty)
awsSimFails(nodes) == \E n \in nodes : Lookup(n.labels, "zone") = Empty

\* GCP: numeric IDs, printed without leading zeros; all three tiers or none
Instances(node) ==
  [Host(node, IF Len(node.layers) >= 3 THEN FirstLayers(node, 3) ELSE <<>>, Empty)
    EXCEPT !.id = Padded(0, @.num, 1)]
gcpSimFails(nodes) == \E n \in nodes : n.id.pre # 0

\* OCI: the rack is among the details GetComputeHost gives for the hosts asked for
GetComputeHost(node) == Host(node, FirstLayers(node, 3), SubDomain(node))
ociSimFails(nodes, wanted, apiErr) == apiErr = "get" /\ \E n \in nodes : n.id \in wanted

\* OCI's metadata service: three names, empty ones included
getHostTopology(node) ==
  Host(node, [l \in 1..3 |-> IF l <= Len(node.layers) THEN node.layers[l] ELSE Empty], Empty)

\* Nebius: an answer may lack the path or the metadata
GetComputeInstanceList(node, apiErr) ==
  [Host(node, IF apiErr = "path" THEN <<>> ELSE Reverse(node.layers), Empty)
    EXCEPT !.id = IF apiErr = "metadata" THEN Empty ELSE @]

InstanceList(node) == Host(node, node.layers, SimClique)

Topology(node) == Host(node, Reverse(node.layers), Empty)

\* firebird: leaf first; the model file has no accelerator domains for it
FirebirdNode(node) == Host(node, node.layers, Empty)

Wire(p, node, apiErr) ==
  CASE p = "aws"      -> DescribeInstanceTopology(node)
    [] p = "gcp"      -> Instances(node)
    [] p = "oci"      -> GetComputeHost(node)
    [] p = "oci-imds" -> getHostTopology(node)
    [] p = "nebius"   -> GetComputeInstanceList(node, apiErr)
    [] p = "lambdai"  -> InstanceList(node)
    [] p = "nscale"   -> Topology(node)
    [] p = "firebird" -> FirebirdNode(node)

SimFails(p, nodes, wanted, apiErr) ==
  \/ apiErr \in {"client", "list"}
  \/ p = "aws" /\ awsSimFails(nodes)
  \/ p = "gcp" /\ gcpSimFails(nodes)
  \/ p = "oci" /\ ociSimFails(nodes, wanted, apiErr)

\* crusoe reads labels; an accelerator domain of the model stands in for the clique label
simNodeLabels(node) ==
  LET pod == Lookup(node.labels, "pod")
      partition == Lookup(node.labels, "partition")
      clique == Lookup(node.labels, "clique")
  IN  [Host(node, IF pod = Empty \/ partition = Empty THEN <<>> ELSE <<pod, partition>>, Empty)
        EXCEPT !.domain = IF clique = Empty THEN @ ELSE clique]

\* dsx: the simulated API shows a switch with its wanted hosts or, above the leaves, its switches
GetTopology(model, wanted) ==
  LET on(s) == SelectSeq(model.order, LAMBDA n : model.nodes[n].layers # <<>>
                                                 /\ model.nodes[n].layers[1] = s)
      hosts(s) == SelectSeq(on(s), LAMBDA n : n \in wanted)
  IN  [s \in DOMAIN model.switches |->
        [switches |-> IF on(s) # <<>> THEN {} ELSE ToSet(model.switches[s].switches),
         nodes    |-> [i \in DOMAIN hosts(s) |->
                        [id |-> hosts(s)[i], domain |-> Domain(model.nodes[hosts(s)[i]])]]]]

\* the provider reads leaf, spine and core from the switch map, which is walked in any order
dsxReports(shown) ==
  LET parent(s) == LET ps == {q \in DOMAIN shown : s \in shown[q].switches}
                   IN  IF s = Empty \/ ps = {} THEN Empty ELSE CHOOSE q \in ps : TRUE
      tiers(s) == ClosestFirstFabricTiers(<<s, parent(s), parent(parent(s))>>)
      below(s) == [i \in DOMAIN shown[s].nodes |->
                    Report(shown[s].nodes[i].id, tiers(s), shown[s].nodes[i].domain, Empty)]
      leaves == {s \in DOMAIN shown : shown[s].nodes # <<>>}
  IN  {FlattenSeq([i \in DOMAIN o |-> below(o[i])]) : o \in SetToSeqs(leaves)}
=============================================================================
