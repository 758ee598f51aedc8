------------------------------ MODULE Soundness ------------------------------
(***************************************************************************)
(* What the answers of Generation and SlinkyEngine have to say.  The       *)
(* reference is the cloud itself: the hosts' own layers, domains and       *)
(* regions in world, not what the providers and the graph made of them.    *)
(***************************************************************************)
EXTENDS SlinkyEngine

HasFile(kind) == "file" \in DOMAIN out /\ out.file.kind = kind /\ req.engine = "slurm"

\* the hosts the output is about, with their node names; the test provider shows its model
Placed == IF req.p # "test" THEN Requested
          ELSE [i \in {InstanceID(n) : n \in {m \in DOMAIN world : world[m].layers # <<>>}} |->
                 CHOOSE n \in DOMAIN world : InstanceID(n) = i]

\* the HCAs that go by the name of a node: by its full name, else by the short one if the
\* HCA is not named like another node
CalledBy(n, names) ==
  LET exact == {h \in DOMAIN world : HcaName(world[h]) = n}
      like(name) == shortHostName(name) = shortHostName(n) /\ (isShortHostName(name) \/ isShortHostName(n))
  IN  IF exact # {} THEN exact
      ELSE {h \in DOMAIN world : HcaName(world[h]) \notin names /\ like(HcaName(world[h]))}

\* the switches Nautobot can be led to
Reach(links) == LET usable == (UNION links \ DOMAIN world) \ req.prov.excluded
                IN  Connected({c \in links : c \subseteq usable}, req.prov.seeds \cap usable)

\* the hosts in world a requested instance may stand for
HostsAt(i, requested, names, links, reach) ==
  CASE req.p = "test"        -> {n \in DOMAIN world : InstanceID(n) = i}
    [] req.p \in IbProviders -> {h \in CalledBy(requested[i], names) :
                                  \A n \in names \ {requested[i]} : h \notin CalledBy(n, names)}
    [] req.p = "netq"        -> {IF i \in DOMAIN requested THEN requested[i] ELSE i} \cap DOMAIN world
    [] req.p = "nautobot"    -> {h \in HostsCalled(world, i) : Peers(links, h) \cap reach # {}}
    [] OTHER                 -> {i} \cap DOMAIN world

InRequestedRegion(i, host) ==
  \E k \in DOMAIN cis : i \in DOMAIN cis[k].instances /\ cis[k].region = Lookup(host.labels, "region")

\* the provider can see the host where it was asked for, and learns enough about it
Seen(i, h, host, links) ==
  /\ ~req.sim /\ req.p \in {"aws", "gcp", "oci", "lambdai", "nscale", "dra"} => InRequestedRegion(i, host)
  /\ req.p \in {"gcp", "oci", "nebius"} => Len(host.layers) >= 3
  /\ req.p = "nebius" => req.apiErr \notin {"path", "metadata"}
  /\ req.p \in {"dsx", "firebird"} => host.layers # <<>>
  /\ req.p \in IbProviders => req.sim \/ \E a \in disc.seen : h \in Connected(links, {a})
  /\ req.p = "netq" => Lookup(host.labels, "region") \in req.prov.premises
  /\ req.p = "k8s-node-labels" =>
       /\ "deleting" \notin DOMAIN host.labels
       /\ req.prov.ready => "unready" \notin DOMAIN host.labels
       /\ Len(host.layers) >= req.prov.tiers

\* these leave out the hosts they do not see
Omitting == IbProviders \cup {"netq", "k8s-node-labels", "dra"}

\* the switches above a host that are up and linked, without the trimmed top tiers
PathOf(h, layers, links, reach) ==
  LET up(l) == CASE req.p \in IbProviders -> {IF l = 1 THEN h ELSE layers[l - 1], layers[l]} \in links
                 [] req.p = "nautobot" -> Copies(layers[l], req.twins) \cap reach # {}
                 [] req.p = "k8s-node-labels" -> l <= req.prov.tiers
                 [] OTHER -> req.p # "dra"
      trim == IF req.p \in Omitting \cup {"test"} THEN 0 ELSE Max2(0, req.trim)
      kept == Max2(0, Max({k \in 0..Len(layers) : \A l \in 1..k : up(l)}) - trim)
  IN  [l \in 1..kept |-> IF req.p = "nautobot" THEN NautobotName(layers[l]) ELSE layers[l]]

\* the NVLink partition of a host, if its GPUs agree on one
Partition(node) == IF Domain(node) = Empty \/ "mixed" \in DOMAIN node.ann THEN Empty
                   ELSE Dotted(Domain(node), SubDomain(node))

\* the accelerator domain; GCP's is the closest switch.  The scans of nodes and Nodes go by
\* the names asked for, whatever the HCAs are called
DomainOf(i, name, known, host) ==
  CASE req.p \in {"infiniband", "firebird", "nautobot", "k8s-node-labels"} -> Empty
    [] req.p = "infiniband-bm" -> IF req.prov.accel # "nvidia-smi" \/ name \notin disc.seen THEN Empty
                                  ELSE Partition(world[name])
    [] req.p = "infiniband-k8s" ->
         CASE i \notin DOMAIN world -> Empty
           [] i \in DOMAIN world /\ ~InRequestedRegion(i, world[i]) -> Empty
           [] req.prov.accel = "nvidia-smi" -> Partition(world[i])
           [] OTHER -> IF req.prov.accel = "kubernetes-label" THEN Domain(world[i]) ELSE Empty
    [] req.p = "netq" -> IF graph.domains = NoMap \/ host = Nothing THEN Empty ELSE Domain(host)
    [] OTHER -> IF ~known THEN Empty ELSE IF req.p = "gcp" THEN host.layers[1] ELSE Domain(host)

\* what is true of a host; path is empty for one that is left out
Described(i, name, known, h, host, links, reach) ==
  [known  |-> known,
   path   |-> IF known THEN PathOf(h, host.layers, links, reach)
              ELSE IF req.p \in Omitting THEN <<>> ELSE <<NoTopology>>,
   domain |-> DomainOf(i, name, known, host),
   sub    |-> IF req.p \in {"oci", "test"} /\ host # Nothing THEN SubDomain(host) ELSE Empty]

LocatedAt(i, name, at, links, reach) ==
  IF Cardinality(at) # 1 THEN Described(i, name, FALSE, Empty, Nothing, links, reach)
  ELSE LET h == CHOOSE x \in at : TRUE
       IN  Described(i, name, Seen(i, h, world[h], links), h, world[h], links, reach)

Located(ids, requested, links, reach) ==
  [i \in ids |-> LocatedAt(i, Lookup(requested, i),
                          HostsAt(i, requested, {requested[j] : j \in DOMAIN requested}, links, reach), links, reach)]

\* the hosts blocks are made of; NetQ's domains hold hosts that were not asked for
Members == IF req.p = "netq" THEN [h \in DOMAIN world |-> h] ELSE Placed

LocatedWith(links) ==
  Located(DOMAIN Requested \cup DOMAIN Placed \cup DOMAIN Members, Requested, links, Reach(links))

\* every host the output may be about, with its path, domain and sub-domain
Truth == LocatedWith(cables)

\* a leaf switch all of whose hosts were not asked for (buildTree takes it for an upper one)
IdleLeaf(truth) ==
  /\ req.p \in IbProviders
  /\ \E h \in DOMAIN world :
       /\ world[h].layers # <<>>
       /\ \A i \in DOMAIN truth : truth[i].path # <<>> => truth[i].path[1] # world[h].layers[1]

\* a switch and the switches the lines of a tree put above it; <<>> if two claim one
Above(lines, switch) ==
  LET parents(s) == {lines[k].switch : k \in {j \in DOMAIN lines : s \in ToSet(Expand(lines[j].switches))}}
      up(path) == LET ps == parents(Last(path))
                  IN  IF path = <<>> \/ ps = {} THEN path
                      ELSE IF Cardinality(ps) = 1 /\ ps \cap ToSet(path) = {}
                      THEN Append(path, CHOOSE s \in ps : TRUE)
                      ELSE <<>>
  IN  Repeat(Len(lines), up, <<switch>>)

PathIn(lines, node) ==
  LET own == {lines[k].switch : k \in {j \in DOMAIN lines : node \in ToSet(Expand(lines[j].nodes))}}
  IN  IF Cardinality(own) = 1 THEN Above(lines, CHOOSE s \in own : TRUE) ELSE <<>>

NodesIn(lines) == FlattenSeq([k \in DOMAIN lines |-> Expand(lines[k].nodes)])

\* initTree has refused the tree of a provider that found the fabric itself
TreeRefused == /\ stage = "done" /\ status = 400 /\ graph # Nothing /\ req.params.plugin = Tree
               /\ req.p \in OnPremProviderNames \ {"dra"}

TreeAgrees(lines, truth, idle) ==
  LET shown == {i \in DOMAIN Placed : truth[i].path # <<>>}
      found == [i \in shown |-> PathIn(lines, Placed[i])]
      from(path, k) == SubSeq(path, k, IF req.p = "k8s-node-labels" THEN Len(path) ELSE k)
      renamed == req.p \in {"oci", "oci-imds", "k8s-node-labels"}
      hosts == NodesIn(lines)
  IN  /\ Len(hosts) = Cardinality(shown) /\ ToSet(hosts) = {Placed[i] : i \in shown}
      /\ \A i \in shown :
           LET path == truth[i].path
           IN  IF idle THEN found[i] # <<>> /\ found[i][1] = path[1]
               ELSE /\ Len(found[i]) = Len(path)
                    /\ ~renamed => found[i] = path
                    /\ renamed => \A j \in shown : \A k \in DOMAIN found[i] \cap DOMAIN found[j] :
                                    found[i][k] = found[j][k] <=> from(path, k) = from(truth[j].path, k)

\* topology.conf is the fabric (ToGraph, Merger, initTree, toTreeTopology and the providers
\* before them): whatever the order and the pages the API lists its hosts in, and whichever
\* nodes answer, every host that was asked for is on one Nodes= line; following the
\* Switches= lines up from it gives exactly the switches above it in the cloud, less the
\* trimmed ones, redundant switches as one; a host the provider does not see is under
\* no-topology, or left out (infiniband, netq, k8s-node-labels); and no other host is in the
\* file.  OCI's switches are renamed, so there two hosts share a name at a tier iff they
\* share the switch, and with k8s-node-labels iff they share the labels from that tier up.
\* With an idle leaf switch InfiniBand hosts keep their leaf switch, but not what is above
\* it (buildTree).  A known host with no switch left above it is on no line (writeVertex).
\* A fabric with redundant switches is not refused, unless InfiniBand has lost a link or a
\* leaf switch is idle.
TreeFileSound ==
  /\ HasFile("tree") => \E truth \in {Truth} : TreeAgrees(out.file.lines, truth, IdleLeaf(truth))
  /\ TreeRefused => req.p \in IbProviders /\ (req.down # {} \/ IdleLeaf(Truth))

-----------------------------------------------------------------------------
\* a domain has a block if one of its hosts is in the tree, when there is a tree
InDomain(truth) ==
  {i \in DOMAIN Members : /\ truth[i].domain # Empty
                          /\ req.p \in Omitting \ {"dra"} =>
                               \E j \in DOMAIN Placed : truth[j].path # <<>> /\ truth[j].domain = truth[i].domain}

BlocksAgree(lines, truth, hosts) ==
  LET nodes  == [k \in DOMAIN lines |-> ToSet(Expand(lines[k].nodes))]
      names  == [i \in hosts |-> Members[i]]
      together(i, j) == truth[i].domain = truth[j].domain /\ truth[i].sub = truth[j].sub
      whole  == req.params.sizes = <<>> /\ \A i \in hosts : truth[i].sub = Empty
      all    == NodesIn(lines)
  IN  /\ Len(all) = Cardinality(hosts) /\ ToSet(all) = Range(names)
      /\ \A k \in DOMAIN lines : \A i, j \in hosts :
           names[i] \in nodes[k] =>
             /\ names[j] \in nodes[k] => together(i, j)
             /\ whole /\ together(i, j) => names[j] \in nodes[k]
      /\ ~whole => /\ \A k \in DOMAIN lines : Cardinality(nodes[k]) <= out.file.sizes[1]
                   /\ (Len(lines) * out.file.sizes[1]) % Last(out.file.sizes) = 0

\* topology.conf in block form (complementBlocks, buildBlockTree, toBlockTopology): every
\* host of an accelerator domain is in one block, with hosts of its own domain and
\* sub-domain only; no block is larger than the base block size, and the slots of the
\* file fill whole blocks of the largest size, padding included.  Without sizes and
\* sub-domains a block is a domain.
BlockFileSound ==
  HasFile("block") /\ ~req.params.fmt.set =>
    \E truth \in {Truth} : BlocksAgree(out.file.lines, truth, InDomain(truth))

AggregatesAgree(lines, truth, hosts) ==
  LET base    == req.params.sizes[1]
      largest == Max({Cardinality({j \in hosts : truth[j].domain = truth[i].domain}) : i \in hosts})
      slot    == [i \in hosts |-> CHOOSE k \in DOMAIN lines : Members[i] \in ToSet(Expand(lines[k].nodes))]
      group(i, s) == ((slot[i] - 1) * base) \div s
  IN  hosts # {} /\ (\A i \in hosts : truth[i].sub = Empty) =>
        \A s \in {z \in ToSet(req.params.sizes) : z < 2 * largest} :
          \A i, j \in hosts : group(i, s) = group(j, s) => truth[i].domain = truth[j].domain

\* Blocks that SLURM aggregates do not straddle domains (toSingleLevelDomainAggregate):
\* for every configured size that the largest domain more than half fills, the hosts
\* SLURM will find in one aggregate of this size are of one accelerator domain.  (A
\* blockName that fails for a block drops it, and moves the blocks after it.)
AggregatesKeepDomains ==
  HasFile("block") /\ Len(req.params.sizes) > 1 /\ ~req.params.fmt.set =>
    \E truth \in {Truth} : AggregatesAgree(out.file.lines, truth, InDomain(truth))

UnitAgrees(u, truth, inDomain) ==
  LET sect == req.params.topologies[u.name]
      part == ToSet(Expand(IF sect.given THEN sect.nodes ELSE req.scontrol[sect.partition].nodes))
      hosts == {i \in (IF u.kind = "tree" THEN DOMAIN Placed ELSE inDomain) :
                  Placed[i] \in part /\ truth[i].path # <<>>}
      spec(i) == LET all == GetNodeTopologySpec(out.nt, out.units, Placed[i])
                 IN  {all[k].path : k \in {j \in DOMAIN all : all[j].unit = u.name}}
      line(i) == CHOOSE l \in ToSet(u.lines) : Placed[i] \in ToSet(Expand(l.nodes))
      in  == ToSet(NodesIn(u.lines))
  IN  u.kind # "flat" =>
        /\ Len(NodesIn(u.lines)) = Cardinality(in)
        /\ in \subseteq {Placed[i] : i \in hosts}
        /\ \A i \in hosts :
             CASE u.kind = "tree" -> /\ PathIn(u.lines, Placed[i]) = truth[i].path
                                     /\ spec(i) = {Reverse(truth[i].path)}
               [] u.kind = "block" /\ Placed[i] \in in -> spec(i) = {<<line(i).block>>}
               [] OTHER -> sect.fmt.set /\ spec(i) = {}

\* topology.yaml (GetTopologies): the unit of a partition holds the partition's nodes and
\* no others, as far as the fabric (tree) or a domain (block) has them, at their place; and
\* the topology spec of a node (GetNodeTopologySpec), which SLURM is told when the node
\* registers, names the same place as the unit does.  Only a blockName that fails for a
\* block leaves its nodes out, of the unit and of the specs alike.
UnitsMatchSpecs ==
  HasFile("yaml") => \E truth \in {Truth} : \A u \in ToSet(out.units) : UnitAgrees(u, truth, InDomain(truth))

DocumentAgrees(doc, truth) ==
  LET hosts == {i \in DOMAIN Requested :
                  CASE req.p \in Omitting -> truth[i].path # <<>> \/ truth[i].domain # Empty
                    [] req.sim \/ req.p \in {"test", "firebird", "nautobot"} -> truth[i].known
                    [] OTHER -> TRUE}
  IN  (\E i \in hosts : truth[i].known) =>
        /\ DOMAIN doc = hosts
        /\ \A i \in hosts : /\ doc[i].layers = IF truth[i].known THEN truth[i].path ELSE <<>>
                            /\ doc[i].domain = truth[i].domain

\* the graph engine's document (graphInstances, deriveInstances, toInstance) has one record
\* per host asked for, with its switches and its accelerator domain.  A simulation, the
\* providers that attach records and those that leave hosts out have none for a host they
\* do not know.
DocumentSound ==
  "doc" \in DOMAIN out => \E truth \in {Truth} : IdleLeaf(truth) \/ DocumentAgrees(out.doc, truth)

-----------------------------------------------------------------------------
(* The slinky engine's ConfigMap and Nodes.                                *)

\* the unit of a file a spec is about; a cluster-wide topology is its own unit
UnitIn(file, unit) ==
  LET k == SelectInSeq(file.units, LAMBDA u : u.name = unit)
  IN  IF file.kind # "yaml" THEN file ELSE IF k = 0 THEN [kind |-> "none", lines |-> <<>>] ELSE file.units[k]

\* the selected Nodes with a ready slurmd pod, and its host name
Slurmds == {p \in ToSet(kube.pods) : p.ready /\ p.host # Empty /\ p.node \in DOMAIN kube.nodes
                                     /\ kube.nodes[p.node].sel}
Mapped == [n \in {p.node : p \in Slurmds} |-> (CHOOSE p \in Slurmds : p.node = n).host]
InstanceOf(h) == {i \in DOMAIN Placed : Placed[i] = h}

\* what the engine asked the provider for is what runs where the Nodes are
RightlyAsked(host) ==
  LET asks(n) == \E k \in DOMAIN cis : /\ cis[k].region = kube.nodes[n].own.region
                                        /\ kube.nodes[n].own.inst \in DOMAIN cis[k].instances
                                        /\ cis[k].instances[kube.nodes[n].own.inst] = host[n]
  IN  /\ \A i \in DOMAIN Requested : \E n \in DOMAIN host : kube.nodes[n].own.inst = i /\ asks(n)
      /\ \A n \in DOMAIN host : req.sources = NoMap /\ kube.nodes[n].ann # NoMap => asks(n)

SpecsAgree(truth, host) ==
  LET file == IF ConfigPath \in DOMAIN kube.cm.data THEN kube.cm.data[ConfigPath] ELSE out.file
      full == req.params.mode = "full"
      fits(n, i, s) ==
        LET lines == UnitIn(file, s.unit).lines
        IN  IF UnitIn(out.file, s.unit).kind = "tree"
            THEN /\ s.path = Reverse(truth[i].path)
                 /\ req.params.mode # "none" => Head(s.path) \in {lines[k].switch : k \in DOMAIN lines}
                 /\ full => PathIn(lines, host[n]) = truth[i].path
            ELSE req.params.mode # "none" =>
                   \E l \in ToSet(lines) : /\ s.path = <<l.block>>
                                           /\ full => host[n] \in ToSet(Expand(l.nodes))
      domain(n) == IF req.params.label THEN kube.nodes[n].label
                   ELSE truth[CHOOSE i \in InstanceOf(host[n]) : TRUE].domain
  IN  \A n \in DOMAIN host : \A i \in InstanceOf(host[n]) : truth[i].path # <<>> =>
        LET specs == ToSet(kube.nodes[n].spec)
        IN  /\ out.file.kind = "tree" => specs # {}
            /\ \A s \in specs :
                 /\ fits(n, i, s)
                 /\ \A m \in DOMAIN host : (InstanceOf(host[m]) # {} /\ s \in ToSet(kube.nodes[m].spec)
                                            /\ UnitIn(out.file, s.unit).kind = "block") => domain(m) = domain(n)

\* others have made a version after the one that had the output
WrittenSince == kube.cm.ver > eng.cm.ver + IF Unchanged(eng.cm) THEN 0 ELSE 1

\* a Node has its spec, or another one than it was listed with
Reconciled(l) ==
  l.name \in DOMAIN kube.nodes \cap DOMAIN eng.hosts =>
    \/ desiredSpec(eng.hosts[l.name]) \in {<<>>, kube.nodes[l.name].spec}
    \/ kube.nodes[l.name].spec # l.node.spec

\* Success means that ConfigMap and Nodes tell SLURM the same (GenerateOutput of the slinky
\* engine, performReconciliation): when nobody else wrote, the spec of every node that runs
\* a slurmd of the topology leads from the top of the written tree, skeleton or not, to the
\* switch the host is on in the cloud, or names a block of the file; in a full file the
\* node itself is there; and nodes of one block are of one accelerator domain.  The hosts the
\* engine asks the provider for are those the selected Nodes with a ready slurmd are
\* (getClusterNodes), wherever their annotations are read from (resolveNodeMetadata).
\* (Renamed switches of OCI are left out: specs have the IDs, the file has the names.)
\* When others did write, what they changed is what they wrote after the engine was done with
\* it: no ConfigMap and no Node that was read out of date is left so.
SlinkyAgrees ==
  Slinky /\ status = 200 =>
    /\ writes = 0 => \E host \in {Mapped} :
         /\ req.nodes = <<>> /\ req.p # "test" => RightlyAsked(host)
         /\ req.params.dynamic => \E truth \in {Truth} : SpecsAgree(truth, host)
    /\ req.params.mode # "none" => Unchanged(kube.cm) \/ WrittenSince
    /\ req.params.dynamic => \A l \in ToSet(eng.listed) : Reconciled(l) \/ writes > 1
=============================================================================
