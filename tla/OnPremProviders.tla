-------------------------- MODULE OnPremProviders ---------------------------
(***************************************************************************)
(* Providers that find the fabric themselves: infiniband (ibnetdiscover),  *)
(* netq, nautobot, and k8s-node-labels and dra, which read the Nodes of a  *)
(* cluster; with pkg/topology/merger.go, pkg/ib and pkg/accelerator.       *)
(*                                                                         *)
(* A fabric is a set of cables, each the pair of devices at its ends.  It  *)
(* may have redundant switches, so it is not a tree; a tree under          *)
(* construction is [kids, top]: kids maps a switch to the IDs below it.    *)
(* world maps a host to [id, layers, labels, ann] as in SimModel.  Host    *)
(* names are texts; ShortNames maps the qualified ones to their first part.*)
(***************************************************************************)
EXTENDS SimModel

CONSTANTS ShortNames,      \* host name with dots to the part before the first dot
          ScopePrefix,     \* prefix of "switch_<label>-<digest>"
          DisplayPrefix,   \* prefix offset of the name of a switch in Nautobot
          TwinStep         \* distance of the numbers of a switch and its redundant copy

\* The cables between the hosts and the switches above them.  A switch of twins has a
\* redundant copy with the same cables; down is the cables that are lost.  tier counts the
\* switches from the hosts (-1) up.
TwinOf(s) == [s EXCEPT !.num = @ + TwinStep, !.width = DigitCount(s.num + TwinStep)]
Copies(s, twins) == IF s \in twins THEN {s, TwinOf(s)} ELSE {s}
Fabric(world, twins, down) ==
  LET at(h, l) == IF l = 0 THEN {h} ELSE Copies(world[h].layers[l], twins)
      cables == UNION {UNION {{{a, b} : a \in at(h, l - 1), b \in at(h, l)} : l \in DOMAIN world[h].layers} : h \in DOMAIN world}
      tiers  == UNION {UNION {{<<x, l - 1>> : x \in at(h, l)} : l \in 0..Len(world[h].layers)} : h \in DOMAIN world}
  IN  [cables |-> cables \ down, tier |-> [x \in {t[1] : t \in tiers} |-> (CHOOSE t \in tiers : t[1] = x)[2]]]

Peers(cables, x) == UNION {c \in cables : x \in c} \ {x}

Connected(cables, xs) ==
  Repeat(Cardinality(cables), LAMBDA ys : ys \cup UNION {c \in cables : c \cap ys # {}}, xs)

-----------------------------------------------------------------------------
(* Merger: switches of a tier with the same switches below become one.     *)

Below(kids, v) == IF v \in DOMAIN kids THEN kids[v] ELSE {}

\* the tiers, leaf level first; below a tier with a childless vertex there is no other
traverse(kids, top) ==
  LET next(layer) == FoldLeft(LAMBDA acc, v : acc \o Sorted(Below(kids, v) \ (ToSet(layer) \cup ToSet(acc))),
                              <<>>, layer)
      lowest(layer) == layer = <<>> \/ \E i \in DOMAIN layer : Below(kids, layer[i]) = {}
  IN  Repeat(Cardinality(DOMAIN kids) + 1,
             LAMBDA tiers : IF lowest(Head(tiers)) THEN tiers ELSE <<next(Head(tiers))>> \o tiers, <<top>>)

\* m is [kids, refs, layer]; the first of the equal ones keeps its ID
mergeLayer(m, layer) ==
  FoldLeft(LAMBDA acc, v :
             LET signature == {IF c \in DOMAIN acc.refs THEN acc.refs[c] ELSE c : c \in acc.kids[v]}
                 equal == {w \in ToSet(acc.layer) : acc.kids[w] = signature}
             IN  IF equal # {} THEN [acc EXCEPT !.refs = (v :> CHOOSE w \in equal : TRUE) @@ @]
                 ELSE [acc EXCEPT !.kids[v] = signature, !.layer = Append(@, v)],
           [m EXCEPT !.layer = <<>>], layer)

Merge(tree) ==
  LET m == FoldLeft(mergeLayer, [kids |-> tree.kids, refs |-> NoMap, layer |-> Sorted(tree.top)],
                    Tail(traverse(tree.kids, Sorted(tree.top))))
  IN  [kids |-> m.kids, top |-> ToSet(m.layer)]

\* tier by tier upwards: adj gives the devices a switch may have below it.  Only the last
\* tier that is found becomes the top.
ClimbTiers(kids, level, adj) ==
  LET upper(tree) == {s \in DOMAIN adj \ DOMAIN tree.kids : adj[s] \cap tree.top # {}}
      climb(tree) == IF upper(tree) = {} THEN tree
                     ELSE [kids |-> [s \in upper(tree) |-> adj[s] \cap tree.top] @@ tree.kids,
                           top  |-> upper(tree)]
  IN  Repeat(Cardinality(DOMAIN adj), climb, [kids |-> kids, top |-> level])

\* the graph of a tree, with the names of its vertices
TreeGraph(tree, names, domains) ==
  LET ref(x) == IF x \in DOMAIN tree.kids THEN [lvl |-> 0, id |-> x] ELSE LeafRef(x)
      ids    == tree.top \cup UNION {tree.kids[s] : s \in DOMAIN tree.kids} \cup DOMAIN tree.kids
      to(xs) == [x \in xs |-> ref(x)]
  IN  [verts |-> (RootRef :> [Vertex(Empty, Empty) EXCEPT !.kids = to(tree.top)])
                 @@ [v \in {ref(x) : x \in ids} |->
                      [Vertex(v.id, Lookup(names, v.id)) EXCEPT !.kids = to(Below(tree.kids, v.id))]],
       domains |-> domains, insts |-> NoMap]

-----------------------------------------------------------------------------
(* InfiniBand.  ibnetdiscover on a host lists the switches and HCAs that   *)
(* are connected to it; an HCA (its ID is the host's) describes itself by  *)
(* a host name.                                                            *)

shortHostName(name) == IF name \in DOMAIN ShortNames THEN ShortNames[name] ELSE name
isShortHostName(name) == shortHostName(name) = name

HcaName(node) == IF "hca" \in DOMAIN node.labels THEN node.labels.hca ELSE node.id

\* HCA ID to node name: exactly, else by the short name if that leaves one node, unless
\* HCAs with another name are taken for the same node
resolveNodeNames(hca, nodes) ==
  LET candidates(name) == {n \in nodes : /\ shortHostName(n) = shortHostName(name)
                                         /\ isShortHostName(name) \/ isShortHostName(n)}
      fallback == [c \in {d \in DOMAIN hca : hca[d] \notin nodes /\ Cardinality(candidates(hca[d])) = 1} |->
                    CHOOSE n \in candidates(hca[c]) : TRUE]
      reported(n) == {hca[c] : c \in {d \in DOMAIN hca : hca[d] = n}}
                     \cup {hca[c] : c \in {d \in DOMAIN fallback : fallback[d] = n}}
  IN  [c \in DOMAIN hca |-> IF c \in DOMAIN fallback /\ Cardinality(reported(fallback[c])) = 1
                            THEN fallback[c] ELSE hca[c]]

\* conn: switch to the devices on its ports.  Leaf switches are those with nodes of the
\* cluster; a leaf switch whose hosts are all strangers is not one of them, and is met
\* again from above
buildTree(conn, hca, nodes) ==
  LET nodesOf(s) == {hca[c] : c \in conn[s] \cap DOMAIN hca} \cap nodes
      leaves == {s \in DOMAIN conn : nodesOf(s) # {}}
  IN  ClimbTiers([s \in leaves |-> nodesOf(s)], leaves, [s \in DOMAIN conn |-> conn[s] \ DOMAIN hca])

\* ib.GenerateTopologyConfig on the output for one part of the fabric; [hca, tree]
IbConfig(world, cables, part, nodes) ==
  LET switches == part \ DOMAIN world
      conn == [s \in switches |-> Peers(cables, s)]
      hca  == [h \in {i \in part \cap DOMAIN world : HcaName(world[i]) # Empty} |-> HcaName(world[h])]
      resolved == resolveNodeNames(hca, nodes)
  IN  [hca |-> resolved, tree |-> Merge(buildTree(conn, resolved, nodes))]

\* ibnetdiscover runs on the nodes that no earlier run has shown; a run that fails is skipped
getIbTree(world, cables, nodes, order, answering) ==
  LET scan(acc, n) ==
        IF n \in acc.visited \/ n \notin answering THEN acc
        ELSE LET found == IbConfig(world, cables, Connected(cables, {n}), nodes)
             IN  [visited |-> acc.visited \cup {found.hca[c] : c \in DOMAIN found.hca},
                  kids |-> found.tree.kids @@ acc.kids, top |-> acc.top \cup found.tree.top]
  IN  FoldLeft(scan, [visited |-> {}, kids |-> NoMap, top |-> {}], order)

\* infiniband-sim: the hosts on the switches of a captured output
NamedHosts(world, cables) ==
  {HcaName(world[i]) : i \in {j \in DOMAIN world : Peers(cables, j) # {}}} \ {Empty}

-----------------------------------------------------------------------------
(* Accelerator domains.  accel is the section of the provider parameters.  *)

Sources == {"none", "nvidia-smi", "kubernetes-label"}

\* "invalid": no object, an unknown source, a label source without its key
ParseConfig(accel) ==
  CASE accel \in {"absent", "empty"} -> "none"
    [] accel \in Sources             -> accel
    [] OTHER                         -> "invalid"

NewCommandDiscoverer(accel) == ParseConfig(accel) \in {"none", "nvidia-smi"}
NewKubernetesDiscoverer(accel) == ParseConfig(accel) # "invalid"
newAcceleratorDiscoverer(accel) == accel = "absent" \/ ParseConfig(accel) = "kubernetes-label"

\* the lines nvidia-smi prints, one per GPU: cluster UUID and clique (Empty: N/A)
SmiLines(node) ==
  IF Domain(node) = Empty THEN {}
  ELSE {<<Domain(node), SubDomain(node)>>}
       \cup (IF "mixed" \in DOMAIN node.ann THEN {<<node.ann.mixed, SubDomain(node)>>} ELSE {})

\* every line must parse, and all must name one partition
ParseNvidiaSMIOutput(lines) ==
  LET partitions == {Dotted(l[1], l[2]) : l \in lines}
  IN  IF (\E l \in lines : Empty \in {l[1], l[2]}) \/ Cardinality(partitions) # 1 THEN [ok |-> FALSE]
      ELSE [ok |-> TRUE, id |-> CHOOSE p \in partitions : TRUE]

\* the annotation the node data broker makes of it: none when the output is not usable
GetNodeAnnotations(node) ==
  LET parsed == ParseNvidiaSMIOutput(SmiLines(node)) IN IF parsed.ok THEN parsed.id ELSE Empty

DomainMapFromAssignments(assignments, names) ==
  FoldLeft(LAMBDA d, i : AddHostInfo(d, [domain |-> assignments[i], sub |-> Empty, id |-> i, name |-> names[i]]),
           NoMap, Sorted(DOMAIN assignments))

\* nvidia-smi on the hosts; one that prints nothing is skipped, any other bad output fails.
\* names maps the instances asked for to their hosts
CommandDomains(accel, world, names, answering) ==
  LET printed == IF ParseConfig(accel) = "none" THEN {}
                 ELSE {i \in DOMAIN names : names[i] \in answering /\ SmiLines(world[names[i]]) # {}}
      parsed  == [i \in printed |-> ParseNvidiaSMIOutput(SmiLines(world[names[i]]))]
  IN  IF \E i \in printed : ~parsed[i].ok THEN [ok |-> FALSE]
      ELSE [ok |-> TRUE, domains |-> DomainMapFromAssignments([i \in printed |-> parsed[i].id], names)]

\* the Nodes whose instance and region annotations match the request; the last of equal regions counts
TargetsFromKubernetesNodes(world, cis) ==
  LET byRegion == FoldLeft(LAMBDA m, ci : (ci.region :> ci.instances) @@ m, NoMap, cis)
      region(i) == Lookup(world[i].labels, "region")
      targets == {i \in DOMAIN world : /\ region(i) # Empty /\ region(i) \in DOMAIN byRegion
                                       /\ i \in DOMAIN byRegion[region(i)]}
  IN  [i \in targets |-> byRegion[region(i)][i]]

DiscoverKubernetesDomains(source, world, targets) ==
  LET value(i) == CASE source = "none"       -> Empty
                    [] source = "nvidia-smi" -> GetNodeAnnotations(world[i])
                    [] OTHER                 -> Domain(world[i])
  IN  DomainMapFromAssignments([i \in {j \in DOMAIN targets : value(j) # Empty} |-> value(i)], targets)

-----------------------------------------------------------------------------
(* NetQ: hosts are tier -1, links go from the lower to the higher tier.    *)
(* A host is a device of its own ID, known by its node name.               *)

DeviceID(world, x) == IF x \in DOMAIN world THEN InstanceID(x) ELSE x

\* the tree over the requested hosts of one premises, in the form of a Merger's result
parseNetq(world, fabric, names) ==
  LET hosts    == {InstanceID(h) : h \in DOMAIN world \cap names}
      switches == DOMAIN fabric.tier \ DOMAIN world
      lower(s) == {x \in Peers(fabric.cables, s) : fabric.tier[x] < fabric.tier[s]}
  IN  Merge(ClimbTiers(NoMap, hosts, [s \in switches |-> {DeviceID(world, x) : x \in lower(s)}]))

\* names of devices: a switch is named by its ID
NetqNames(world, tree) ==
  [i \in {InstanceID(h) : h \in DOMAIN world} |-> CHOOSE h \in DOMAIN world : InstanceID(h) = i]
  @@ [s \in DOMAIN tree.kids |-> s]

\* NMX lists the compute nodes of every domain, whether asked for or not
parseComputeNodes(world) ==
  FoldLeft(LAMBDA d, h : AddHostInfo(d, [domain |-> Domain(world[h]), sub |-> Empty, id |-> h, name |-> h]),
           NoMap, Sorted(DOMAIN world))

-----------------------------------------------------------------------------
(* k8s-node-labels: the layers of a Node are its topology labels, closest  *)
(* tier first; params is [tiers (how many), missing ("skip" or "fail"),    *)
(* ready].                                                                 *)

IsNodeEligible(node) == "deleting" \notin DOMAIN node.labels /\ "unready" \notin DOMAIN node.labels

\* a digest of the label values from the tier up; salted when the ID is requested
switchID(values, ids) ==
  LET digest == FoldLeft(LAMBDA n, v : n * 1000 + v.pre * 10 + (v.num % 10), 0, values)
      id(salt) == [pre |-> ScopePrefix + salt, num |-> digest, width |-> 9]
  IN  id(Min({salt \in 0..Cardinality(ids) : id(salt) \notin ids}))

\* the Nodes in the order listed: reports of the usable ones; fail when a label is missing
LabelReports(world, params, requested, order) ==
  LET values(i) == [l \in 1..params.tiers |-> IF l <= Len(world[i].layers) THEN world[i].layers[l] ELSE Empty]
      wanted == SelectSeq(order, LAMBDA i : /\ i \in DOMAIN requested
                                            /\ "deleting" \notin DOMAIN world[i].labels
                                            /\ params.ready => IsNodeEligible(world[i]))
      usable == SelectSeq(wanted, LAMBDA i : Empty \notin ToSet(values(i)))
      tiers(vs) == [l \in DOMAIN vs |-> [id |-> switchID(SubSeq(vs, l, Len(vs)), DOMAIN requested), name |-> Empty]]
  IN  [fail |-> params.missing = "fail" /\ Len(usable) < Len(wanted),
       reports |-> [k \in DOMAIN usable |-> Report(usable[k], tiers(values(usable[k])), Empty, Empty)]]

-----------------------------------------------------------------------------
(* Nautobot.  Switches are found by following cables from the seeds; every *)
(* switch of a tier that shares a device below with another is one group.  *)

\* the next switches to ask for, in order, when the switches found are asked about
Frontier(cables, scheduled, found, usable) ==
  Sorted((UNION {Peers(cables, s) : s \in found} \cap usable) \ scheduled)

\* hierarchy: parent of every host and group.  layer is the switches of one tier, groups
\* maps the devices below them to their group
\* one tier: h is [groups, layer, depth, parents]
NextTier(links, switches, h) ==
  LET kids(s) == {h.groups[x] : x \in links[s] \cap DOMAIN h.groups}
      merge(rep, child) ==
        LET same == {rep[s] : s \in {t \in h.layer : child \in kids(t)}}
        IN  [s \in h.layer |-> IF rep[s] \in same THEN Head(Sorted(same)) ELSE rep[s]]
      children == UNION {kids(s) : s \in h.layer}
      rep   == FoldLeft(merge, [s \in h.layer |-> s], Sorted(children))
      depth == h.depth \cup h.layer
  IN  [groups |-> rep, layer |-> (UNION {links[s] : s \in h.layer} \cap switches) \ depth, depth |-> depth,
       parents |-> h.parents @@ [c \in children |-> rep[CHOOSE s \in h.layer : c \in kids(s)]]]

hierarchy(links, switches, hosts, near) ==
  Repeat(Cardinality(switches), LAMBDA h : NextTier(links, switches, h),
         [groups |-> hosts, layer |-> near, depth |-> {}, parents |-> NoMap]).parents

ParentsOf(parents, x) ==
  LET up(path) == IF Last(path) \in DOMAIN parents THEN Append(path, parents[Last(path)]) ELSE path
  IN  Tail(Repeat(Cardinality(DOMAIN parents), up, <<x>>))

NautobotName(s) == [s EXCEPT !.pre = @ + DisplayPrefix]

\* ID, name and serial of a host; an alias of two hosts is none
Aliases(world, i) == {i, Lookup(world[i].labels, "name"), Lookup(world[i].labels, "serial")} \ {Empty}
HostsCalled(world, alias) == {i \in DOMAIN world : alias \in Aliases(world, i)}

\* buildTopology: hosts are the compute peers of the switches found
NautobotReport(world, parents, asked) ==
  LET called == HostsCalled(world, asked)
      ids    == IF Cardinality(called) # 1 THEN <<>> ELSE ParentsOf(parents, CHOOSE i \in called : TRUE)
  IN  IF ids = <<>> THEN <<>>
      ELSE <<[Report(asked, [k \in DOMAIN ids |-> [id |-> ids[k], name |-> NautobotName(ids[k])]], Empty, Empty)
               EXCEPT !.meta = BareInstance]>>

NautobotReports(world, cables, found, order) ==
  LET peers  == UNION {Peers(cables, s) : s \in found}
      hosts  == [h \in peers \cap DOMAIN world |-> world[h]]
      near   == {s \in found : Peers(cables, s) \cap DOMAIN hosts # {}}
      links  == [s \in found |-> Peers(cables, s) \cap (found \cup DOMAIN hosts)]
      parents == hierarchy(links, found, [h \in DOMAIN hosts |-> h], near)
  IN  FlattenSeq([k \in DOMAIN order |-> NautobotReport(hosts, parents, order[k])])

-----------------------------------------------------------------------------
(* Loaders.  params is the rest of the provider parameters: valid tells    *)
(* whether they decode and name what they must.                            *)

LoaderBM(params) == IF NewCommandDiscoverer(params.accel) THEN 0 ELSE 400

LoaderK8S(params, env) ==
  FirstError(<<IF params.valid THEN 0 ELSE 400, IF NewKubernetesDiscoverer(params.accel) THEN 0 ELSE 400,
               IF env.inCluster THEN 0 ELSE 502>>)

draLoader(params, env) ==
  FirstError(<<IF params.valid THEN 0 ELSE 400, IF newAcceleratorDiscoverer(params.accel) THEN 0 ELSE 400,
               IF env.inCluster THEN 0 ELSE 502, IF env.limits THEN 0 ELSE 400>>)

nodelabelsLoader(params, env) ==
  FirstError(<<IF params.valid /\ params.tiers > 0 /\ params.missing \in {"skip", "fail"} THEN 0 ELSE 400,
               IF env.inCluster THEN 0 ELSE 502, IF env.limits THEN 0 ELSE 400>>)

netqLoader(creds, env) ==
  FirstError(<<IF env.baseUrl THEN 0 ELSE 400,
               IF Has(creds, "username") /\ Has(creds, "password") THEN 0 ELSE 400>>)

nautobotLoader(creds, env, params, trim) ==
  FirstError(<<IF env.baseUrl /\ params.valid THEN 0 ELSE 400, IF trim < 0 THEN 400 ELSE 0,
               IF Nonblank(creds, "token") THEN 0 ELSE 400>>)

OnPremLoaderCode(p, creds, env, params, trim) ==
  CASE p = "infiniband-bm"   -> LoaderBM(params)
    [] p = "infiniband-k8s"  -> LoaderK8S(params, env)
    [] p = "dra"             -> draLoader(params, env)
    [] p = "k8s-node-labels" -> nodelabelsLoader(params, env)
    [] p = "netq"            -> netqLoader(creds, env)
    [] p = "nautobot"        -> nautobotLoader(creds, env, params, trim)
=============================================================================
