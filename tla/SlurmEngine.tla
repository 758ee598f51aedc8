----------------------------- MODULE SlurmEngine ----------------------------
(***************************************************************************)
(* The parameters of the slurm and slinky engines and the configuration    *)
(* they ask pkg/translate for (pkg/engines/slurm/slurm.go), and the graph  *)
(* engine's instances document (pkg/engines/graph/engine.go).              *)
(*                                                                         *)
(* Parameters are [plugin, sizes, fmt, topologies]; a section of           *)
(* topologies is [plugin, partition, sizes, fmt, nodes, given, default],   *)
(* given telling whether the section has a node list.                      *)
(***************************************************************************)
EXTENDS TopologyOutput

CONSTANTS MaxBlockSizesLen, MaxBlockSizeValue   \* 20 and 65536

PowersOfTwo == {2^k : k \in 0..MaxBlockSizesLen}

validateBlockSizes(sizes) ==
  /\ Len(sizes) <= MaxBlockSizesLen
  /\ \A i \in DOMAIN sizes : sizes[i] \in 1..MaxBlockSizeValue
  /\ \A i \in 2..Len(sizes) : /\ sizes[i] > sizes[i - 1]
                              /\ sizes[i] % sizes[i - 1] = 0
                              /\ sizes[i] \div sizes[i - 1] \in PowersOfTwo

\* scontrol's answer for a partition is [found, nodes]: no Nodes= is an error, NONE an empty list
parsePartitionNodes(out) ==
  IF out.found THEN [ok |-> TRUE, nodes |-> Compact(Expand(out.nodes))]
  ELSE [ok |-> FALSE, nodes |-> <<>>]

SkipsDiscovery(sect) == sect.default /\ sect.plugin = Flat /\ sect.partition = Empty

\* the node list of a section: given, skipped or looked up
SectionNodes(sect, scontrol) ==
  CASE sect.given           -> [ok |-> TRUE, nodes |-> sect.nodes]
    [] ~sect.given /\ SkipsDiscovery(sect) -> [ok |-> TRUE, nodes |-> <<>>]
    [] OTHER -> IF sect.partition \in DOMAIN scontrol THEN parsePartitionNodes(scontrol[sect.partition])
                ELSE [ok |-> FALSE, nodes |-> <<>>]

\* [code, cfg]; sections are taken in any order, so either error may be the one reported
GetTranslateConfig(params, scontrol) ==
  LET valid(s)  == validateBlockSizes(s.sizes) /\ (s.fmt.set => s.fmt.valid)
      sects     == params.topologies
      nodes(t)  == SectionNodes(sects[t], scontrol)
      spec(t)   == [plugin |-> sects[t].plugin, sizes |-> sects[t].sizes, fmt |-> sects[t].fmt,
                    default |-> sects[t].default, nodes |-> nodes(t).nodes]
      errors    == {IF valid(sects[t]) THEN 500 ELSE 400 :
                     t \in {u \in DOMAIN sects : ~valid(sects[u]) \/ ~nodes(u).ok}}
      cfg       == [plugin |-> params.plugin, sizes |-> params.sizes, fmt |-> params.fmt,
                    topologies |-> [t \in DOMAIN sects |-> spec(t)]]
  IN  IF ~valid(params) THEN {[code |-> 400]}
      ELSE IF errors # {} THEN {[code |-> e] : e \in errors}
      ELSE {[code |-> 0, cfg |-> cfg]}

\* GenerateOutputParams and its counterpart in the slinky engine, up to the generated file
Generated(nt, skeletonOnly) ==
  IF nt.ok THEN GenerateTopologyConfig(nt, skeletonOnly) ELSE [ok |-> FALSE]

Coded(gen) == IF ~gen.ok THEN [code |-> 400]
              ELSE [code |-> 0, nt |-> gen.nt, units |-> gen.units, file |-> gen.file]

Translated(graph, params, scontrol, skeletonOnly) ==
  {IF c.code # 0 THEN c ELSE Coded(Generated(NewNetworkTopology(graph, c.cfg), skeletonOnly)) :
     c \in GetTranslateConfig(params, scontrol)}

\* the slurm engine's default
WithDefaultPlugin(params) ==
  IF params.plugin = "" /\ params.topologies = NoMap THEN [params EXCEPT !.plugin = Tree] ELSE params

-----------------------------------------------------------------------------
(* The graph engine: one record per instance, [layers, domain, sub].       *)

requestedKeys(cis) ==
  UNION {UNION {{i, cis[k].instances[i]} : i \in DOMAIN cis[k].instances} : k \in DOMAIN cis} \ {Empty}

\* the leaves below v in the order of the walk: [id, name, layers], layers closest first
WalkLeaves(verts, root) ==
  LET layer(w) == IF w.id = NoTopology THEN <<>> ELSE <<DisplayName(w)>>
      id(w)    == IF w.id = Empty THEN w.name ELSE w.id
      leaf(w)  == IF id(w) = Empty THEN <<>> ELSE <<[id |-> id(w), name |-> w.name, layers |-> <<>>]>>
      under(w, leaves) == [i \in DOMAIN leaves |-> [leaves[i] EXCEPT !.layers = @ \o layer(w)]]
      walk[v \in DOMAIN verts] ==
        LET keys == Sorted(DOMAIN verts[v].kids)
            kid(i) == verts[v].kids[keys[i]]
        IN  FlattenSeq([i \in DOMAIN keys |->
              IF verts[kid(i)].kids = NoMap THEN leaf(verts[kid(i)]) ELSE under(verts[kid(i)], walk[kid(i)])])
  IN  walk[root]

\* the first leaf of an ID counts, and only what was requested
TreeInstances(graph, requested) ==
  FoldLeft(LAMBDA acc, leaf :
             IF leaf.id \in DOMAIN acc.recs \/ {leaf.id, leaf.name} \cap requested = {} THEN acc
             ELSE [recs |-> (leaf.id :> [layers |-> leaf.layers, domain |-> Empty, sub |-> Empty]) @@ acc.recs,
                   ids  |-> IF leaf.name \in {Empty, leaf.id} \cup DOMAIN acc.ids THEN acc.ids
                            ELSE (leaf.name :> leaf.id) @@ acc.ids],
           [recs |-> NoMap, ids |-> NoMap],
           IF graph.verts = NoMap THEN <<>> ELSE WalkLeaves(graph.verts, RootRef))

\* one host of an accelerator domain; the first domain of an instance counts
AddDomainHost(recs, ids, requested, h) ==
  LET id  == CASE h.id \in DOMAIN recs -> h.id
               [] h.id \notin DOMAIN recs /\ h.name \in DOMAIN ids -> ids[h.name]
               [] h.id \notin DOMAIN recs /\ h.name \notin DOMAIN ids /\ h.name \in DOMAIN recs -> h.name
               [] OTHER -> IF h.id = Empty THEN h.name ELSE h.id
      rec == IF id \in DOMAIN recs THEN recs[id] ELSE [layers |-> <<>>, domain |-> Empty, sub |-> Empty]
  IN  IF \/ id = Empty
         \/ id \notin DOMAIN recs /\ {id, h.name} \cap requested = {}
         \/ rec.domain # Empty
      THEN recs
      ELSE (id :> [rec EXCEPT !.domain = h.domain, !.sub = IF h.sub = Empty THEN @ ELSE h.sub]) @@ recs

deriveInstances(graph, requested) ==
  LET tree  == TreeInstances(graph, requested)
      order == Sorted(DOMAIN graph.domains)
      hosts(d) == LET ns == Sorted(DOMAIN graph.domains[d])
                  IN  [i \in DOMAIN ns |-> graph.domains[d][ns[i]]]
  IN  FoldLeft(LAMBDA recs, h : AddDomainHost(recs, tree.ids, requested, h), tree.recs,
               FlattenSeq([i \in DOMAIN order |-> hosts(order[i])]))

\* what an attached record lacks comes from the derived one
fillInstance(inst, derived) ==
  LET domain == IF inst.domain = Empty THEN derived.domain ELSE inst.domain
  IN  [layers |-> IF inst.layers = <<>> THEN derived.layers ELSE inst.layers,
       domain |-> domain,
       sub    |-> IF inst.sub = Empty /\ domain = derived.domain THEN derived.sub ELSE inst.sub]

graphInstances(graph, requested) ==
  LET derived == deriveInstances(graph, requested)
      none == [layers |-> <<>>, domain |-> Empty, sub |-> Empty]
  IN  IF graph.insts = NoMap THEN derived
      ELSE [i \in DOMAIN graph.insts |->
             fillInstance(graph.insts[i], IF i \in DOMAIN derived THEN derived[i] ELSE none)]
=============================================================================
