--------------------------- MODULE TopologyOutput ---------------------------
(***************************************************************************)
(* What a NetworkTopology is written as: topology.conf in tree or block    *)
(* form (tree.go, block.go), topology.yaml with one unit per partition     *)
(* (yaml.go), and the topology spec of a single node (topology.go).        *)
(* Node and switch lists are in compact form, as in the file.              *)
(***************************************************************************)
EXTENDS NetTopology

DisplayName(v) == IF v.name = Empty THEN v.id ELSE v.name

NamesOf(vs) == [i \in DOMAIN vs |-> DisplayName(vs[i])]

\* the lines of one vertex: Switches= and Nodes= on a line of their own each
writeVertex(nt, id, skeletonOnly) ==
  LET v     == nt.verts[nt.at[id].ref]
      kids  == [i \in DOMAIN TreeOf(nt, id) |-> nt.verts[v.kids[TreeOf(nt, id)[i]]]]
      sws   == SelectSeq(kids, LAMBDA w : w.kids # NoMap)
      nodes == SelectSeq(kids, LAMBDA w : w.kids = NoMap)
      names == [i \in DOMAIN nodes |-> nodes[i].name]
      line(s, n) == [switch |-> DisplayName(v), switches |-> Compact(s), nodes |-> Compact(n)]
  IN  CASE id = Empty -> <<>>
        [] id # Empty /\ skeletonOnly -> IF v.kids = NoMap THEN <<>> ELSE <<line(<<>>, <<>>)>>
        [] OTHER -> (IF sws = <<>> THEN <<>> ELSE <<line(NamesOf(sws), <<>>)>>)
                    \o (IF nodes = <<>> THEN <<>> ELSE <<line(<<>>, names)>>)

\* breadth first; a skeleton ends with the switches below the root
toTreeTopology(nt, skeletonOnly) ==
  LET next(id) == IF skeletonOnly /\ id # Empty THEN <<>> ELSE TreeOf(nt, id)
      queue == BreadthFirst(Cardinality(DOMAIN nt.at), Empty, next)
  IN  [ok |-> TRUE, nt |-> nt, units |-> <<>>,
       file |-> [kind |-> "tree",
                 lines |-> FlattenSeq([i \in DOMAIN queue |-> writeVertex(nt, queue[i], skeletonOnly)])]]

Failed(nt) == [ok |-> FALSE, nt |-> nt, units |-> <<>>, file |-> [kind |-> "none"]]

\* cluster-wide blocks; the block of every node is set to the name written for it
BlockFile(nt, c, f, skeletonOnly) ==
  LET holds(bs, n) == \E i \in DOMAIN bs : n \in ToSet(bs[i].nodes)
      lastOf(bs, n) == bs[Max({i \in DOMAIN bs : n \in ToSet(bs[i].nodes)})].id
      renamed == [n \in DOMAIN nt.info |->
                   CASE holds(f.kept, n)    -> [nt.info[n] EXCEPT !.block = lastOf(f.kept, n)]
                     [] holds(f.dropped, n) -> [nt.info[n] EXCEPT !.block = Empty]
                     [] OTHER               -> nt.info[n]]
      lines   == [i \in DOMAIN f.kept |->
                   [block |-> f.kept[i].id,
                    nodes |-> IF skeletonOnly THEN <<>> ELSE Compact(f.kept[i].nodes)]]
  IN  IF \/ ~f.ok
         \/ anyBlockHasNodes(c.blocks) /\ ~anyBlockHasNodes(f.kept)
         \/ c.sizes = <<>> /\ f.kept = <<>>
      THEN Failed(nt)
      ELSE [ok |-> TRUE, nt |-> [nt EXCEPT !.info = renamed], units |-> <<>>,
            file |-> [kind |-> "block", lines |-> lines, sizes |-> getBlockSizes(f.kept, c.sizes)]]

toBlockTopology(nt, skeletonOnly) ==
  LET named(c) == BlockFile(nt, c, formatBlockNames(c.blocks, nt.cfg.fmt), skeletonOnly)
  IN  named(complementBlocks(nt.domains, nt.blocks, nt.cfg.sizes))

-----------------------------------------------------------------------------
(* Partition units.  parents is what node specs are made from.             *)

FlatUnit(t, spec) == [ok |-> TRUE, name |-> t, default |-> spec.default, kind |-> "flat"]
BadUnit == [ok |-> FALSE]

\* mutant: the partition's blocks with all their nodes
WholeBlocks(nt, nodes) ==
  LET known == SelectSeq(nodes, LAMBDA n : n \in DOMAIN nt.info /\ nt.info[n].indx # 0)
      order == SetToSortSeq({nt.info[known[i]].indx : i \in DOMAIN known}, <)
  IN  [i \in DOMAIN order |->
        [id |-> Empty, name |-> nt.blocks[order[i]].name, nodes |-> nt.blocks[order[i]].nodes]]

\* nodes of the partition that have a block, grouped by it
PartitionBlocks(nt, nodes) ==
  LET known == SelectSeq(nodes, LAMBDA n : n \in DOMAIN nt.info /\ nt.info[n].indx # 0)
      order == SetToSortSeq({nt.info[known[i]].indx : i \in DOMAIN known}, <)
  IN  [i \in DOMAIN order |->
        [id |-> Empty, name |-> nt.blocks[order[i]].name,
         nodes |-> SelectSeq(known, LAMBDA n : nt.info[n].indx = order[i])]]

\* ids: the partition's blocks with padding; f: these with their names; sizes: theirs
BlockUnit(t, spec, ids, f, sizes) ==
  LET lines == [i \in DOMAIN f.kept |-> [block |-> f.kept[i].id, nodes |-> Compact(f.kept[i].nodes)]]
      held  == UNION {ToSet(f.kept[i].nodes) : i \in DOMAIN f.kept}
      of(n) == f.kept[Max({i \in DOMAIN f.kept : n \in ToSet(f.kept[i].nodes)})].id
  IN  CASE ~f.ok -> BadUnit
        [] anyBlockHasNodes(ids) /\ ~anyBlockHasNodes(f.kept) -> FlatUnit(t, spec)
        [] OTHER -> [ok |-> TRUE, name |-> t, default |-> spec.default, kind |-> "block",
                     lines |-> lines, sizes |-> getBlockSizes(f.kept, sizes),
                     parents |-> [n \in held |-> <<of(n)>>]]

getBlockTopologyUnit(nt, t, spec) ==
  LET numbered(blocks) == [i \in DOMAIN blocks |-> [blocks[i] EXCEPT !.id = BlockID(i, 1)]]
      named(ids, sizes) == BlockUnit(t, spec, ids, formatBlockNames(ids, spec.fmt), sizes)
      filled(c) == named(numbered(c.blocks), c.sizes)
      unit(infos) == IF infos = <<>> THEN FlatUnit(t, spec)
                     ELSE filled(complementBlocks(nt.domains, infos, spec.sizes))
  IN  IF ExceedsLimit(spec.nodes, MaxExpandedNodes) THEN BadUnit
      ELSE unit(PartitionBlocks(nt, Expand(spec.nodes)))

\* the IDs on the way to a wanted leaf, the root included
findRequiredNodes(nt, leaves) ==
  UNION {{i, Empty} \cup ToSet(nt.at[i].switches) : i \in leaves \cap DOMAIN nt.at}

\* breadth first over the required part of the tree
UnitSwitches(nt, required) ==
  LET next(id) == SelectSeq(TreeOf(nt, id), LAMBDA i : i \in required)
  IN  SelectSeq(BreadthFirst(Cardinality(DOMAIN nt.at), Empty, next), LAMBDA id : id # Empty /\ next(id) # <<>>)

\* the switches above every child of the unit's switches, as the walk adds them up
UnitParents(nt, sws) ==
  LET key(w) == IF IsLeaf(nt.verts, w) THEN nt.verts[w].name ELSE nt.verts[w].id
      above(p, s) == IF s \in DOMAIN p THEN Append(p[s], s) ELSE <<s>>
      visit(p, s) == [k \in {key(w) : w \in Kids(nt.verts, nt.at[s].ref)} |-> above(p, s)] @@ p
  IN  FoldLeft(visit, NoMap, sws)

getTreeTopologyUnit(nt, t, spec) ==
  LET wanted   == {n \in ToSet(Expand(spec.nodes)) : n \in DOMAIN nt.info}
      required == findRequiredNodes(nt, {nt.info[n].id : n \in wanted})
      sws      == UnitSwitches(nt, required)
      at(i)    == nt.verts[nt.at[i].ref]
      kid(s, i) == nt.verts[at(s).kids[i]]
      leafIDs(s)  == SelectSeq(TreeOf(nt, s), LAMBDA i : kid(s, i).kids = NoMap /\ kid(s, i).name \in wanted)
      childIDs(s) == SelectSeq(TreeOf(nt, s), LAMBDA i : kid(s, i).kids # NoMap /\ i \in required)
      line(s)  == [switch |-> s, switches |-> Compact(childIDs(s)),
                   nodes |-> Compact([k \in DOMAIN leafIDs(s) |-> kid(s, leafIDs(s)[k]).name])]
  IN  CASE ExceedsLimit(spec.nodes, MaxExpandedNodes) -> BadUnit
        [] wanted = {} -> FlatUnit(t, spec)
        [] OTHER -> [ok |-> TRUE, name |-> t, default |-> spec.default, kind |-> "tree",
                     lines |-> [k \in DOMAIN sws |-> line(sws[k])],
                     top |-> {i \in required : nt.at[i].switches = <<>>},
                     parents |-> UnitParents(nt, sws)]

UnitOf(nt, t, spec) ==
  CASE spec.plugin = Tree  -> getTreeTopologyUnit(nt, t, spec)
    [] spec.plugin = Block -> getBlockTopologyUnit(nt, t, spec)
    [] OTHER               -> FlatUnit(t, spec)

GetTopologies(nt) ==
  LET order == Sorted(DOMAIN nt.cfg.topologies)
  IN  [i \in DOMAIN order |-> UnitOf(nt, order[i], nt.cfg.topologies[order[i]])]

copySkeleton(units) ==
  [i \in DOMAIN units |->
    CASE units[i].kind = "tree" ->
           [units[i] EXCEPT !.lines = LET top == SelectSeq(@, LAMBDA l : l.switch \in units[i].top)
              IN [k \in DOMAIN top |-> [top[k] EXCEPT !.switches = <<>>, !.nodes = <<>>]]]
      [] units[i].kind = "block" ->
           [units[i] EXCEPT !.lines = [k \in DOMAIN @ |-> [@[k] EXCEPT !.nodes = <<>>]]]
      [] OTHER -> units[i]]

\* [ok, nt, units, file]
GenerateTopologyConfig(nt, skeletonOnly) ==
  LET yaml(units) ==
        IF \E i \in DOMAIN units : ~units[i].ok THEN Failed(nt)
        ELSE [ok |-> TRUE, nt |-> nt, units |-> units,
              file |-> [kind |-> "yaml", units |-> IF skeletonOnly THEN copySkeleton(units) ELSE units]]
  IN  CASE nt.cfg.topologies # NoMap -> yaml(GetTopologies(nt))
        [] nt.cfg.topologies = NoMap /\ nt.cfg.plugin = Block -> toBlockTopology(nt, skeletonOnly)
        [] OTHER -> toTreeTopology(nt, skeletonOnly)

\* "<unit>:<parents>" for every unit that has the node; a cluster-wide topology is "default"
GetNodeTopologySpec(nt, units, node) ==
  CASE node \notin DOMAIN nt.info -> <<>>
    [] nt.cfg.topologies # NoMap ->
         LET holding == SelectSeq(units, LAMBDA u : u.kind # "flat" /\ node \in DOMAIN u.parents)
         IN  [i \in DOMAIN holding |-> [unit |-> holding[i].name, path |-> holding[i].parents[node]]]
    [] nt.cfg.plugin = Block ->
         IF nt.info[node].block = Empty THEN <<>>
         ELSE <<[unit |-> Empty, path |-> <<nt.info[node].block>>]>>
    [] OTHER -> <<[unit |-> Empty, path |-> nt.info[node].switches]>>
=============================================================================
