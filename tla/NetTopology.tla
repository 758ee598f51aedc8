---------------------------- MODULE NetTopology -----------------------------
(***************************************************************************)
(* The translation of a graph into a SLURM topology: pkg/translate         *)
(* (topology.go, tree.go, block.go, yaml.go).                              *)
(*                                                                         *)
(* A configuration is [plugin, sizes, fmt, topologies]; topologies maps a  *)
(* topology name to a spec [plugin, sizes, fmt, default, nodes].  fmt is   *)
(* the blockName parameter: [set, valid, of], where of gives the name the  *)
(* regexp and the format make of a node name (Empty: no match or no name). *)
(***************************************************************************)
EXTENDS BlockTree

CONSTANT MaxExpandedNodes \* cluset.maxExpandedNodes

Tree  == "topology/tree"
Block == "topology/block"
Flat  == "topology/flat"

\* Config.Validate for one plugin setting
ValidSpec(graph, plugin, fmt) ==
  /\ fmt.set => plugin = Block /\ fmt.valid
  /\ plugin = Tree => graph.verts # NoMap
  /\ plugin = Block => graph.domains # NoMap

Validate(cfg, graph) ==
  IF cfg.topologies = NoMap
  THEN cfg.plugin \in {Tree, Block} /\ ValidSpec(graph, cfg.plugin, cfg.fmt)
  ELSE /\ cfg.plugin = "" /\ ~cfg.fmt.set
       /\ \A t \in DOMAIN cfg.topologies :
            LET spec == cfg.topologies[t]
            IN  /\ spec.plugin \in {Tree, Block, Flat}
                /\ ValidSpec(graph, spec.plugin, spec.fmt)
                /\ spec.nodes = <<>> => spec.plugin = Flat

-----------------------------------------------------------------------------
(* initTree: breadth first from the root, with the switches above every    *)
(* vertex; an ID that is met twice is an error.                            *)

Kids(verts, v) == LET ks == verts[v].kids IN {ks[i] : i \in DOMAIN ks}

\* one level further down; t is [ok, level, at]
Descend(verts, t) ==
  LET edges == UNION {{<<v, w>> : w \in Kids(verts, v)} : v \in t.level}
      ids   == {verts[e[2]].id : e \in edges}
      above(v) == t.at[verts[v].id].switches \o (IF verts[v].id = Empty THEN <<>> ELSE <<verts[v].id>>)
      parent(w) == CHOOSE v \in t.level : <<v, w>> \in edges
      next  == {e[2] : e \in edges}
      of(i) == CHOOSE w \in next : verts[w].id = i
      found == [i \in ids |-> [ref |-> of(i), switches |-> above(parent(of(i)))]]
  IN  IF Cardinality(edges) # Cardinality(ids) \/ ids \cap DOMAIN t.at # {}
      THEN [t EXCEPT !.ok = FALSE, !.level = {}]
      ELSE [t EXCEPT !.level = next, !.at = found @@ @]

initTree(verts) ==
  IF verts = NoMap THEN [ok |-> TRUE, at |-> NoMap]
  ELSE Repeat(Cardinality(DOMAIN verts), LAMBDA t : Descend(verts, t),
              [ok |-> TRUE, level |-> {RootRef}, at |-> Empty :> [ref |-> RootRef, switches |-> <<>>]])

IsLeaf(verts, v) == verts[v].kids = NoMap

\* leaf vertices in the order of a breadth-first walk with sorted children
LeavesInOrder(verts) ==
  LET kids(v) == LET keys == Sorted(DOMAIN verts[v].kids)
                 IN  [i \in DOMAIN keys |-> verts[v].kids[keys[i]]]
  IN  SelectSeq(BreadthFirst(Cardinality(DOMAIN verts), RootRef, kids), LAMBDA v : IsLeaf(verts, v))

toBlockInfos(domains) ==
  LET order == Sorted(DOMAIN domains)
  IN  [i \in DOMAIN order |->
        [id |-> BlockID(i, 3), name |-> order[i], nodes |-> Sorted(DOMAIN domains[order[i]])]]

\* initBlocks without tier data: blocks in the order of their domains
BlocksByDomain(domains) ==
  LET infos == toBlockInfos(domains)
      last(n) == Max({i \in DOMAIN infos : n \in ToSet(infos[i].nodes)})
      nodes == UNION {ToSet(infos[i].nodes) : i \in DOMAIN infos}
  IN  [blocks |-> infos,
       info   |-> [n \in nodes |-> [id |-> domains[infos[last(n)].name][n].id,
                                    switches |-> <<>>, block |-> infos[last(n)].id,
                                    indx |-> last(n)]]]

\* initBlocks with tier data: a block is brought in by the first of its nodes in the tree
BlocksByTree(verts, domains, info) ==
  LET infos == toBlockInfos(domains)
      last(n)  == Max({0} \cup {i \in DOMAIN infos : n \in ToSet(infos[i].nodes)})
      withID   == [n \in DOMAIN info |->
                    IF last(n) = 0 THEN info[n] ELSE [info[n] EXCEPT !.block = infos[last(n)].id]]
      mark(acc, v) ==
        LET n == verts[v].name
            b == infos[last(n)]
        IN  IF last(n) = 0 \/ acc.info[n].indx # 0 THEN acc
            ELSE [blocks |-> Append(acc.blocks, b),
                  info   |-> [m \in DOMAIN acc.info |->
                               IF m \in ToSet(b.nodes)
                               THEN [acc.info[m] EXCEPT !.indx = Len(acc.blocks) + 1]
                               ELSE acc.info[m]]]
  IN  FoldLeft(mark, [blocks |-> <<>>, info |-> withID], LeavesInOrder(verts))

\* a NetworkTopology: [ok, cfg, verts, domains, at, blocks, info]; info is nodeInfo by node
\* name, its indx the position of the node's block in blocks (0: none)

\* nodeInfo as initTree leaves it
LeafInfo(verts, tree) ==
  LET leaves == {i \in DOMAIN tree.at : IsLeaf(verts, tree.at[i].ref)}
      of(n)  == CHOOSE i \in leaves : verts[tree.at[i].ref].name = n
  IN  [n \in {verts[tree.at[i].ref].name : i \in leaves} |->
        [id |-> of(n), switches |-> tree.at[of(n)].switches, block |-> Empty, indx |-> 0]]

initBlocks(graph, info) ==
  CASE graph.domains = NoMap -> [blocks |-> <<>>, info |-> info]
    [] graph.domains # NoMap /\ graph.verts = NoMap -> BlocksByDomain(graph.domains)
    [] OTHER -> BlocksByTree(graph.verts, graph.domains, info)

NewNetworkTopology(graph, cfg) ==
  LET topology(at, b) == [ok |-> TRUE, cfg |-> cfg, verts |-> graph.verts, domains |-> graph.domains,
                          at |-> at, blocks |-> b.blocks, info |-> b.info]
      filled(tree) == IF ~tree.ok THEN [ok |-> FALSE]
                      ELSE topology(tree.at, initBlocks(graph, LeafInfo(graph.verts, tree)))
  IN  IF ~Validate(cfg, graph) THEN [ok |-> FALSE] ELSE filled(initTree(graph.verts))

\* the map nt.tree: the sorted child IDs of a vertex
TreeOf(nt, id) == Sorted(DOMAIN nt.verts[nt.at[id].ref].kids)
=============================================================================
