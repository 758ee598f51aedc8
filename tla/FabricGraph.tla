---------------------------- MODULE FabricGraph -----------------------------
(***************************************************************************)
(* The cluster topology a provider reports and the graph built from it     *)
(* (pkg/topology/graph.go, domain.go, instances.go).                       *)
(*                                                                         *)
(* A report is what a provider appends for one instance:                   *)
(*   [id, tiers (closest first, Empty: unknown), domain, sub, meta]        *)
(* A vertex is found by its reference [lvl, id]: the switches ToGraph       *)
(* makes are keyed by tier level and ID, so one ID may be two vertices.     *)
(* kids is the Go map from child ID to child.                               *)
(***************************************************************************)
EXTENDS Cluset, TLC

CONSTANTS NoTopology,     \* the ID of the pseudo-switch
          SwitchPrefix    \* prefix of "switch.<level>." for level 1

NoMap == <<>>             \* an empty Go map

RootRef    == [lvl |-> -3, id |-> Empty]
NoTopoRef  == [lvl |-> -2, id |-> NoTopology]
LeafRef(i) == [lvl |-> -1, id |-> i]

Vertex(id, name) == [id |-> id, name |-> name, kids |-> NoMap]

\* v.Vertices[w.ID] = w
Link(verts, v, w) == [verts EXCEPT ![v].kids = (verts[w].id :> w) @@ @]

\* a loop: n passes, from x; n is a bound, a pass after the last one changes nothing
Repeat(n, pass(_), x) ==
  LET after[k \in Nat] == IF k = 0 THEN x ELSE pass(after[k - 1])
  IN  after[n]

\* a breadth-first walk of a tree of n vertices, with its queue; position k is visited in
\* the k-th pass
BreadthFirst(n, root, next(_)) ==
  LET queue[k \in Nat] ==
        LET q == queue[k - 1]
        IN  CASE k = 0 -> <<root>> [] k > 0 /\ k <= Len(q) -> q \o next(q[k]) [] OTHER -> q
  IN  queue[n]

AddHostInfo(domains, h) ==
  IF h.domain = Empty THEN domains
  ELSE LET hosts == IF h.domain \in DOMAIN domains THEN domains[h.domain] ELSE NoMap
       IN  (h.domain :> ((h.name :> h) @@ hosts)) @@ domains

-----------------------------------------------------------------------------
(* Normalize: sort by hierarchy from the top tier down, then name every    *)
(* switch switch.<level>.<n> in the order of appearance.                   *)

TierAt(r, l) == IF l <= Len(r.tiers) THEN r.tiers[l].id ELSE Empty

HierarchyLess(a, b) ==
  LET differ == {l \in 1..Max2(Len(a.tiers), Len(b.tiers)) : TierAt(a, l) # TierAt(b, l)}
  IN  IF differ = {} THEN StrLess(a.id, b.id)
      ELSE LET l == Max(differ) IN StrLess(TierAt(a, l), TierAt(b, l))

Normalize(reports) ==
  LET sorted == SortSeq(reports, HierarchyLess)
      first(l, id) == Min({i \in DOMAIN sorted : TierAt(sorted[i], l) = id})
      count(l, id) == Cardinality({TierAt(sorted[i], l) : i \in 1..first(l, id)} \ {Empty})
      named(l, t)  == IF t.id = Empty THEN t
                      ELSE [t EXCEPT !.name = Padded(SwitchPrefix + l - 1, count(l, t.id), 1)]
  IN  [i \in DOMAIN sorted |->
        [sorted[i] EXCEPT !.tiers = [l \in DOMAIN @ |-> named(l, @[l])]]]

trimmedTiers(r, trim) == SubSeq(r.tiers, 1, Len(r.tiers) - Min({Max2(0, trim), Len(r.tiers)}))

\* mutant: the trimmed tiers are shown
networkLayersUntrimmed(r, trim) ==
  LET kept == SelectSeq(r.tiers, LAMBDA t : t.id # Empty)
  IN  [i \in DOMAIN kept |-> IF kept[i].name # Empty THEN kept[i].name ELSE kept[i].id]

\* display names of the kept tiers, closest first
networkLayers(r, trim) ==
  LET kept == SelectSeq(trimmedTiers(r, trim), LAMBDA t : t.id # Empty)
  IN  [i \in DOMAIN kept |-> IF kept[i].name # Empty THEN kept[i].name ELSE kept[i].id]

\* the metadata record of an instance, with layers and labels filled in
toInstance(r, trim) ==
  LET domain == IF r.meta.domain = Empty THEN r.domain ELSE r.meta.domain
  IN  [layers |-> networkLayers(r, trim), domain |-> domain,
       sub |-> IF domain # Empty /\ r.meta.sub = Empty THEN r.sub ELSE r.meta.sub]

AttachInstances(reports, metas) ==
  [i \in DOMAIN reports |->
    IF reports[i].id \in DOMAIN metas THEN [reports[i] EXCEPT !.meta = metas[reports[i].id]]
    ELSE reports[i]]

-----------------------------------------------------------------------------
(* mergeVertices(dst, src): src and dst are references into one heap.      *)

\* mutant: the branches of a switch both have are not merged
mergeVerticesFlat(verts, dst, src) == [verts EXCEPT ![dst].kids = @ @@ verts[src].kids]

\* the call is entered: m is [verts, todo], todo the children of src still to be merged,
\* in this call and then in the callers
EnterMerge(m, dst, src) ==
  LET ids == Sorted(DOMAIN m.verts[src].kids)
  IN  IF dst = src THEN m
      ELSE [verts |-> IF m.verts[dst].name # Empty THEN m.verts
                      ELSE [m.verts EXCEPT ![dst].name = m.verts[src].name],
            todo  |-> [i \in DOMAIN ids |-> [dst |-> dst, src |-> src, id |-> ids[i]]] \o m.todo]

MergeChild(m) ==
  LET t    == Head(m.todo)
      rest == [m EXCEPT !.todo = Tail(@)]
      kids(v) == m.verts[v].kids
  IN  IF m.todo = <<>> THEN m
      ELSE IF t.id \in DOMAIN kids(t.dst) THEN EnterMerge(rest, kids(t.dst)[t.id], kids(t.src)[t.id])
      ELSE [rest EXCEPT !.verts[t.dst].kids = (t.id :> kids(t.src)[t.id]) @@ @]

\* a tree below src has fewer children than there are vertices; twice as many passes, for
\* switches that are below two others
mergeVertices(verts, dst, src) ==
  LET first == EnterMerge([verts |-> verts, todo |-> <<>>], dst, src)
  IN  Repeat(2 * Cardinality(DOMAIN verts), MergeChild, first).verts

\* one tier of the walk from an instance up: [verts, cur]
ClimbTier(acc, level, tier) ==
  LET sw    == [lvl |-> level, id |-> tier.id]
      verts == IF sw \in DOMAIN acc.verts THEN acc.verts
               ELSE (sw :> Vertex(tier.id, tier.name)) @@ acc.verts
  IN  IF tier.id = Empty THEN acc
      ELSE [verts |-> Link(verts, sw, acc.cur), cur |-> sw]

\* the body of ToGraph's loop over the reports
PlaceInstance(g, r, trim) ==
  LET tiers == trimmedTiers(r, trim)
      leaf  == LeafRef(r.id)
      top   == FoldLeftDomain(LAMBDA acc, l : ClimbTier(acc, l, tiers[l]),
                 [verts |-> (leaf :> Vertex(r.id, g.i2n[r.id])) @@ g.verts, cur |-> leaf], tiers)
      topID == top.verts[top.cur].id
      host  == [domain |-> r.domain, sub |-> r.sub, id |-> r.id, name |-> g.i2n[r.id]]
  IN  IF r.id \notin DOMAIN g.i2n THEN g
      ELSE [verts   |-> IF topID \in DOMAIN g.forest
                        THEN mergeVertices(top.verts, g.forest[topID], top.cur) ELSE top.verts,
            forest  |-> IF topID \in DOMAIN g.forest THEN g.forest
                        ELSE (topID :> top.cur) @@ g.forest,
            i2n     |-> [i \in DOMAIN g.i2n \ {r.id} |-> g.i2n[i]],
            domains |-> AddHostInfo(g.domains, host),
            insts   |-> IF r.meta = NoMap THEN g.insts
                        ELSE (r.id :> toInstance(r, trim)) @@ g.insts]

\* the instances nothing was reported for go below the pseudo-switch, all trees below the
\* root; a graph is [verts, domains, insts], empty domains and insts are nil in the code
Rooted(placed) ==
  LET left    == DOMAIN placed.i2n
      leaves  == [v \in {LeafRef(i) : i \in left} |-> Vertex(v.id, placed.i2n[v.id])]
      none    == [Vertex(NoTopology, Empty) EXCEPT !.kids = [i \in left |-> LeafRef(i)]]
      forest  == IF left = {} THEN placed.forest ELSE (NoTopology :> NoTopoRef) @@ placed.forest
      root    == [Vertex(Empty, Empty) EXCEPT !.kids = forest]
      verts   == (RootRef :> root) @@ placed.verts
  IN  [verts   |-> IF left = {} THEN verts ELSE (NoTopoRef :> none) @@ leaves @@ verts,
       domains |-> placed.domains, insts |-> placed.insts]

ToGraph(reports, i2n, trim, normalize) ==
  Rooted(FoldLeft(LAMBDA g, r : PlaceInstance(g, r, trim),
                  [verts |-> NoMap, forest |-> NoMap, i2n |-> i2n, domains |-> NoMap, insts |-> NoMap],
                  IF normalize THEN Normalize(reports) ELSE reports))
=============================================================================
