----------------------------- MODULE BlockTree ------------------------------
(***************************************************************************)
(* From accelerator domains to SLURM base blocks: pkg/topology/domain.go,  *)
(* pkg/translate/block_tree.go, block_complement.go and the sizes and      *)
(* names of blocks in block.go and topology.go.                            *)
(*                                                                         *)
(* A base block is the sequence of its hosts; the slots beyond these are   *)
(* empty.  The name that extractDomainID makes of its ID is left out: it   *)
(* is written to a comment of topology.conf only.  Aggregates are only     *)
(* ever flattened into the base blocks below them, in order, so an         *)
(* aggregate is the sequence of these, and its nodeCount the length of the *)
(* sequence times the base block size.  A blockInfo is [id, nodes], and,   *)
(* before complementBlocks, name, its accelerator domain.                  *)
(***************************************************************************)
EXTENDS FabricGraph

CONSTANT BlockPrefix      \* prefix of "block<n>"

\* smallest base * 2^k that is not below n
aggregateSlotCapacity(n, base) == base * 2 ^ Min({k \in 0..Max2(0, n) : base * 2 ^ k >= n})

CeilDiv(a, b) == (a + b - 1) \div b

blockTreeGCD(a, b) ==
  IF a = 0 THEN b ELSE Max({d \in 1..a : a % d = 0 /\ b % d = 0})

SubDomainsOf(hosts) == {hosts[n].sub : n \in DOMAIN hosts}
InSubDomain(hosts, s) == {n \in DOMAIN hosts : hosts[n].sub = s}

InferTwoLevelBlockSizes(domains) ==
  LET subSizes == UNION {{Cardinality(InSubDomain(domains[d], s)) :
                            s \in SubDomainsOf(domains[d]) \ {Empty}} : d \in DOMAIN domains}
      maxSub == Max(subSizes)
      agg    == aggregateSlotCapacity(Max({Cardinality(DOMAIN domains[d]) : d \in DOMAIN domains}),
                                      maxSub)
  IN  IF subSizes = {} THEN <<>>
      ELSE IF agg = maxSub THEN <<maxSub>> ELSE <<maxSub, agg>>

\* GetDomainTree for one domain: subs is NoMap when the hosts hang off the domain itself;
\* a host without a sub-domain goes to one named after the domain
DomainVertex(d, hosts) ==
  LET two    == SubDomainsOf(hosts) # {Empty}
      key(n) == IF hosts[n].sub = Empty THEN d ELSE hosts[n].sub
      subs   == [g \in {key(n) : n \in DOMAIN hosts} |-> {n \in DOMAIN hosts : key(n) = g}]
  IN  [hosts |-> DOMAIN hosts, subs |-> IF two THEN subs ELSE NoMap]

GetDomainTree(domains) == [d \in DOMAIN domains |-> DomainVertex(d, domains[d])]

-----------------------------------------------------------------------------
EmptyBlocks(n) == [i \in 1..n |-> <<>>]

PadBlocks(blocks, n) == blocks \o EmptyBlocks(n - Len(blocks))

\* mutant: a last block that is not full is lost
splitIntoFullBlocks(hosts, base) ==
  [k \in 1..(Len(hosts) \div base) |-> SubSeq(hosts, (k - 1) * base + 1, k * base)]

splitIntoBaseBlocks(hosts, base) ==
  [k \in 1..CeilDiv(Len(hosts), base) |->
    SubSeq(hosts, (k - 1) * base + 1, Min({k * base, Len(hosts)}))]

packHostsIntoAggregate(hosts, num, base) ==
  PadBlocks(splitIntoBaseBlocks(Sorted(hosts), base), num)

\* mutant: a domain's slot is as large as the domain itself
toOwnSizeAggregate(v, maxSibling, sizes) ==
  packHostsIntoAggregate(v.hosts,
                         Max2(aggregateSlotCapacity(Cardinality(v.hosts), sizes[1]) \div sizes[1], 1), sizes[1])

toSingleLevelDomainAggregate(v, maxSibling, sizes) ==
  LET base == sizes[1]
      num  == IF Len(sizes) = 1 THEN CeilDiv(Cardinality(v.hosts), base)
              ELSE aggregateSlotCapacity(maxSibling, base) \div base
  IN  packHostsIntoAggregate(v.hosts, Max2(num, 1), base)

\* strategy 1 of toDomainAggregate
LeafAggregate(hosts, maxSibling, sizes) ==
  LET base == sizes[1]
      num  == IF Last(sizes) < maxSibling THEN CeilDiv(Cardinality(hosts), base)
              ELSE aggregateSlotCapacity(maxSibling, base) \div base
  IN  packHostsIntoAggregate(hosts, Max2(num, 1), base)

\* the slot a domain ends on when its sub-domains need more than num blocks
AlignedBlocks(actual, num, sizes) ==
  LET base  == sizes[1]
      fits  == {k \in 2..Len(sizes) : sizes[k] >= actual * base}
      align == IF fits = {} THEN actual * base ELSE sizes[Min(fits)]
      width == aggregateSlotCapacity(align, base) \div base
  IN  IF actual > num /\ Len(sizes) >= 2 THEN CeilDiv(actual, width) * width ELSE num

recurseChildrenIntoAggregate(v, num, sizes) ==
  LET childMax == Max({Cardinality(v.subs[s]) : s \in DOMAIN v.subs})
      order    == Sorted(DOMAIN v.subs)
      padded(blocks) == PadBlocks(blocks, AlignedBlocks(Len(blocks), num, sizes))
  IN  padded(FlattenSeq([i \in DOMAIN order |->
                           LeafAggregate(v.subs[order[i]], childMax, sizes)]))

toDomainAggregate(v, maxSibling, sizes) ==
  LET slot == aggregateSlotCapacity(Min({Last(sizes), maxSibling}), sizes[1])
  IN  IF v.subs = NoMap THEN LeafAggregate(v.hosts, maxSibling, sizes)
      ELSE recurseChildrenIntoAggregate(v, Max2(slot \div sizes[1], 1), sizes)

\* the sequence of the domains' aggregates, padded to a multiple of the last block size
PadRoot(aggs, base, last) ==
  LET count  == base * Len(FlattenSeq(aggs))
      child  == FoldLeft(LAMBDA c, a : blockTreeGCD(c, base * Len(a)), 0, aggs)
      step   == (child \div blockTreeGCD(child, last)) * last
      target == CeilDiv(count, step) * step
  IN  IF count % last = 0 THEN aggs
      ELSE aggs \o [i \in 1..((target - count) \div child) |-> EmptyBlocks(child \div base)]

toRootAggregate(tree, sizes) ==
  LET maxChild == Max({Cardinality(tree[d].hosts) : d \in DOMAIN tree})
      single   == \A d \in DOMAIN tree : tree[d].subs = NoMap
      order    == Sorted(DOMAIN tree)
  IN  PadRoot([i \in DOMAIN order |->
                 IF single THEN toSingleLevelDomainAggregate(tree[order[i]], maxChild, sizes)
                 ELSE toDomainAggregate(tree[order[i]], maxChild, sizes)],
              sizes[1], Last(sizes))

buildBlockTree(domains, sizes) == toRootAggregate(GetDomainTree(domains), sizes)

-----------------------------------------------------------------------------
BlockID(n, w) == Padded(BlockPrefix, n, w)

\* every host of the domain map has a name, so the leaves' domains are not looked up
baseBlockToBlockInfo(bb, seq) == [id |-> BlockID(seq, 3), nodes |-> bb]

\* the hosts of each block's domain that the block itself holds
domainsForBlocks(all, blocks) ==
  LET named == {i \in DOMAIN blocks : blocks[i].name \in DOMAIN all}
      owned(i) == ToSet(blocks[i].nodes) \cap DOMAIN all[blocks[i].name]
      used  == {i \in named : owned(i) # {}}
      of(d) == CHOOSE i \in used : blocks[i].name = d
  IN  [d \in {blocks[i].name : i \in used} |-> [n \in owned(of(d)) |-> all[d][n]]]

BlocksOf(slots) == [i \in DOMAIN slots |-> baseBlockToBlockInfo(slots[i], i)]

SizesFor(domains, requested) ==
  IF requested # <<>> \/ domains = NoMap THEN requested ELSE InferTwoLevelBlockSizes(domains)

Rebuilt(blocks, domains, sizes) ==
  [sizes  |-> sizes,
   blocks |-> IF domains = NoMap \/ sizes = <<>> \/ sizes[1] <= 0 THEN blocks
              ELSE BlocksOf(FlattenSeq(buildBlockTree(domains, sizes)))]

complementBlocks(all, blocks, requested) ==
  LET domains == domainsForBlocks(all, blocks)
  IN  Rebuilt(blocks, domains, SizesFor(domains, requested))

anyBlockHasNodes(blocks) == \E i \in DOMAIN blocks : blocks[i].nodes # <<>>

\* <<D, 2D, 4D, ...>> unless sizes were asked for
getBlockSizes(blocks, requested) ==
  LET D == Min({Len(blocks[i].nodes) : i \in DOMAIN blocks})
      k == Max({j \in 0..Len(blocks) : 2 ^ j <= Len(blocks)})
  IN  IF requested # <<>> THEN requested ELSE [i \in 1..(k + 1) |-> 2 ^ (i - 1) * D]

\* the name the nodes of a block agree on; Empty: no match, no name or no agreement
formatBlockName(fmt, block) ==
  LET names == {fmt.of[n] : n \in ToSet(block.nodes)}
  IN  IF ~fmt.set \/ block.nodes = <<>> THEN block.id
      ELSE IF Cardinality(names) = 1 THEN CHOOSE x \in names : TRUE ELSE Empty

\* blocks renamed; the ones without a name are dropped, two of one name are an error
formatBlockNames(blocks, fmt) ==
  LET renamed == [i \in DOMAIN blocks |-> [blocks[i] EXCEPT !.id = formatBlockName(fmt, blocks[i])]]
      kept    == SelectSeq(renamed, LAMBDA b : b.id # Empty)
  IN  [kept |-> kept, dropped |-> SelectSeq(renamed, LAMBDA b : b.id = Empty),
       ok   |-> \A i, j \in DOMAIN kept : kept[i].id = kept[j].id => i = j]
=============================================================================
