---------------------------- MODULE MCGeneration ----------------------------
(* The requests, clouds and model files of the instance.                   *)
EXTENDS Soundness

T(p, n) == [pre |-> p, num |-> n, width |-> DigitCount(n)]   \* a text with a number
W(p)    == [pre |-> p, num |-> 0, width |-> 0]               \* a word

\* the order of the texts: i-, n, leaf, spine, core, ...
I(n) == T(1, n)
N(n) == T(2, n)
Leaf(n) == T(3, n)
Spine(n) == T(4, n)
Core == W(5)
Nvl(n) == T(6, n)
Rack(n) == T(7, n)
Region(n) == T(8, n)
Zone == W(9)
Part(n) == T(15, n)

mcNoTopology == W(10)
mcSwitchPrefix == 11
mcBlockPrefix == 14
mcDottedPrefix == 20
mcCrusoeRoot == W(30)
mcCpuPod == W(31)
mcCpuPartition == W(32)
mcLocalRegion == W(33)
mcDefaultRegion == W(34)
mcSimClique == W(35)
mcInstanceIDPrefix == 40
mcScopePrefix == 60
mcDisplayPrefix == 70
mcTwinStep == 50

\* n9.example and n9.other are full names of n9
Full(d) == W(50 + d)
mcShortNames == Full(1) :> N(9) @@ Full(2) :> N(9)

NoFmt == [set |-> FALSE, valid |-> TRUE, of |-> NoMap]
NoParams == [plugin |-> "", sizes |-> <<>>, fmt |-> NoFmt, topologies |-> NoMap, path |-> FALSE,
             reconfigure |-> FALSE, valid |-> TRUE, mode |-> "full", dynamic |-> FALSE, label |-> FALSE]

NoProv == [accel |-> "absent", valid |-> TRUE, tiers |-> 3, missing |-> "skip", ready |-> FALSE,
           premises |-> {Region(1)}, seeds |-> {}, excluded |-> {}, generate |-> 202, topology |-> 200]

\* what a request leaves out is as configured
mcConfig == [p |-> "aws", engine |-> "slurm", prov |-> NoProv, params |-> NoParams,
             creds |-> [nil |-> TRUE, keys |-> NoMap]]

AllThere == [project |-> TRUE, principal |-> TRUE, tenancy |-> TRUE, iamToken |-> TRUE, imds |-> TRUE,
             sdk |-> TRUE, baseUrl |-> TRUE, identity |-> TRUE, inCluster |-> TRUE, limits |-> TRUE]
mcEnvs == {AllThere, [AllThere EXCEPT !.limits = FALSE], [k \in DOMAIN AllThere |-> FALSE]}

Keys(ks) == [nil |-> FALSE, keys |-> [k \in ks \X {1} |-> "set"]]
CredsOf(p) ==
  CASE p = "aws"     -> Keys({"accessKeyId", "secretAccessKey"})
    [] p = "oci"     -> Keys(OciKeys)
    [] p = "nebius"  -> Keys(NebiusKeys \cup {"projectId"})
    [] p = "lambdai" -> Keys({"workspaceId", "token"})
    [] p = "nscale"  -> Keys({"org", "token"})
    [] p = "firebird" -> Keys({"clientId", "clientSecret"})
    [] p = "netq"     -> Keys({"username", "password"})
    [] p = "nautobot" -> Keys({"token"})
    [] OTHER         -> [nil |-> TRUE, keys |-> NoMap]

-----------------------------------------------------------------------------
Node(id, layers, region, domain, sub) ==
  [id |-> id, layers |-> layers, labels |-> [region |-> region, zone |-> Zone],
   ann |-> [domain |-> domain, sub |-> sub]]

\* places in the fabric: two leaves of one spine, one of another, none
Places == {<<Leaf(1), Spine(1), Core>>, <<Leaf(2), Spine(1), Core>>, <<Leaf(3), Spine(2), Core>>, <<>>}

\* partial paths: some APIs report less than three tiers
PartialPlaces == Places \cup {<<Core>>, <<Spine(1), Core>>}

\* the clouds over these hosts, all in one region
Clouds(ids, places) ==
  {[i \in ids |-> Node(i, f[i], Region(1), Empty, Empty)] : f \in [ids -> places]}

\* one leaf, every way of putting the hosts into these domains and sub-domains
DomainClouds(ids, domains, subs) ==
  {[i \in ids |-> Node(i, <<Leaf(1), Spine(1), Core>>, Region(1), d[i], s[i])] :
     d \in [ids -> domains], s \in [ids -> subs]}

Named(ids) == [i \in ids |-> [i EXCEPT !.pre = 2, !.width = DigitCount(i.num)]]
Ask(ids, r) == <<[region |-> r, instances |-> Named(ids)]>>

TreeParams == [plugin |-> Tree]
Blocks(sizes) == [plugin |-> Block, sizes |-> sizes]

Pair == {I(9), I(10)}

Base(p) == [method |-> "POST", body |-> "ok", p |-> p, sim |-> FALSE, engine |-> "slurm",
            creds |-> CredsOf(p), trim |-> 0, prov |-> NoMap, twins |-> {}, down |-> {}, nodes |-> Ask(Pair, Region(1)),
            params |-> TreeParams, worlds |-> Clouds(Pair, Places), models |-> {},
            apiErr |-> "none", limit |-> 1, scontrol |-> NoMap, slurm |-> NoMap, kubes |-> {NoKube},
            sources |-> NoMap]

Prov(c, p) == [c EXCEPT !.prov = p @@ @]
Invalid(c) == [c EXCEPT !.params = [valid |-> FALSE] @@ @]

-----------------------------------------------------------------------------
(* Trees.                                                                  *)

Numeric(n) == T(0, n)
TwoRegions == {[i \in Pair \cup {I(11)} |->
                 Node(i, <<Leaf(1), Spine(1), Core>>, IF i = I(9) THEN Region(1) ELSE Region(2), Empty, Empty)]}

\* crusoe's nodes are named by themselves; a node may lack its fabric labels
CrusoeNode(n, k) ==
  IF k = 0 THEN Node(n, <<mcCpuPod, mcCpuPartition, mcCrusoeRoot>>, mcLocalRegion, Empty, Empty)
  ELSE [Node(n, <<Leaf(k), Spine(1), mcCrusoeRoot>>, mcLocalRegion, Nvl(k), Empty)
         EXCEPT !.labels = @ @@ [pod |-> Leaf(k), partition |-> Spine(1)]]
CrusoeClouds == {[n \in {N(9), N(10), N(11)} |-> CrusoeNode(n, f[n])] : f \in [{N(9), N(10), N(11)} -> 0..2]}

TreeCases ==
  [aws      |-> [Base("aws") EXCEPT !.worlds = Clouds(Pair, PartialPlaces)],
   aws_trim |-> [Base("aws") EXCEPT !.worlds = Clouds(Pair, PartialPlaces), !.trim = 1],
   aws_all  |-> [Base("") EXCEPT !.params = NoMap,
                   !.nodes = Ask(Pair \cup {I(12)}, Region(1)),
                   !.worlds = Clouds(Pair \cup {I(11)}, {<<Leaf(1), Spine(1), Core>>})],
   aws_regions |-> [Base("aws") EXCEPT !.worlds = TwoRegions,
                      !.nodes = Ask({I(9), I(10)}, Region(1)) \o Ask({I(11)}, Region(2))],
   oci      |-> [Base("oci") EXCEPT !.worlds = Clouds(Pair \cup {I(11)}, Places)],
   oci_imds |-> [Base("oci-imds") EXCEPT !.nodes = Ask({N(9), N(10)}, Empty),
                   !.worlds = Clouds({N(9), N(10)}, Places)],
   gcp      |-> [Base("gcp") EXCEPT !.nodes = Ask({Numeric(9), Numeric(10)}, Region(1)), !.trim = 1,
                   !.worlds = Clouds({Numeric(9), Numeric(10)}, Places)],
   nebius   |-> [Base("nebius") EXCEPT !.nodes = Ask({I(9), I(12)}, Region(1))],
   lambdai  |-> [Base("lambdai") EXCEPT !.worlds = Clouds(Pair, PartialPlaces)],
   nscale   |-> [Base("nscale") EXCEPT !.trim = 2, !.limit = 2,
                   !.params = [plugin |-> Tree, path |-> TRUE, reconfigure |-> TRUE]],
   crusoe   |-> [Base("crusoe") EXCEPT !.worlds = CrusoeClouds, !.nodes = Ask({N(9), N(10)}, mcLocalRegion)],
   crusoe_many |-> [Base("crusoe") EXCEPT !.worlds = CrusoeClouds,
                      !.nodes = Ask({N(9)}, Region(1)) \o Ask({N(10)}, Region(2))]]

-----------------------------------------------------------------------------
(* Simulations and the test provider: model files over one leaf switch.    *)

Switches == (Core :> [switches |-> <<Spine(1)>>, labels |-> [region |-> Region(1), zone |-> Zone], ann |-> NoMap])
            @@ (Spine(1) :> [switches |-> <<Leaf(1), Leaf(2)>>, labels |-> NoMap, ann |-> NoMap])

Placing(s, ns, domain, sub) ==
  [switch |-> s, nodes |-> Compact(ns), labels |-> NoMap, ann |-> [domain |-> domain, sub |-> sub]]

File(blocks) == [switches |-> Switches, blocks |-> blocks]

\* a host on a leaf, one on the other, one on none
SimFile == File(<<Placing(Leaf(1), <<N(9)>>, Nvl(1), Rack(1)), Placing(Leaf(2), <<N(10)>>, Nvl(2), Empty),
                  [Placing(Empty, <<N(12)>>, Empty, Empty) EXCEPT !.labels = [zone |-> Zone]]>>)
BadFiles == {File(<<Placing(Spine(7), <<N(9)>>, Empty, Empty)>>),
             File(<<Placing(Leaf(1), <<N(9)>>, Empty, Empty), Placing(Leaf(2), <<N(9)>>, Empty, Empty)>>),
             [switches |-> (Core :> [switches |-> <<Spine(1)>>, labels |-> NoMap, ann |-> NoMap])
                           @@ (Spine(1) :> [switches |-> <<Core>>, labels |-> NoMap, ann |-> NoMap]),
              blocks |-> <<Placing(Core, <<N(9)>>, Empty, Empty)>>]}

\* every way of putting these hosts of one leaf into domains and sub-domains, up to
\* their names
DomainFiles(ns, domains, subs) ==
  {File([i \in DOMAIN ns |-> Placing(Leaf(1), <<ns[i]>>, d[i], s[i])]) :
     d \in {f \in [DOMAIN ns -> domains] : f[1] # Nvl(2)},
     s \in {f \in [DOMAIN ns -> subs] : f[1] # Rack(2)}}

OneLevel == DomainFiles(<<N(8), N(9), N(10), N(11), N(12)>>, {Empty, Nvl(1), Nvl(2)}, {Empty})
TwoLevel == DomainFiles(<<N(8), N(9), N(10), N(11)>>, {Nvl(1), Nvl(2)}, {Empty, Rack(1), Rack(2)})

Sim(p) == [Base(p) EXCEPT !.sim = p # "test", !.nodes = <<>>, !.worlds = {}, !.models = {SimFile}]
BlockTest(models, sizes) == [Sim("test") EXCEPT !.models = models, !.params = Blocks(sizes)]

BlockCases ==
  [one_auto |-> BlockTest(OneLevel, <<>>), one_1 |-> BlockTest(OneLevel, <<2>>),
   one_2 |-> BlockTest(OneLevel, <<1, 2>>), one_3 |-> BlockTest(OneLevel, <<1, 2, 4>>),
   two_auto |-> BlockTest(TwoLevel, <<>>), two_1 |-> BlockTest(TwoLevel, <<1>>),
   two_2 |-> BlockTest(TwoLevel, <<1, 2>>), two_3 |-> BlockTest(TwoLevel, <<1, 2, 4>>)]

-----------------------------------------------------------------------------
(* One unit per partition.  blockName formats: the rack of a node.         *)

Sect(plugin, ns) == [plugin |-> plugin, partition |-> Empty, sizes |-> <<>>, fmt |-> NoFmt,
                     nodes |-> Compact(ns), given |-> TRUE, default |-> FALSE, selector |-> Empty]
Asking(plugin, p) == [Sect(plugin, <<>>) EXCEPT !.partition = p, !.given = FALSE]
Everyone == [Asking(Flat, Empty) EXCEPT !.default = TRUE]

Named4 == [n \in {N(8), N(9), N(10), N(11), N(12)} |-> IF n.num < 10 THEN Rack(1) ELSE Rack(2)]
RackNames == [set |-> TRUE, valid |-> TRUE, of |-> [Named4 EXCEPT ![N(11)] = Empty]]

Units(sects) == [topologies |-> sects]
UnitTest(models, sects) ==
  [Sim("test") EXCEPT !.models = models, !.params = Units(sects),
     !.scontrol = (Part(1) :> [found |-> TRUE, nodes |-> Compact(<<N(8), N(10)>>)])
                  @@ (Part(2) :> [found |-> TRUE, nodes |-> <<>>])
                  @@ (Part(3) :> [found |-> FALSE, nodes |-> <<>>])]

UnitFiles == {File([i \in 1..4 |-> Placing(f[i], <<N(7 + i)>>, IF i < 3 THEN Nvl(1) ELSE Nvl(2), Empty)]) :
                f \in [1..4 -> {Leaf(1), Leaf(2), Empty}]}

YamlCases ==
  [units_tree  |-> UnitTest(UnitFiles, Part(1) :> Asking(Tree, Part(1)) @@ Part(2) :> Sect(Tree, <<N(9), N(10), N(12)>>)
                                       @@ Part(3) :> Everyone),
   units_block |-> UnitTest(UnitFiles, Part(1) :> [Sect(Block, <<N(8), N(10), N(11)>>) EXCEPT !.sizes = <<1, 2>>]
                                       @@ Part(2) :> Asking(Block, Part(1))),
   units_fmt   |-> UnitTest(UnitFiles, Part(1) :> [Sect(Block, <<N(9), N(10), N(11)>>) EXCEPT !.fmt = RackNames]),
   units_split |-> UnitTest(TwoLevel, Part(1) :> [Sect(Block, <<N(8), N(9), N(11)>>) EXCEPT !.sizes = <<1, 4>>]),
   units_none  |-> UnitTest({SimFile}, Part(1) :> Asking(Tree, Part(2))),
   units_lost  |-> UnitTest({SimFile}, Part(1) :> Asking(Tree, Part(3))),
   units_sizes |-> UnitTest({SimFile}, Part(1) :> [Sect(Block, <<N(9)>>) EXCEPT !.sizes = <<2, 3>>]),
   units_big   |-> UnitTest({SimFile}, Part(1) :> [Sect(Tree, <<>>) EXCEPT !.nodes =
                      <<[pre |-> 2, parts |-> <<[lo |-> 1, hi |-> 9, width |-> 1]>>]>>]),
   fmt_blocks  |-> [Sim("test") EXCEPT !.models = OneLevel,
                      !.params = [plugin |-> Block, sizes |-> <<1, 2>>, fmt |-> RackNames]],
   both        |-> [Sim("test") EXCEPT !.params = [plugin |-> Tree, topologies |-> Part(1) :> Everyone]]]

-----------------------------------------------------------------------------
(* Simulated APIs, documents, discovered nodes, failures.                  *)

GcpFile == File(<<[Placing(Leaf(1), <<Numeric(9)>>, Empty, Empty) EXCEPT !.nodes = Compact(<<Numeric(9)>>)],
                  Placing(Leaf(2), <<Numeric(10)>>, Empty, Empty), Placing(Empty, <<Numeric(11)>>, Empty, Empty)>>)
CrusoeSwitch(kids) == [switches |-> kids, labels |-> NoMap, ann |-> NoMap]
CrusoeFile ==
  [switches |-> mcCrusoeRoot :> CrusoeSwitch(<<Spine(1), mcCpuPartition>>) @@ Spine(1) :> CrusoeSwitch(<<Leaf(1)>>)
                @@ mcCpuPartition :> CrusoeSwitch(<<mcCpuPod>>),
   blocks |-> <<[Placing(Leaf(1), <<N(9)>>, Nvl(1), Empty) EXCEPT !.labels = [pod |-> Leaf(1), partition |-> Spine(1)]],
                Placing(mcCpuPod, <<N(10)>>, Empty, Empty)>>]
Injected(p, e) == [Sim(p) EXCEPT !.apiErr = e]

SimCases ==
  [aws_sim |-> Sim("aws"), oci_sim |-> Sim("oci"), nebius_sim |-> Sim("nebius"),
   lambdai_sim |-> Sim("lambdai"), nscale_sim |-> Sim("nscale"), dsx_sim |-> Sim("dsx"),
   crusoe_sim |-> [Sim("crusoe") EXCEPT !.models = {CrusoeFile}],
   gcp_sim |-> [Sim("gcp") EXCEPT !.models = {GcpFile}],
   aws_some |-> [Sim("aws") EXCEPT !.nodes = Ask({N(9), N(12), N(20)}, Region(1))],
   nebius_path |-> Injected("nebius", "path"), nebius_meta |-> Injected("nebius", "metadata"),
   oci_get |-> Injected("oci", "get"), nscale_list |-> Injected("nscale", "list"),
   gcp_client |-> Injected("gcp", "client"), dsx_list |-> Injected("dsx", "list"),
   gcp_names |-> Sim("gcp"), no_model |-> [Sim("aws") EXCEPT !.models = {}],
   bad_model |-> [Sim("aws") EXCEPT !.models = BadFiles]]

Document(c) == [c EXCEPT !.engine = "graph", !.params = NoMap]

DocCases ==
  [doc_aws |-> Document([Base("aws") EXCEPT !.worlds = Clouds(Pair, PartialPlaces), !.trim = 1]),
   doc_nscale |-> Document([Base("nscale") EXCEPT !.worlds = DomainClouds(Pair, {Empty, Nvl(1)}, {Empty})]),
   doc_gcp |-> Document([Base("gcp") EXCEPT !.nodes = Ask({Numeric(9), Numeric(10)}, Region(1)),
                            !.worlds = Clouds({Numeric(9), Numeric(10)}, Places)]),
   doc_sim |-> Document(Sim("nscale")), doc_dsx |-> Document(Sim("dsx")),
   doc_some |-> Document([Sim("nebius") EXCEPT !.nodes = Ask({N(9), N(10)}, Region(1)), !.trim = 1]),
   doc_test |-> Document(Sim("test")),
   doc_file |-> [Document(Sim("test")) EXCEPT !.params = [path |-> TRUE]],
   doc_none |-> Document([Base("aws") EXCEPT !.nodes = <<>>])]

\* SLURM's nodes; their instances are looked up
SlurmNodes == N(9) :> I(9) @@ N(10) :> I(10)
Discovered(p) == [Base(p) EXCEPT !.nodes = <<>>, !.slurm = SlurmNodes, !.worlds = Clouds(Pair, {<<Leaf(1), Spine(1), Core>>})]

NodeCases ==
  [slurm_aws |-> Discovered("aws"), slurm_nebius |-> Discovered("nebius"),
   slurm_lambdai |-> Discovered("lambdai"),
   slurm_none |-> [Discovered("nscale") EXCEPT !.slurm = NoMap],
   slurm_crusoe |-> [Discovered("crusoe") EXCEPT !.worlds = CrusoeClouds, !.slurm = N(9) :> N(9) @@ N(10) :> N(10)],
   slurm_imds |-> [Discovered("oci-imds") EXCEPT !.slurm = N(9) :> N(9),
                     !.worlds = Clouds({N(9)}, Places)]]

\* requests and credentials that are refused
Refused(p, keys) == [Base(p) EXCEPT !.creds = [nil |-> FALSE, keys |-> keys]]

RefusedCases ==
  [get |-> [Base("aws") EXCEPT !.method = "GET"], unread |-> [Base("aws") EXCEPT !.body = "unreadable"],
   malformed |-> [Base("aws") EXCEPT !.body = "malformed"], unknown |-> Base("dsx"),
   aws_half |-> Refused("aws", <<"accessKeyId", 1>> :> "set"),
   aws_trim3 |-> [Base("aws") EXCEPT !.trim = 3],
   oci_half |-> Refused("oci", <<"tenancyId", 1>> :> "set"),
   oci_ambient |-> [Base("oci") EXCEPT !.creds = [nil |-> TRUE, keys |-> NoMap], !.worlds = {NoMap}],
   nebius_half |-> Refused("nebius", <<"privateKey", 1>> :> "set"),
   lambdai_blank |-> Refused("lambdai", <<"workspaceId", 1>> :> "set" @@ <<"token", 2>> :> "blank"),
   lambdai_twice |-> Refused("lambdai", <<"workspaceId", 1>> :> "set" @@ <<"workspaceId", 2>> :> "set"),
   nscale_blank |-> Refused("nscale", <<"org", 1>> :> "set" @@ <<"token", 1>> :> "blank"),
   no_region |-> [Base("aws") EXCEPT !.nodes = Ask(Pair, Empty)],
   crusoe_none |-> [Base("crusoe") EXCEPT !.worlds = {NoMap}, !.nodes = <<>>],
   test_params |-> Prov(Sim("test"), [valid |-> FALSE]),
   test_busy |-> Prov(Sim("test"), [generate |-> 503]), test_ok |-> Prov(Sim("test"), [generate |-> 200]),
   test_gone |-> Prov(Sim("test"), [topology |-> 404]), test_later |-> Prov(Sim("test"), [topology |-> 202]),
   test_other |-> Prov(Sim("test"), [topology |-> 300]),
   slurm_bad |-> Invalid(Sim("test")), graph_bad |-> Invalid(Document(Sim("test"))),
   no_domains |-> [Base("nscale") EXCEPT !.params = Blocks(<<>>)]]

-----------------------------------------------------------------------------
(* Slinky.                                                                 *)

K(n) == T(16, n)
Own(n) == [inst |-> I(n), region |-> Region(1)]
KNode(n, label, spec) == [sel |-> TRUE, ann |-> Own(n), labels |-> NoMap, label |-> label, spec |-> spec, own |-> Own(n)]
Pod(n, p) == [node |-> K(n), host |-> N(n), ready |-> TRUE, part |-> Part(p)]
OldConfig == [ver |-> 1, data |-> "other" :> [c |-> "kept"]]
Cluster(label, cm) ==
  [nodes |-> K(9) :> KNode(9, label, <<>>) @@ K(10) :> KNode(10, Nvl(2), <<[unit |-> Empty, path |-> <<Leaf(9)>>]>>),
   pods |-> <<Pod(9, 1), Pod(10, 1)>>, cm |-> cm, exec |-> TRUE, broker |-> NoBroker]
Clusters == {Cluster(Nvl(1), OldConfig), Cluster(Nvl(2), NoConfigMap)}

\* a Node no pod runs on, one that is not selected, pods that are not ready or have no name
Sparse == [Cluster(Nvl(1), OldConfig) EXCEPT
             !.nodes = @ @@ (K(11) :> KNode(11, Nvl(1), <<>>)) @@ (K(12) :> [KNode(12, Nvl(1), <<>>) EXCEPT !.sel = FALSE]),
             !.pods = @ \o <<[Pod(11, 1) EXCEPT !.ready = FALSE], [Pod(11, 1) EXCEPT !.host = Empty], Pod(12, 1)>>]
Unlabelled == [Cluster(Empty, OldConfig) EXCEPT !.nodes[K(10)].label = Empty, !.nodes[K(9)].ann = NoMap]

\* a broker is at work, on a Node that has no annotations yet
Brokered == [Cluster(Nvl(1), OldConfig) EXCEPT !.nodes[K(9)].ann = NoMap, !.broker.at = "get"]

\* the two annotations were exchanged; or the instance is in a label that one Node lacks
Swapped(n, labels) == [KNode(n, Nvl(1), <<>>) EXCEPT !.ann = [inst |-> Region(1), region |-> I(n)], !.labels = labels]
Exchanged == [Cluster(Nvl(1), OldConfig) EXCEPT !.nodes = K(9) :> Swapped(9, "id" :> I(9)) @@ K(10) :> Swapped(10, NoMap)]
Source(type, key) == [type |-> type, key |-> key]

\* one host's place is fixed
SlinkyCase(p, params, kubes) ==
  [Base(p) EXCEPT !.engine = "slinky", !.nodes = <<>>, !.params = params, !.kubes = kubes, !.limit = 2,
                  !.worlds = {w \in Clouds(Pair, Places) : w[I(9)].layers = <<Leaf(1), Spine(1), Core>>}]
OneLeaf == Clouds(Pair, {<<Leaf(1), Spine(1), Core>>})
Dynamic(params) == [dynamic |-> TRUE] @@ params
Mode(m, params) == [mode |-> m] @@ params
Selecting(plugin, p) == [Asking(plugin, Empty) EXCEPT !.selector = p]

SlinkyCases ==
  [slinky_tree  |-> SlinkyCase("aws", Mode("skeleton-only", Dynamic(TreeParams)), Clusters),
   slinky_full  |-> SlinkyCase("nscale", Dynamic(TreeParams), {Cluster(Nvl(1), OldConfig)}),
   slinky_none  |-> SlinkyCase("aws", Mode("none", Dynamic(TreeParams)), {Sparse}),
   slinky_given |-> [SlinkyCase("aws", TreeParams, {Cluster(Nvl(1), OldConfig)}) EXCEPT !.nodes = Ask(Pair, Region(1))],
   slinky_block |-> [SlinkyCase("aws", Mode("skeleton-only", Dynamic([plugin |-> Block, label |-> TRUE])), Clusters \cup {Unlabelled})
                      EXCEPT !.worlds = OneLeaf],
   slinky_label |-> [SlinkyCase("aws", [plugin |-> Block, label |-> TRUE, sizes |-> <<1, 2>>], Clusters)
                      EXCEPT !.nodes = Ask(Pair, Region(1)), !.worlds = OneLeaf],
   slinky_units |-> SlinkyCase("aws", Dynamic([topologies |-> Part(1) :> Selecting(Tree, Part(1)) @@ Part(2) :> Sect(Block, <<N(10)>>)
                                                               @@ Part(3) :> Everyone, label |-> TRUE]), {Cluster(Nvl(1), OldConfig)}),
   slinky_parts |-> [SlinkyCase("aws", [topologies |-> Part(1) :> Selecting(Tree, Part(1)) @@ Part(2) :> Selecting(Tree, Part(2))],
                                {[Cluster(Nvl(1), OldConfig) EXCEPT !.pods[2].part = Part(2)]}) EXCEPT !.worlds = OneLeaf],
   slinky_exec  |-> [SlinkyCase("aws", [topologies |-> Part(1) :> Asking(Tree, Part(1))], {[Sparse EXCEPT !.exec = b] : b \in BOOLEAN})
                      EXCEPT !.worlds = OneLeaf, !.scontrol = Part(1) :> [found |-> TRUE, nodes |-> Compact(<<N(9)>>)]],
   slinky_broker |-> [SlinkyCase("aws", Dynamic(TreeParams), {Brokered}) EXCEPT !.worlds = OneLeaf],
   slinky_exchanged |-> [SlinkyCase("nscale", Dynamic(TreeParams), {Exchanged})
                          EXCEPT !.sources = [inst |-> Source("annotation", "region"), region |-> Source("annotation", "inst")]],
   slinky_source |-> [SlinkyCase("nscale", Dynamic(TreeParams), {Exchanged})
                       EXCEPT !.sources = [inst |-> Source("label", "id"), region |-> Source("annotation", "inst")]],
   slinky_idle  |-> SlinkyCase("aws", Dynamic([topologies |-> Part(1) :> Asking(Tree, Part(1))]), {Sparse}),
   slinky_test  |-> [Sim("test") EXCEPT !.engine = "slinky", !.kubes = {Sparse}, !.params = Dynamic(TreeParams)],
   slinky_bad   |-> SlinkyCase("aws", Mode("partly", TreeParams), {NoKube}),
   slinky_both  |-> SlinkyCase("aws", [topologies |-> Part(1) :> [Sect(Tree, <<N(9)>>) EXCEPT !.selector = Part(1)]], {NoKube})]

-----------------------------------------------------------------------------
(* On premises.  Three nodes are asked for, one of them not there, and one  *)
(* that is there is not.                                                   *)

Trio == {N(9), N(10), N(12)}
Core2 == T(5, 2)
Islands == Places \cup {<<Leaf(4), Spine(3), Core2>>}
Redundant == {Leaf(1), Spine(1), Core}

\* N(11) is next to N(9), or alone on its leaf switch
Neighbours(w) == {w @@ (N(11) :> [w[N(9)] EXCEPT !.id = N(11)]),
                  w @@ (N(11) :> Node(N(11), <<Leaf(5), Spine(1), Core>>, Region(1), Nvl(1), Rack(1)))}
Floor == UNION {Neighbours(w) : w \in Clouds({N(9), N(10)}, Islands)}
Quiet(worlds) == {w \in worlds : w[N(11)].layers = w[N(9)].layers}
Tidy == Quiet(Floor)
Linked == {w \in Tidy : w[N(9)].layers = <<Leaf(1), Spine(1), Core>>}

OnPrem(p) == [Base(p) EXCEPT !.worlds = Tidy, !.nodes = <<[region |-> Region(1), instances |-> [n \in Trio |-> n]]>>]
Accel(c, a) == Prov(c, [accel |-> a])
InRacks == {[i \in {N(9), N(10), N(11)} |-> Node(i, <<Leaf(1), Spine(1), Core>>, Region(1), d[i], Rack(1))] :
              d \in [{N(9), N(10), N(11)} -> {Empty, Nvl(1), Nvl(2)}]}
Mixed == N(9) :> [Node(N(9), <<Leaf(1), Spine(1), Core>>, Region(1), Nvl(1), Rack(1)) EXCEPT !.ann = @ @@ [mixed |-> Nvl(2)]]
         @@ N(10) :> Node(N(10), <<Leaf(1), Spine(1), Core>>, Region(1), Nvl(1), Rack(1))
Hca(w, name) == [w EXCEPT ![N(9)].labels = [hca |-> name] @@ @]
Renamed == UNION {{Hca(w, Full(1)), Hca(w, Full(2)), Hca(w, Empty)} : w \in InRacks}

IbCases ==
  [ib_bm     |-> [OnPrem("infiniband-bm") EXCEPT !.worlds = Floor],
   ib_twins  |-> [OnPrem("infiniband-bm") EXCEPT !.twins = Redundant],
   ib_lost   |-> [OnPrem("infiniband-bm") EXCEPT !.worlds = Linked, !.twins = Redundant, !.down = {{Leaf(2), TwinOf(Spine(1))}}],
   ib_domain |-> [Accel(OnPrem("infiniband-bm"), "nvidia-smi") EXCEPT !.worlds = InRacks \cup {Mixed}, !.params = Blocks(<<>>)],
   ib_doc    |-> Document([Accel(OnPrem("infiniband-bm"), "nvidia-smi") EXCEPT !.worlds = InRacks]),
   ib_k8s    |-> [Accel(OnPrem("infiniband-k8s"), "nvidia-smi") EXCEPT !.worlds = InRacks \cup {Mixed}, !.params = Blocks(<<1, 2>>)],
   ib_label  |-> [Accel(OnPrem("infiniband-k8s"), "kubernetes-label") EXCEPT !.worlds = InRacks, !.params = Blocks(<<>>)],
   ib_names  |-> [OnPrem("infiniband-k8s") EXCEPT !.worlds = Renamed],
   ib_full   |-> [OnPrem("infiniband") EXCEPT !.sim = TRUE, !.worlds = InRacks,
                    !.nodes = <<[region |-> Region(1), instances |-> [n \in {Full(1), N(10)} |-> n]]>>],
   ib_twice  |-> [OnPrem("infiniband") EXCEPT !.sim = TRUE, !.worlds = InRacks,
                    !.nodes = <<[region |-> Region(1), instances |-> [n \in {Full(1), Full(2)} |-> n]]>>],
   ib_sim    |-> [OnPrem("infiniband") EXCEPT !.sim = TRUE, !.nodes = <<>>, !.twins = Redundant, !.worlds = Tidy \cup {NoMap}],
   ib_many   |-> [OnPrem("infiniband-bm") EXCEPT !.nodes = Ask({N(9)}, Region(1)) \o Ask({N(10)}, Region(2))],
   ib_slurm  |-> [OnPrem("infiniband-bm") EXCEPT !.nodes = <<>>, !.slurm = N(9) :> N(9) @@ N(10) :> N(10)],
   ib_bad    |-> Accel(OnPrem("infiniband-bm"), "kubernetes-label"),
   ib_bad_k8s |-> Accel(OnPrem("infiniband-k8s"), "other")]

\* two premises, of which one or both may be seen
ByPlace == {[w EXCEPT ![N(10)].layers = <<Leaf(4), Spine(3), Core2>>, ![N(10)].labels.region = Region(2)] :
              w \in InRacks}

\* a host goes by its ID, name and serial number; two may share one
Alias(w, i, a) == [w EXCEPT ![i].labels = [serial |-> a] @@ @]
Aliased(worlds) == UNION {{Alias(w, N(9), I(9)), Alias(Alias(w, N(9), I(9)), N(10), I(9))} : w \in worlds}
AskAlias == <<[region |-> Region(1), instances |-> (I(9) :> N(9)) @@ (N(10) :> N(10)) @@ (N(12) :> N(12))]>>
Seeds(c, seeds, excluded) == Prov(c, [seeds |-> seeds, excluded |-> excluded])

\* Nodes that are about to go, not ready, or lack the label of a tier
Marked(w) == {w, [w EXCEPT ![N(9)].labels = [deleting |-> Zone] @@ @], [w EXCEPT ![N(9)].labels = [unready |-> Zone] @@ @]}
Labelled == UNION {Marked(w) : w \in Quiet(UNION {Neighbours(w) : w \in Clouds({N(9), N(10)},
                    {<<Leaf(1), Spine(1), Core>>, <<Leaf(1), Spine(2), Core>>, <<Leaf(2), Spine(1), Core>>, <<Leaf(1)>>})})}
Labels(missing, ready) ==
  Prov([OnPrem("k8s-node-labels") EXCEPT !.worlds = Labelled], [missing |-> missing, ready |-> ready, tiers |-> 2])

SiteCases ==
  [netq       |-> [OnPrem("netq") EXCEPT !.twins = Redundant],
   netq_sites |-> Prov([OnPrem("netq") EXCEPT !.worlds = ByPlace], [premises |-> {Region(1), Region(2)}]),
   netq_block |-> [OnPrem("netq") EXCEPT !.worlds = ByPlace, !.params = Blocks(<<>>)],
   netq_none  |-> Prov([OnPrem("netq") EXCEPT !.worlds = ByPlace], [premises |-> {}]),
   netq_creds |-> [OnPrem("netq") EXCEPT !.creds = Keys({"username"})],
   nautobot   |-> Seeds([OnPrem("nautobot") EXCEPT !.twins = Redundant], {Core}, {}),
   nautobot_lost |-> Seeds([OnPrem("nautobot") EXCEPT !.worlds = Linked, !.twins = Redundant,
                              !.down = {{Leaf(2), Spine(1)}}], {Leaf(1)}, {TwinOf(Core)}),
   nautobot_alias |-> Seeds([OnPrem("nautobot") EXCEPT !.worlds = Aliased(Tidy), !.nodes = AskAlias, !.trim = 1], {Leaf(1)}, {}),
   nautobot_doc |-> Seeds(Document([OnPrem("nautobot") EXCEPT !.worlds = Aliased(Linked), !.nodes = AskAlias, !.limit = 2]),
                          {Spine(1)}, {Leaf(2)}),
   nautobot_token |-> [OnPrem("nautobot") EXCEPT !.creds = [nil |-> TRUE, keys |-> NoMap]],
   labels     |-> Labels("skip", FALSE), labels_ready |-> Labels("skip", TRUE), labels_fail |-> Labels("fail", FALSE),
   labels_bad |-> Labels("other", FALSE),
   dra        |-> [OnPrem("dra") EXCEPT !.worlds = InRacks, !.params = Blocks(<<>>)],
   dra_doc    |-> Document([OnPrem("dra") EXCEPT !.worlds = InRacks]),
   dra_tree   |-> [OnPrem("dra") EXCEPT !.worlds = {Mixed}],
   dra_bad    |-> Accel(OnPrem("dra"), "nvidia-smi"),
   firebird   |-> [Base("firebird") EXCEPT !.worlds = Clouds(Pair, PartialPlaces \cup {<<Leaf(1), Empty>>}),
                     !.nodes = Ask({I(9)}, Region(1)) \o Ask({I(10), I(12)}, Region(2))],
   firebird_doc |-> Document([Base("firebird") EXCEPT !.worlds = Clouds(Pair, PartialPlaces), !.trim = 1]),
   firebird_sim |-> Sim("firebird"), firebird_list |-> Injected("firebird", "list"),
   firebird_no_id |-> [Base("firebird") EXCEPT !.nodes = Ask({I(9)}, Region(1)) \o <<[region |-> Region(1), instances |-> Empty :> N(10)]>>],
   firebird_none |-> [Base("firebird") EXCEPT !.nodes = Ask({}, Region(1))]]

mcCases == SiteCases @@ IbCases @@ SlinkyCases @@ TreeCases @@ BlockCases @@ YamlCases @@ SimCases @@ DocCases @@ NodeCases @@ RefusedCases
=============================================================================
