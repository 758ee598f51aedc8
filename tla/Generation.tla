----------------------------- MODULE Generation -----------------------------
(***************************************************************************)
(* One topology request from the HTTP payload to the file on disk:         *)
(* pkg/server (readRequest, processTopologyRequest), the cloud providers   *)
(* with their page loops and the on-premises ones, pkg/topology, and the   *)
(* slurm and graph engines.                                                *)
(*                                                                         *)
(* A value of the function Cases is [method, body, p, sim, engine, creds,  *)
(* trim, prov, nodes, params, worlds, twins, down, models, apiErr, limit,  *)
(* sources, scontrol, slurm, kubes]: the payload (method .. params; prov   *)
(* is provider parameters), what the cloud may hold (worlds: each maps an  *)
(* instance ID to its node; twins and down as in Fabric) or the model file *)
(* of a simulation may be (models), the server's page size and node        *)
(* metadata sources, scontrol's answers: partitions, and the nodes with    *)
(* their instance IDs (slurm), and the clusters of SlinkyEngine.           *)
(***************************************************************************)
EXTENDS OnPremProviders, SlurmEngine

CONSTANTS Cases,        \* the requests of the instance, by name
          Config,       \* server configuration: [p, engine, prov, params, creds]
          Envs,         \* what the surroundings of the pod may offer
          MaxRepeats    \* how often a server repeats a page token

VARIABLES case,    \* the request's name in Cases, "none" before it came
          req,     \* the request, completed
          stage,   \* the next step of its processing
          model,   \* the model file of a simulation
          world,   \* what the cloud holds: instance ID to node
          cis,     \* the resolved compute instances
          disc,    \* discovery: [ri, open, listing, from, seen, repeats, reports]
          graph,   \* what the provider returned
          out,     \* what the engine made of it
          disk,    \* the configuration file
          status   \* the answer, 0 while there is none

asked == <<case, req>>
vars == <<asked, stage, model, world, cis, disc, graph, out, disk, status>>

PagedProviders == {"aws", "gcp", "oci", "oci-imds", "nebius", "lambdai", "nscale", "firebird"}
IbProviders == {"infiniband", "infiniband-bm", "infiniband-k8s"}
OnPremProviderNames == IbProviders \cup {"netq", "nautobot", "k8s-node-labels", "dra"}
Providers == PagedProviders \cup OnPremProviderNames \cup {"crusoe", "dsx", "test"}
Engines   == {"slurm", "graph", "slinky"}

Registered(r) == /\ r.p \in Providers /\ r.engine \in Engines
                 /\ r.p \in {"dsx", "infiniband"} => r.sim
                 /\ r.sim => r.p \notin {"oci-imds", "test"} \cup (OnPremProviderNames \ {"infiniband"})

NoDisc == [ri |-> 1, open |-> FALSE, listing |-> <<>>, from |-> 0, seen |-> {}, repeats |-> 0,
           reports |-> <<>>]
Nothing == [code |-> 0]

Init == /\ case = "none" /\ req = Nothing /\ stage = "idle"
        /\ model = NoMap /\ world = NoMap /\ cis = <<>> /\ disc = NoDisc
        /\ graph = Nothing /\ out = Nothing /\ disk = "old" /\ status = 0

Answer(code) == status' = code /\ stage' = "done"

-----------------------------------------------------------------------------
(* pkg/server: the request is read and completed, engine and provider are  *)
(* loaded, the compute instances are resolved.                             *)

\* names from the payload, else from the configuration; parameters key by key
Completed(c) ==
  LET r == [f \in DOMAIN c \ {"worlds", "models", "kubes"} |-> c[f]]
  IN  [r EXCEPT !.p      = IF @ = "" THEN Config.p ELSE @,
                !.engine = IF @ = "" THEN Config.engine ELSE @,
                !.prov   = @ @@ Config.prov,
                !.params = @ @@ Config.params]

Failing == 400..599

\* the test provider is told what to answer: here before the request is queued
HandleTestProviderRequest(r) ==
  IF r.p # "test" \/ (r.prov.valid /\ r.prov.generate = 202) THEN 0
  ELSE IF r.prov.valid /\ r.prov.generate \in Failing THEN r.prov.generate ELSE 400

RequestCode(r) ==
  FirstError(<<IF r.method = "POST" THEN 0 ELSE 405, IF r.body = "unreadable" THEN 500 ELSE 0,
               IF r.body = "malformed" THEN 400 ELSE 0, IF Registered(r) THEN 0 ELSE 400,
               HandleTestProviderRequest(r)>>)

readRequest ==
  /\ stage = "idle"
  /\ \E cases \in {Cases} : \E name \in DOMAIN cases :
       \E r \in {Completed(cases[name])} :
         /\ case' = name /\ req' = r
         /\ IF RequestCode(r) # 0 THEN Answer(RequestCode(r)) ELSE stage' = "engine" /\ UNCHANGED status
  /\ UNCHANGED <<model, world, cis, disc, graph, out, disk>>

\* the graph engine decodes its parameters at once, the slurm engine when it translates
LoadFileEngine ==
  /\ stage = "engine" /\ req.engine # "slinky"
  /\ IF req.engine = "graph" /\ ~req.params.valid THEN Answer(400)
     ELSE stage' = "load" /\ UNCHANGED status
  /\ UNCHANGED <<asked, model, world, cis, disc, graph, out, disk>>

\* ... and here in place of the topology
ToldTo(p, topology) ==
  IF p # "test" \/ topology = 200 THEN 0
  ELSE IF topology \in Failing \cup {202} THEN topology ELSE 400

\* a simulation needs a model file that parses
LoadSimulation ==
  /\ stage = "load" /\ (req.sim \/ req.p = "test") /\ req.p # "infiniband"
  /\ \E told \in {ToldTo(req.p, req.prov.topology)}, models \in {Cases[case].models} :
       CASE told # 0 -> Answer(told) /\ UNCHANGED <<model, world>>
         [] told = 0 /\ models = {} -> Answer(400) /\ UNCHANGED <<model, world>>
         [] OTHER -> \E m \in models :
              IF ~derive(m).ok THEN Answer(400) /\ UNCHANGED <<model, world>>
              ELSE stage' = "resolve" /\ model' = m /\ world' = derive(m).nodes /\ UNCHANGED status
  /\ UNCHANGED <<asked, cis, disc, graph, out, disk>>

cables == Fabric(world, req.twins, req.down).cables

\* infiniband-sim reads an output of ibnetdiscover that must name a host on a switch
LoaderSim(capture) ==
  IF NamedHosts(capture, Fabric(capture, req.twins, req.down).cables) = {} THEN 400 ELSE 0

LoaderStatus(creds, env) ==
  IF req.p \in OnPremProviderNames THEN OnPremLoaderCode(req.p, creds, env, req.prov, req.trim)
  ELSE LoaderCode(req.p, creds, env, req.trim)

Load ==
  /\ stage = "load" /\ req.p # "test" /\ (~req.sim \/ req.p = "infiniband")
  /\ \E env \in Envs, w \in Cases[case].worlds :
       LET code == IF req.sim THEN LoaderSim(w)
                   ELSE LoaderStatus(checkCredentials(req.creds, Config.creds), env)
       IN  IF code # 0 THEN Answer(code) /\ UNCHANGED world
           ELSE stage' = "resolve" /\ world' = w /\ UNCHANGED status
  /\ UNCHANGED <<asked, model, cis, disc, graph, out, disk>>

\* here a node is its own instance
SelfNaming == {"crusoe", "infiniband-bm", "netq", "nautobot"}

\* the instances of SLURM's nodes, asked of every node with pdsh; a node whose metadata
\* service is down prints an empty line (aws, gcp, oci) or nothing
NodeInstances(dead) ==
  LET nodes   == Sorted(DOMAIN req.slurm)
      blank   == req.p \in {"aws", "gcp", "oci", "oci-imds"}
      heard   == SelectSeq(nodes, LAMBDA n : blank \/ n \notin dead)
      attr(n, a) == IF n \in dead THEN Empty ELSE a
      region(n) == Lookup(world[req.slurm[n]].labels, "region")
      ids     == [i \in DOMAIN heard |->
                   <<heard[i], IF req.p = "oci-imds" THEN heard[i] ELSE attr(heard[i], req.slurm[heard[i]])>>]
      regions == [i \in DOMAIN heard |-> <<heard[i], attr(heard[i], region(heard[i]))>>]
  IN  IF req.p \in SelfNaming THEN {SelfNamedInstances(DOMAIN req.slurm, LocalRegion)}
      ELSE GroupByRegion(ParsePdshOutput(ids, FALSE), ParsePdshOutput(regions, TRUE))

\* GetNodeInstances is there for these
IsInstanceMapper(p) == p \notin {"lambdai", "dsx", "test", "firebird", "infiniband-k8s", "k8s-node-labels", "dra"}

ProviderInstances ==
  IF req.p = "test" THEN <<[region |-> Empty, instances |->
                            [i \in {InstanceID(n) : n \in DOMAIN world} |->
                              CHOOSE n \in DOMAIN world : InstanceID(n) = i]]>>
  ELSE IF req.p = "infiniband" THEN SelfNamedInstances(NamedHosts(world, cables), LocalRegion)
  ELSE setInstances(world)

Resolved(c) == cis' = c /\ stage' = "connect" /\ UNCHANGED status

resolveComputeInstances ==
  /\ stage = "resolve" /\ req.engine # "slinky"
  /\ CASE req.nodes # <<>> -> Resolved(req.nodes)
       [] req.nodes = <<>> /\ (req.sim \/ req.p = "test") -> Resolved(ProviderInstances)
       [] OTHER -> \/ /\ req.engine = "graph" \/ ~IsInstanceMapper(req.p)
                      /\ Answer(400) /\ UNCHANGED cis
                   \/ /\ req.engine = "slurm" /\ IsInstanceMapper(req.p)
                      /\ \/ Answer(500) /\ UNCHANGED cis    \* scontrol or pdsh fails
                         \/ \E dead \in {{}} \cup {{n} : n \in DOMAIN req.slurm} :
                              \E c \in NodeInstances(dead) : Resolved(c)
  /\ UNCHANGED <<asked, model, world, disc, graph, out, disk>>

-----------------------------------------------------------------------------
(* The providers' page loops.                                              *)

Paged  == req.p \in PagedProviders
paging == PagingOf(req.p, req.sim)

ClientFails == IF req.sim THEN {req.apiErr = "client"} ELSE BOOLEAN

\* these make their client before the loop over the regions; crusoe and infiniband take
\* one region only
Connect ==
  /\ stage = "connect"
  /\ CASE req.p = "dsx" \/ (Paged /\ paging.client = "once") ->
            \E fails \in ClientFails :
              IF fails THEN Answer(502) ELSE stage' = "discover" /\ UNCHANGED status
       [] req.p \in {"crusoe"} \cup IbProviders /\ Len(cis) > 1 -> Answer(400)
       [] OTHER -> stage' = "discover" /\ UNCHANGED status
  /\ UNCHANGED <<asked, model, world, cis, disc, graph, out, disk>>

Requested == FoldLeft(LAMBDA m, ci : ci.instances @@ m, NoMap, cis)

\* the listings, and the hosts one of them is searched for
Listings == IF paging.whole THEN (IF Requested = NoMap THEN 0 ELSE 1) ELSE Len(cis)
Wanted == IF paging.whole THEN DOMAIN Requested ELSE DOMAIN cis[disc.ri].instances

\* what the server has to list for a region; a simulation lists its whole model
RegionHosts ==
  LET inRegion(i) == \/ req.sim \/ ~paging.local
                     \/ Lookup(world[i].labels, "region") = cis[disc.ri].region
  IN  Listed(req.p, Wanted, {i \in DOMAIN world : inRegion(i)})

Hosts(order) ==
  [i \in DOMAIN order |-> Wire(req.p, world[order[i]], req.apiErr)]

\* refused before the first call
BadListing == (paging.region /\ cis[disc.ri].region = Empty) \/ (paging.whole /\ Empty \in Wanted)

startRegion ==
  /\ stage = "discover" /\ Paged /\ ~disc.open /\ disc.ri <= Listings
  /\ IF BadListing
     THEN Answer(400) /\ UNCHANGED disc
     ELSE IF req.sim /\ SimFails(req.p, {world[i] : i \in RegionHosts}, Wanted, req.apiErr)
     THEN Answer(502) /\ UNCHANGED disc
     ELSE /\ \E order \in SetToSeqs(RegionHosts) :
               disc' = [disc EXCEPT !.open = TRUE, !.listing = Hosts(order), !.from = 0, !.seen = {}]
          /\ UNCHANGED <<stage, status>>
  /\ UNCHANGED <<asked, model, world, cis, graph, out, disk>>

Page == IF paging.next = "single" THEN disc.listing
        ELSE SubSeq(disc.listing, disc.from + 1, Min({disc.from + req.limit, Len(disc.listing)}))

\* mutant: the loop waits for more hosts than there are
LastPageMissed == IF paging.next = "offset" THEN Page = <<>> ELSE disc.from + Len(Page) > Len(disc.listing)

LastPage == IF paging.next = "offset" THEN Page = <<>> ELSE disc.from + Len(Page) >= Len(disc.listing)

Received == disc.reports \o PageReports(req.p, Wanted, paging.filters, Page)

FetchPage ==
  /\ stage = "discover" /\ Paged /\ disc.open
  /\ LET next == disc.from + Len(Page)
     IN  IF BadPage(req.p, Wanted, Page) THEN Answer(502) /\ UNCHANGED disc
         ELSE /\ disc' = IF LastPage
                         THEN [disc EXCEPT !.reports = Received, !.open = FALSE, !.ri = @ + 1]
                         ELSE [disc EXCEPT !.reports = Received, !.from = next, !.seen = @ \cup {next}]
              /\ UNCHANGED <<stage, status>>
  /\ UNCHANGED <<asked, model, world, cis, graph, out, disk>>

\* the server's next token is the one it was given: OCI and firebird notice, the
\* others ask again
RepeatedToken ==
  /\ stage = "discover" /\ Paged /\ disc.open /\ ~req.sim /\ paging.next = "token"
  /\ disc.from # 0 /\ (paging.checked \/ disc.repeats < MaxRepeats)
  /\ IF paging.checked /\ disc.from \in disc.seen
     THEN Answer(502) /\ UNCHANGED disc
     ELSE /\ disc' = [disc EXCEPT !.reports = Received, !.repeats = @ + 1]
          /\ UNCHANGED <<stage, status>>
  /\ UNCHANGED <<asked, model, world, cis, graph, out, disk>>

\* a call of a real API fails, or its answer is refused: the client of a region, its pages,
\* a host's details; pdsh; a login; devices that Nautobot repeats, leaves out or makes up
ApiFails ==
  /\ stage = "discover" /\ ~req.sim /\ req.p # "test"
  /\ Paged => disc.ri <= Listings /\ ~BadListing
  /\ \E code \in CASE Paged -> paging.errors
                     [] req.p = "infiniband-bm" -> {500}
                     [] req.p = "infiniband-k8s" -> {500, 502}
                     [] req.p = "netq" -> {401, 502}
                     [] OTHER -> {502} : Answer(code)
  /\ UNCHANGED <<asked, model, world, cis, disc, graph, out, disk>>

-----------------------------------------------------------------------------
(* The graph.                                                              *)

Graph(reports) ==
  LET attached == IF req.sim THEN AttachInstances(reports, InstanceMap(world)) ELSE reports
  IN  ToGraph(attached, Requested, req.trim, req.p \in {"oci", "oci-imds"})

Built(g) == graph' = g /\ stage' = "translate" /\ UNCHANGED status

FinishDiscovery ==
  /\ stage = "discover" /\ Paged /\ ~disc.open /\ disc.ri > Listings
  /\ Built(Graph(disc.reports))
  /\ UNCHANGED <<asked, model, world, cis, disc, out, disk>>

\* crusoe lists the cluster's nodes; an empty request means all of them
DiscoverCluster ==
  /\ stage = "discover" /\ req.p = "crusoe"
  /\ LET nodes  == requestedNodeIDs(cis, DOMAIN world)
         orders == IF req.sim THEN {Sorted(nodes)} ELSE SetToSeqs(nodes)
     IN  \E o \in orders :
           LET reports == PageReports("crusoe", nodes, FALSE, [i \in DOMAIN o |-> simNodeLabels(world[o[i]])])
           IN  IF reports = <<>> THEN Answer(404) /\ UNCHANGED graph ELSE Built(Graph(reports))
  /\ UNCHANGED <<asked, model, world, cis, disc, out, disk>>

\* dsx and the test provider read the model at once
DiscoverModel ==
  /\ stage = "discover" /\ req.p \in {"dsx", "test"}
  /\ \/ req.p = "dsx" /\ req.apiErr = "list" /\ Answer(502) /\ UNCHANGED graph
     \/ /\ req.p = "dsx" /\ req.apiErr # "list"
        /\ \E r \in dsxReports(GetTopology(derive(model), DOMAIN Requested)) : Built(Graph(r))
     \/ req.p = "test" /\ Built(ModelGraph(derive(model), DOMAIN Requested))
  /\ UNCHANGED <<asked, model, world, cis, disc, out, disk>>

-----------------------------------------------------------------------------
(* The on-premises providers.                                              *)

Names == {Requested[i] : i \in DOMAIN Requested}

IbDomains(answering) ==
  CASE req.p = "infiniband"    -> [ok |-> TRUE, domains |-> NoMap]
    [] req.p = "infiniband-bm" -> CommandDomains(req.prov.accel, world, Requested, answering)
    [] OTHER -> [ok |-> TRUE, domains |-> DiscoverKubernetesDomains(ParseConfig(req.prov.accel), world,
                                                                    TargetsFromKubernetesNodes(world, cis))]

IbTree(links, order, answering) ==
  IF req.sim THEN IbConfig(world, links, UNION links, Names).tree
  ELSE getIbTree(world, links, Names, order, answering)

\* the nodes are asked in any order, and some of them do not answer
DiscoverIb ==
  /\ stage = "discover" /\ req.p \in IbProviders
  /\ \E links \in {cables}, order \in SetToSeqs(Names),
        answering \in IF req.sim THEN {Names} ELSE SUBSET (Names \cap DOMAIN world) :
       \E d \in {IbDomains(answering)}, tree \in {IbTree(links, order, answering)} :
         IF ~d.ok THEN Answer(500) /\ UNCHANGED <<disc, graph>>
         ELSE /\ Built(TreeGraph(tree, [n \in Names |-> n], d.domains))
              /\ disc' = [disc EXCEPT !.seen = answering]
  /\ UNCHANGED <<asked, model, world, cis, out, disk>>

\* the hosts of a premises that shows its configuration key
Premises(region) == [h \in {i \in DOMAIN world : Lookup(world[i].labels, "region") = region} |-> world[h]]

NetqTree ==
  FoldLeft(LAMBDA acc, r : LET w == Premises(r)
                               t == parseNetq(w, Fabric(w, req.twins, req.down), Names)
                           IN  [kids |-> t.kids @@ acc.kids, top |-> acc.top \cup t.top],
           [kids |-> NoMap, top |-> {}], Sorted(req.prov.premises))

\* the domains are left out when NMX does not answer
DiscoverNetq ==
  /\ stage = "discover" /\ req.p = "netq"
  /\ \E tree \in {NetqTree}, domains \in {parseComputeNodes(world), NoMap} :
       IF tree.top = {} THEN Answer(502) /\ UNCHANGED graph
       ELSE Built(TreeGraph(tree, NetqNames(world, tree), domains))
  /\ UNCHANGED <<asked, model, world, cis, disc, out, disk>>

DiscoverLabels ==
  /\ stage = "discover" /\ req.p = "k8s-node-labels"
  /\ \E order \in SetToSeqs(DOMAIN world) :
       \E found \in {LabelReports(world, req.prov, Requested, order)} :
         LET eligible == {found.reports[k].id : k \in DOMAIN found.reports}
         IN  CASE found.fail -> Answer(400) /\ UNCHANGED graph
               [] ~found.fail /\ Requested # NoMap /\ eligible = {} -> Answer(503) /\ UNCHANGED graph
               [] OTHER -> Built(ToGraph(found.reports, [i \in eligible |-> Requested[i]], 0, FALSE))
  /\ UNCHANGED <<asked, model, world, cis, disc, out, disk>>

DiscoverDra ==
  /\ stage = "discover" /\ req.p = "dra"
  /\ \E domains \in {DiscoverKubernetesDomains("kubernetes-label", world, TargetsFromKubernetesNodes(world, cis))} :
       IF domains = NoMap THEN Answer(502) /\ UNCHANGED graph
       ELSE Built([verts |-> NoMap, domains |-> domains, insts |-> NoMap])
  /\ UNCHANGED <<asked, model, world, cis, disc, out, disk>>

\* switches that Nautobot would list: not of an excluded status
Usable == (UNION cables \ DOMAIN world) \ req.prov.excluded

\* disc.seen holds the switches found; the first listing selects by location, then the
\* switches connected to those found are asked for in batches
DiscoverSeeds ==
  /\ stage = "discover" /\ req.p = "nautobot" /\ ~disc.open
  /\ \E seeds \in {req.prov.seeds \cap Usable} :
       disc' = [disc EXCEPT !.open = TRUE, !.seen = seeds,
                            !.listing = Frontier(cables, seeds, seeds, Usable)]
  /\ UNCHANGED <<asked, stage, model, world, cis, graph, out, disk, status>>

DiscoverBatch ==
  /\ stage = "discover" /\ req.p = "nautobot" /\ disc.listing # <<>>
  /\ LET batch == ToSet(SubSeq(disc.listing, 1, Min({req.limit, Len(disc.listing)})))
         found == disc.seen \cup batch
         left  == ToSet(disc.listing) \ batch
     IN  disc' = [disc EXCEPT !.seen = found,
                              !.listing = Sorted(left \cup ToSet(Frontier(cables, found, batch, Usable)))]
  /\ UNCHANGED <<asked, stage, model, world, cis, graph, out, disk, status>>

BuildTopology ==
  /\ stage = "discover" /\ req.p = "nautobot" /\ disc.open /\ disc.listing = <<>>
  /\ \E order \in SetToSeqs(DOMAIN Requested) :
       Built(ToGraph(NautobotReports(world, cables, disc.seen, order), Requested, req.trim, FALSE))
  /\ UNCHANGED <<asked, model, world, cis, disc, out, disk>>

-----------------------------------------------------------------------------
(* The engines.                                                            *)

Deliver == IF req.params.path THEN stage' = "write" /\ UNCHANGED status ELSE Answer(200)

Translate ==
  /\ stage = "translate" /\ req.engine = "slurm"
  /\ IF ~req.params.valid THEN Answer(400) /\ UNCHANGED out
     ELSE \E scontrol \in {req.scontrol, NoMap} :
            \E t \in Translated(graph, WithDefaultPlugin(req.params), scontrol, FALSE) :
              IF t.code # 0 THEN Answer(t.code) /\ UNCHANGED out ELSE out' = t /\ Deliver
  /\ UNCHANGED <<asked, model, world, cis, disc, graph, disk>>

MakeDocument ==
  /\ stage = "translate" /\ req.engine = "graph"
  /\ out' = [code |-> 0, doc |-> graphInstances(graph, requestedKeys(cis))]
  /\ Deliver
  /\ UNCHANGED <<asked, model, world, cis, disc, graph, disk>>

\* files.Create truncates the file before it writes
WriteFile ==
  /\ stage = "write"
  /\ \/ Answer(500) /\ UNCHANGED disk
     \/ Answer(500) /\ disk' = "truncated"
     \/ /\ disk' = "new"
        /\ IF req.engine = "slurm" /\ req.params.reconfigure
           THEN stage' = "reconfigure" /\ UNCHANGED status ELSE Answer(200)
  /\ UNCHANGED <<asked, model, world, cis, disc, graph, out>>

Reconfigure ==
  /\ stage = "reconfigure"
  /\ \E code \in {200, 500} : Answer(code)
  /\ UNCHANGED <<asked, model, world, cis, disc, graph, out, disk>>

Done == stage = "done" /\ UNCHANGED vars

Process == \/ LoadFileEngine \/ LoadSimulation \/ Load \/ resolveComputeInstances \/ Connect
           \/ startRegion \/ FetchPage \/ RepeatedToken \/ ApiFails
           \/ FinishDiscovery \/ DiscoverCluster \/ DiscoverModel
           \/ DiscoverIb \/ DiscoverNetq \/ DiscoverLabels \/ DiscoverDra
           \/ DiscoverSeeds \/ DiscoverBatch \/ BuildTopology
           \/ Translate \/ MakeDocument \/ WriteFile \/ Reconfigure \/ Done

Next == readRequest \/ Process

Spec == Init /\ [][Next]_vars /\ WF_vars(startRegion \/ FetchPage)

-----------------------------------------------------------------------------
Listing == stage = "discover" /\ Paged /\ disc.ri <= Listings

\* The page loops end (generateRegionInstanceTopology and its counterparts): whatever the
\* length of the listings and of the pages, discovery gets past the last region.  A server
\* may repeat its page token as often as it likes to OCI and firebird, who notice, and
\* finitely often to the others.
ListingsEnd == Listing ~> ~Listing
=============================================================================
