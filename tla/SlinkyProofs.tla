---------------------------- MODULE SlinkyProofs ----------------------------
(***************************************************************************)
(* SlinkyEngine, with all of the generation before it, implements          *)
(* Publication: for every request, every cloud and every cluster, success  *)
(* means that the ConfigMap and the Nodes were written, every answer tells *)
(* what became of the file, and nobody's write is lost.                    *)
(***************************************************************************)
EXTENDS SlinkyEngine, FiniteSetTheorems, TLAPS

SpecOf(o, host) == GetNodeTopologySpec(o.nt, o.units, host)

P == INSTANCE PublicationProofs

\* the statuses of a request that fails; the test provider may be told to answer 202
Errors == {202} \cup Failing
Codes  == Errors \cup {0}

-----------------------------------------------------------------------------
(* Loaders, page loops and translation answer with the statuses of errors  *)
(* only.                                                                   *)

(* The first error of up to five checks is one of them, if there is one.   *)
LEMMA FirstErrorIsOne ==
    ASSUME NEW n \in 1..5, NEW codes \in [1..n -> Codes]
    PROVE  FirstError(codes) \in Codes /\ (FirstError(codes) = 0 => \A i \in 1..n : codes[i] = 0)
<1>1. CASE \A i \in DOMAIN codes : codes[i] = 0
  BY <1>1 DEF FirstError, Codes
<1>2. CASE ~\A i \in DOMAIN codes : codes[i] = 0
  <2> DEFINE First(k) == codes[k] # 0 /\ \A j \in 1..k - 1 : codes[j] = 0
  <2>1. \E k \in DOMAIN codes : First(k)
    BY <1>2
  <2>2. (CHOOSE k \in DOMAIN codes : First(k)) \in DOMAIN codes /\ codes[CHOOSE k \in DOMAIN codes : First(k)] # 0
    BY <2>1, Zenon
  <2>3. FirstError(codes) = codes[CHOOSE k \in DOMAIN codes : First(k)]
    BY <1>2, Zenon DEF FirstError
  <2> HIDE DEF First
  <2>4. QED
    BY <2>2, <2>3
<1>3. QED
  BY <1>1, <1>2

(* The same, for the sequences the loaders write down.                     *)
LEMMA ChecksFail ==
    /\ \A a, b \in Codes : FirstError(<<a, b>>) \in Codes
    /\ \A a, b, c \in Codes : FirstError(<<a, b, c>>) \in Codes
    /\ \A a, b, c, d \in Codes : FirstError(<<a, b, c, d>>) \in Codes
    /\ \A a, b, c, d, e \in Codes : FirstError(<<a, b, c, d, e>>) \in Codes
<1>1. \A a, b \in Codes : <<a, b>> \in [1..2 -> Codes]
  OBVIOUS
<1>2. \A a, b, c \in Codes : <<a, b, c>> \in [1..3 -> Codes]
  OBVIOUS
<1>3. \A a, b, c, d \in Codes : <<a, b, c, d>> \in [1..4 -> Codes]
  OBVIOUS
<1>4. \A a, b, c, d, e \in Codes : <<a, b, c, d, e>> \in [1..5 -> Codes]
  OBVIOUS
<1>5. {2, 3, 4, 5} \subseteq 1..5
  OBVIOUS
<1>6. QED
  BY <1>1, <1>2, <1>3, <1>4, <1>5, FirstErrorIsOne, Zenon

(* The loaders of the cloud providers (Loader of each).                    *)
LEMMA LoaderCodes ==
    ASSUME NEW p \in PagedProviders \cup {"crusoe"}, NEW creds, NEW env, NEW trim
    PROVE  LoaderCode(p, creds, env, trim) \in Codes
<1>1. {0, 400, 401, 500, 502} \subseteq Codes
  BY DEF Codes, Errors, Failing
<1>2. GetTrimTiers(trim) \in Codes
  BY <1>1 DEF GetTrimTiers
<1> USE <1>1, <1>2, ChecksFail
<1>3. awsLoader(creds, env, trim) \in Codes /\ gcpLoader(creds, env, trim) \in Codes
  BY DEF awsLoader, gcpLoader
<1>4. ociLoader(creds, env, trim) \in Codes /\ nebiusLoader(creds, env, trim) \in Codes
  BY DEF ociLoader, nebiusLoader
<1>5. lambdaiLoader(creds, env, trim) \in Codes /\ nscaleLoader(creds, env, trim) \in Codes
  BY DEF lambdaiLoader, nscaleLoader
<1>6. firebirdLoader(creds, env, trim) \in Codes /\ crusoeLoader(creds, env, trim) \in Codes
  BY DEF firebirdLoader, crusoeLoader
<1>7. QED
  BY <1>3, <1>4, <1>5, <1>6 DEF LoaderCode, PagedProviders

(* The loaders of the on-premises providers.                               *)
LEMMA OnPremLoaderCodes ==
    ASSUME NEW p \in OnPremProviderNames \ {"infiniband"}, NEW creds, NEW env, NEW params, NEW trim
    PROVE  OnPremLoaderCode(p, creds, env, params, trim) \in Codes
<1>1. {0, 400, 502} \subseteq Codes
  BY DEF Codes, Errors, Failing
<1> USE <1>1, ChecksFail
<1>2. LoaderBM(params) \in Codes /\ LoaderK8S(params, env) \in Codes
  BY DEF LoaderBM, LoaderK8S
<1>3. draLoader(params, env) \in Codes /\ nodelabelsLoader(params, env) \in Codes
  BY DEF draLoader, nodelabelsLoader
<1>4. netqLoader(creds, env) \in Codes /\ nautobotLoader(creds, env, params, trim) \in Codes
  BY DEF netqLoader, nautobotLoader
<1>5. QED
  BY <1>2, <1>3, <1>4 DEF OnPremLoaderCode, OnPremProviderNames, IbProviders

(* What a page loop answers when a call fails.                             *)
LEMMA PagingErrors ==
    ASSUME NEW p \in PagedProviders, NEW sim PROVE PagingOf(p, sim).errors \subseteq Errors
<1>1. /\ awsPaging.errors = {502} /\ gcpPaging(sim).errors = {502} /\ ociPaging.errors = {502}
      /\ nebiusPaging.errors = {502} /\ lambdaiPaging.errors = {502} /\ nscalePaging.errors = {502}
      /\ ociImdsPaging.errors = {500} /\ firebirdPaging.errors = {401, 404, 429, 502}
  BY DEF awsPaging, gcpPaging, ociPaging, nebiusPaging, lambdaiPaging, nscalePaging, ociImdsPaging,
         firebirdPaging, Paging
<1>2. QED
  BY <1>1 DEF PagingOf, PagedProviders, Errors, Failing

(* What the parameters and the translation are refused with                *)
(* (GetTranslateConfig, GenerateTopologyConfig).                           *)
LEMMA TranslateCodes ==
    ASSUME NEW g, NEW params, NEW scontrol, NEW skeletonOnly
    PROVE  /\ \A c \in GetTranslateConfig(params, scontrol) : c.code \in Codes
           /\ \A t \in Translated(g, params, scontrol, skeletonOnly) : t.code \in Codes
<1>1. ASSUME NEW c \in GetTranslateConfig(params, scontrol) PROVE c.code \in {0, 400, 500}
  BY DEF GetTranslateConfig
<1>2. ASSUME NEW gen PROVE Coded(gen).code \in {0, 400, 500}
  BY DEF Coded
<1>3. {0, 400, 500} \subseteq Codes
  BY DEF Codes, Errors, Failing
<1>4. ASSUME NEW t \in Translated(g, params, scontrol, skeletonOnly) PROVE t.code \in {0, 400, 500}
  <2>1. PICK c \in GetTranslateConfig(params, scontrol) :
           t = IF c.code # 0 THEN c ELSE Coded(Generated(NewNetworkTopology(g, c.cfg), skeletonOnly))
    BY Zenon DEF Translated
  <2>2. t = c \/ \E gen : t = Coded(gen)
    BY <2>1, Zenon
  <2>3. QED
    BY <1>1, <1>2, <2>2
<1>5. QED
  BY <1>1, <1>3, <1>4

-----------------------------------------------------------------------------
(* What a step outside the slinky engine does.                             *)

\* on to the next stage, or once more; or an error ends it
Goes  == /\ stage \in P!Working /\ stage' \in (P!Working \ {"load"}) \cup {"translate"}
         /\ UNCHANGED <<asked, out, disk, status>>
Fails == /\ stage \in P!Working /\ stage' = "done" /\ status' \in Errors
         /\ UNCHANGED <<asked, out, disk>>

\* a document, which goes to the client or to the disk
Delivers == /\ stage = "translate" /\ req.engine \in {"slurm", "graph"} /\ UNCHANGED <<asked, disk>>
            /\ Deliver \/ (stage' = "done" /\ status' \in Errors)

(* The test provider answers what it is told to, if that is an error.      *)
LEMMA ToldCodes ==
    /\ \A r : HandleTestProviderRequest(r) \in Codes
    /\ \A p, topology : ToldTo(p, topology) \in Codes
BY DEF HandleTestProviderRequest, ToldTo, Codes, Errors, Failing

(* A simulation goes on with its model, or fails.                          *)
LEMMA LoadSimulationFrame ==
    ASSUME LoadSimulation
    PROVE  Goes \/ Fails
<1>1. /\ stage = "load" /\ UNCHANGED <<asked, out, disk>>
      /\ \/ \E told : told = ToldTo(req.p, req.prov.topology) /\ told # 0 /\ Answer(told)
         \/ Answer(400)
         \/ stage' = "resolve" /\ UNCHANGED status
  BY Zenon DEF LoadSimulation
<1>2. {400} \subseteq Errors
  BY DEF Errors, Failing
<1>3. QED
  BY <1>1, <1>2, ToldCodes DEF Goes, Fails, P!Working, Answer, Codes

(* A loader that refuses the request says so with an error.                *)
LEMMA LoadFrame ==
    ASSUME Registered(req), Load
    PROVE  Goes \/ Fails
<1>1. PICK env \in Envs, w \in Cases[case].worlds :
        LET code == IF req.sim THEN LoaderSim(w)
                    ELSE LoaderStatus(checkCredentials(req.creds, Config.creds), env)
        IN  IF code # 0 THEN Answer(code) /\ UNCHANGED world
            ELSE stage' = "resolve" /\ world' = w /\ UNCHANGED status
  BY Zenon DEF Load
<1>2. LoaderSim(w) \in Codes
  BY DEF LoaderSim, Codes, Errors, Failing
<1>3. stage = "load" /\ req.p # "test" /\ (~req.sim \/ req.p = "infiniband")
  BY DEF Load
<1>4. ASSUME ~req.sim, NEW creds PROVE LoaderStatus(creds, env) \in Codes
  <2>1. req.p \in PagedProviders \cup {"crusoe"} \cup (OnPremProviderNames \ {"infiniband"})
    BY <1>3, <1>4 DEF Registered, Providers
  <2>2. PagedProviders \cap OnPremProviderNames = {} /\ "crusoe" \notin OnPremProviderNames
    BY DEF PagedProviders, OnPremProviderNames, IbProviders
  <2>3. QED
    BY <2>1, <2>2, LoaderCodes, OnPremLoaderCodes, Zenon DEF LoaderStatus
<1>5. UNCHANGED <<asked, out, disk>>
  BY DEF Load
<1>6. QED
  BY <1>1, <1>2, <1>3, <1>4, <1>5 DEF Goes, Fails, P!Working, Answer, Codes

(* A translation delivers its file, or fails.                              *)
LEMMA TranslateFrame ==
    ASSUME Translate
    PROVE  Delivers
<1>1. stage = "translate" /\ req.engine = "slurm" /\ UNCHANGED <<asked, disk>>
  BY Zenon DEF Translate
<1>2. CASE ~req.params.valid
  <2>1. Answer(400)
    BY <1>2, Zenon DEF Translate
  <2>2. 400 \in Errors
    BY DEF Errors, Failing
  <2>3. QED
    BY <1>1, <2>1, <2>2 DEF Delivers, Answer
<1>3. CASE req.params.valid
  <2>1. PICK s \in {req.scontrol, NoMap} :
          \E t \in Translated(graph, WithDefaultPlugin(req.params), s, FALSE) :
            IF t.code # 0 THEN Answer(t.code) /\ UNCHANGED out ELSE out' = t /\ Deliver
    BY <1>3, Zenon DEF Translate
  <2>2. PICK t \in Translated(graph, WithDefaultPlugin(req.params), s, FALSE) :
          IF t.code # 0 THEN Answer(t.code) /\ UNCHANGED out ELSE out' = t /\ Deliver
    BY <2>1, Zenon
  <2>3. t.code \in Codes
    BY <2>2, TranslateCodes, Zenon
  <2>4. QED
    BY <1>1, <2>2, <2>3 DEF Delivers, Codes, Answer
<1>4. QED
  BY <1>2, <1>3

\* a step of a provider asks for more, has its graph, or fails
Discovers == /\ stage = "discover" /\ UNCHANGED <<asked, out, disk>>
             /\ \/ Answer(400) \/ Answer(404) \/ Answer(502) \/ Answer(503)
                \/ UNCHANGED <<stage, status>> \/ \E g : Built(g)

(* Steps of the providers that do nothing else.                            *)
LEMMA DiscoverySteps ==
    (\/ startRegion \/ DiscoverCluster \/ DiscoverLabels
     \/ FetchPage \/ RepeatedToken \/ FinishDiscovery
     \/ DiscoverSeeds \/ DiscoverBatch \/ BuildTopology) => Discovers
<1>1. startRegion => Discovers
  BY Zenon DEF startRegion, Discovers
<1>2. FetchPage => Discovers
  BY Zenon DEF FetchPage, Discovers
<1>3. RepeatedToken => Discovers
  BY Zenon DEF RepeatedToken, Discovers
<1>4. FinishDiscovery => Discovers
  BY Zenon DEF FinishDiscovery, Discovers
<1>5. DiscoverCluster => Discovers
  BY Zenon DEF DiscoverCluster, Discovers
<1>6. DiscoverLabels => Discovers
  BY Zenon DEF DiscoverLabels, Discovers
<1>7. DiscoverSeeds \/ DiscoverBatch => Discovers
  BY Zenon DEF DiscoverSeeds, DiscoverBatch, Discovers
<1>8. BuildTopology => Discovers
  BY Zenon DEF BuildTopology, Discovers
<1>9. QED
  BY <1>1, <1>2, <1>3, <1>4, <1>5, <1>6, <1>7, <1>8, Zenon

(* They go on, or fail with an error.                                      *)
LEMMA DiscoverFrame ==
    ASSUME Discovers
    PROVE  Goes \/ Fails
<1>1. {400, 404, 502, 503} \subseteq Errors
  BY DEF Errors, Failing
<1>2. QED
  BY <1>1 DEF Discovers, Goes, Fails, P!Working, Answer, Built

\* what a step of Process may be
Framed == LoadFileEngine \/ Goes \/ Fails \/ Delivers \/ WriteFile \/ Reconfigure \/ UNCHANGED vars

(* Every step before the engine's goes on, fails with an error, delivers a *)
(* document or has to do with the file.                                    *)
LEMMA ProcessFrame ==
    ASSUME stage = "load" => Registered(req), Process
    PROVE  Framed
<1>1. CASE LoadSimulation
  BY <1>1, LoadSimulationFrame, Zenon DEF Framed
<1>2. CASE startRegion \/ DiscoverCluster \/ DiscoverLabels
  BY <1>2, DiscoverySteps, DiscoverFrame, Zenon DEF Framed
<1>3. CASE FetchPage \/ RepeatedToken \/ FinishDiscovery
  BY <1>3, DiscoverySteps, DiscoverFrame, Zenon DEF Framed
<1>4. CASE DiscoverSeeds \/ DiscoverBatch \/ BuildTopology
  BY <1>4, DiscoverySteps, DiscoverFrame, Zenon DEF Framed
<1>5. CASE Translate
  BY <1>5, TranslateFrame, Zenon DEF Framed
<1>e. {400, 401, 404, 500, 502, 503} \subseteq Errors
  BY DEF Errors, Failing
<1> USE DEF Framed, Answer, Built, Goes, Fails, P!Working
<1>6. CASE Load
  BY <1>6, LoadFrame DEF Load
<1>7. CASE resolveComputeInstances \/ Connect
  BY <1>7, <1>e DEF resolveComputeInstances, Resolved, Connect
<1>8. CASE ApiFails
  <2>1. Paged => paging.errors \subseteq Errors
    BY PagingErrors DEF Paged, paging
  <2>2. QED
    BY <1>8, <1>e, <2>1 DEF ApiFails
<1>9. CASE DiscoverModel
  BY <1>9, <1>e DEF DiscoverModel
<1>10. CASE DiscoverIb
  BY <1>10, <1>e DEF DiscoverIb
<1>11. CASE DiscoverNetq \/ DiscoverDra
  BY <1>11, <1>e DEF DiscoverNetq, DiscoverDra
<1>12. CASE MakeDocument
  BY <1>12 DEF MakeDocument, Delivers
<1>13. CASE Done
  BY <1>13 DEF Done
<1> HIDE DEF Framed, Answer, Built, Goes, Fails, P!Working
<1>14. LoadFileEngine \/ WriteFile \/ Reconfigure => Framed
  BY Zenon DEF Framed
<1>15. QED
  BY <1>1, <1>2, <1>3, <1>4, <1>5, <1>6, <1>7, <1>8, <1>9, <1>10, <1>11, <1>12, <1>13, <1>14, Zenon DEF Process

(* Before the slinky engine has its turn a request goes through the stages *)
(* of Publication.                                                         *)
LEMMA ProcessMaps ==
    ASSUME stage = "load" => Registered(req), Process, UNCHANGED kvars
    PROVE  [P!Work]_(P!vars)
<1>1. LoadFileEngine \/ Goes \/ Fails \/ Delivers \/ WriteFile \/ Reconfigure \/ UNCHANGED vars
  BY ProcessFrame, Zenon DEF Framed
<1>e. Errors \cap {0, 200} = {}
  BY DEF Errors, Failing
<1> USE <1>e DEF kvars, asked, Answer, P!Advance, P!Err, P!Succeed
<1>2. Goes \/ Fails => P!Discover
  BY DEF Goes, Fails, P!Discover, P!Working
<1>3. Delivers => P!Translate
  BY DEF Delivers, Deliver, P!Translate
<1>4. WriteFile \/ Reconfigure => P!WriteFile \/ P!Reconfigure
  BY DEF WriteFile, Reconfigure, P!WriteFile, P!Reconfigure
<1>5. UNCHANGED vars => UNCHANGED P!vars
  BY DEF vars, P!vars
<1>6. LoadFileEngine => P!LoadEngine
  BY DEF LoadFileEngine, P!LoadEngine
<1>7. QED
  BY <1>1, <1>2, <1>3, <1>4, <1>5, <1>6, Zenon DEF P!Work

\* a request is worked on only if its names are registered; clusters are finite
Known == /\ stage \notin {"idle", "done"} => Registered(req)
         /\ IsFiniteSet(DOMAIN kube.nodes)

(* A request that is not refused names what is registered.                 *)
LEMMA RequestCodes ==
    ASSUME NEW r
    PROVE  RequestCode(r) \in Codes /\ (RequestCode(r) = 0 => Registered(r))
<1> DEFINE a == IF r.method = "POST" THEN 0 ELSE 405
           b == IF r.body = "unreadable" THEN 500 ELSE 0
           c == IF r.body = "malformed" THEN 400 ELSE 0
           d == IF Registered(r) THEN 0 ELSE 400
           e == HandleTestProviderRequest(r)
<1>1. a \in Codes /\ b \in Codes /\ c \in Codes /\ d \in Codes
  BY DEF Codes, Errors, Failing
<1>2. e \in Codes
  BY ToldCodes
<1>3. RequestCode(r) = FirstError(<<a, b, c, d, e>>)
  BY Zenon DEF RequestCode
<1>4. d = 0 => Registered(r)
  OBVIOUS
<1> HIDE DEF a, b, c, d, e
<1>5. FirstError(<<a, b, c, d, e>>) = 0 => d = 0
  <2> DEFINE codes == <<a, b, c, d, e>>
  <2>1. codes \in [1..5 -> Codes] /\ codes[4] = d
    BY <1>1, <1>2
  <2> HIDE DEF codes
  <2>2. FirstError(codes) = 0 => codes[4] = 0
    BY <2>1, FirstErrorIsOne
  <2>3. QED
    BY <2>1, <2>2 DEF codes
<1>6. QED
  BY <1>1, <1>2, <1>3, <1>4, <1>5, ChecksFail

(* A request is taken up only if its names are registered, with a cluster  *)
(* as an API server holds it.                                              *)
LEMMA ReadMaps ==
    ASSUME readRequest, kube' \in Cases[case'].kubes, UNCHANGED <<eng, writes>>
    PROVE  P!Read /\ Known'
<1>1. PICK r : /\ req' = r
               /\ IF RequestCode(r) # 0 THEN Answer(RequestCode(r)) ELSE stage' = "engine" /\ UNCHANGED status
  BY Zenon DEF readRequest
<1>2. stage = "idle" /\ UNCHANGED <<disk, out>> /\ case' \in DOMAIN Cases
  BY Zenon DEF readRequest
<1>3. DOMAIN NoKube = {"nodes", "pods", "cm", "exec", "broker"} /\ NoConfigMap = P!NoConfigMap
  BY DEF NoKube, NoConfigMap, NoMap, P!NoConfigMap
<1>4. P!IsCluster(kube') /\ IsFiniteSet(DOMAIN kube'.nodes)
  BY <1>2, <1>3, KubesAssumption, Zenon DEF P!IsCluster
<1>5. Codes \cap {200} = {}
  BY DEF Codes, Errors, Failing
<1>6. QED
  BY <1>1, <1>2, <1>4, <1>5, RequestCodes DEF Answer, Known, P!Read, P!Err, P!Advance

-----------------------------------------------------------------------------
(* The steps of the slinky engine.                                         *)

(* Looking for identities elsewhere (resolveNodeMetadata) keeps the spec.  *)
LEMMA SpecIsListed ==
    ASSUME NEW sources, NEW node, "spec" \in DOMAIN node
    PROVE  resolveNodeMetadata(sources, node).spec = node.spec
<1>1. PICK ann : resolveNodeMetadata(sources, node) = [node EXCEPT !.ann = ann]
  BY Zenon DEF resolveNodeMetadata
<1>2. QED
  BY <1>1

(* A listing, filtered by the selector, has the specs of its Nodes.        *)
LEMMA ListNodesMaps ==
    ASSUME P!Control, P!ClusterInv, Known, ListNodes
    PROVE  P!ListNodes
<1> DEFINE names  == Sorted({n \in DOMAIN kube.nodes : kube.nodes[n].sel})
           listed == [i \in DOMAIN names |->
                        [name |-> names[i], node |-> resolveNodeMetadata(req.sources, kube.nodes[names[i]])]]
<1>1. stage = "nodes" /\ UNCHANGED <<asked, out, disk, kube, writes>>
  BY DEF ListNodes
<1>2. \/ Answer(502) /\ UNCHANGED eng
      \/ eng' = [eng EXCEPT !.listed = listed] /\ stage' = "pods" /\ UNCHANGED status
  BY Zenon DEF ListNodes
<1>3. Cardinality({n \in DOMAIN kube.nodes : kube.nodes[n].sel}) \in Nat
  BY FS_CardinalityType, FS_Subset DEF Known
<1>4. PICK m \in Nat : DOMAIN names = 1..m
  BY <1>3 DEF Sorted
<1> HIDE DEF names
<1>5. Len(listed) = m /\ DOMAIN listed = 1..m
  BY <1>4
<1>6. ASSUME NEW i \in DOMAIN listed, listed[i].name \in DOMAIN kube.nodes
      PROVE  listed[i].node.spec = kube.nodes[listed[i].name].spec
  <2>1. listed[i].name = names[i] /\ listed[i].node = resolveNodeMetadata(req.sources, kube.nodes[names[i]])
    BY <1>6
  <2>2. "spec" \in DOMAIN kube.nodes[names[i]]
    BY <1>6, <2>1 DEF P!ClusterInv, P!IsCluster
  <2>3. QED
    BY <2>1, <2>2, SpecIsListed
<1> HIDE DEF listed
<1>7. P!IsListing(listed)
  BY <1>4, <1>5, <1>6 DEF P!IsListing
<1>8. CASE Answer(502) /\ UNCHANGED eng
  BY <1>1, <1>8 DEF Answer, asked, P!ListNodes, P!Err, P!Quiet
<1>9. CASE eng' = [eng EXCEPT !.listed = listed] /\ stage' = "pods" /\ UNCHANGED status
  <2>1. eng'.listed = listed
    BY <1>9 DEF P!Control, P!EngineFields
  <2>2. QED
    BY <1>1, <1>7, <1>9, <2>1 DEF asked, P!ListNodes, P!Advance, P!Quiet
<1>10. QED
  BY <1>2, <1>8, <1>9

(* Every step of the engine is one of Publication.                         *)
LEMMA EngineMaps ==
    ASSUME P!Control, P!ClusterInv, Known, SlinkyStep
    PROVE  P!LoadEngine \/ P!EngineStep
<1>1. P!Slinky
  BY DEF SlinkyStep, LoadEngine, ListNodes, ListPods, ResolveComputeInstances, resolveTopologies, Generate,
         GetConfigMap, PutConfigMap, performReconciliation, Slinky, P!Slinky, P!Control, P!InEngine
<1>2. /\ Errors \cap {0, 200} = {} /\ Codes = Errors \cup {0} /\ {0, 400, 502} \subseteq Codes
      /\ DOMAIN eng = P!EngineFields
  BY DEF Errors, Failing, Codes, P!Control
\* what the larger steps come to
<1>l. ListPods =>
        \/ Answer(502) /\ UNCHANGED eng
        \/ stage' = eng.back /\ UNCHANGED status /\ \E x : eng' = [eng EXCEPT !.hosts = x, !.cached = TRUE]
  BY Zenon DEF ListPods
<1>r. ResolveComputeInstances =>
        \/ (\E c : Resolved(c)) /\ UNCHANGED eng
        \/ NeedsNodes("resolve") /\ ~eng.cached
  BY Zenon DEF ResolveComputeInstances
<1>t. resolveTopologies =>
        \/ Answer(500) /\ UNCHANGED eng
        \/ stage' \in {"network", stage} /\ UNCHANGED status /\ \E x : eng' = [eng EXCEPT !.sects = x]
  BY Zenon DEF resolveTopologies
<1>g. (\A c \in Configs : c.code \in Codes) /\ (\A t \in Outputs : t.code \in Codes)
  BY TranslateCodes, Zenon DEF Configs, Outputs
<1>p. performReconciliation =>
        \/ Answer(200) /\ UNCHANGED <<kube, eng>> /\ (req.params.dynamic => eng.cached /\ eng.next > Len(eng.listed))
        \/ NeedsNodes("reconcile") /\ UNCHANGED kube /\ ~eng.cached
        \/ /\ eng.cached /\ ~(eng.next > Len(eng.listed)) /\ UpToDate(P!Current)
           /\ eng' = [eng EXCEPT !.next = @ + 1] /\ UNCHANGED <<kube, stage, status>>
        \/ eng.cached /\ ~(eng.next > Len(eng.listed)) /\ ~UpToDate(P!Current) /\ PatchAnnotation(P!Current)
  BY Zenon DEF performReconciliation, P!Current
<1> USE <1>2 DEF Answer, asked, P!Err, P!Advance, P!Succeed, P!Quiet
<1>3. LoadEngine => P!LoadEngine
  <2>1. \A env : FirstError(<<IF ValidParameters(req.params) THEN 0 ELSE 400,
                             IF env.inCluster THEN 0 ELSE 502, IF env.limits THEN 0 ELSE 400>>) \in Codes
    BY ChecksFail
  <2>2. QED
    BY <2>1 DEF LoadEngine, kvars, P!LoadEngine
<1>4. ListPods => P!ListPods
  <2> SUFFICES ASSUME ListPods PROVE P!ListPods
    OBVIOUS
  <2>1. stage = "pods" /\ UNCHANGED <<asked, out, disk, kube, writes>>
    BY DEF ListPods
  <2>2. (\E x : eng' = [eng EXCEPT !.hosts = x, !.cached = TRUE]) =>
           eng' = [eng EXCEPT !.hosts = eng'.hosts, !.cached = TRUE]
    BY DEF P!EngineFields
  <2>3. Answer(502) => P!Err
    OBVIOUS
  <2>4. QED
    BY <1>l, <2>1, <2>2, <2>3, ZenonT(30) DEF P!ListPods
<1>5. ResolveComputeInstances => P!ResolveInstances \/ P!AskForNodes
  <2>1. ResolveComputeInstances => stage = "resolve" /\ UNCHANGED <<asked, out, disk, kube, writes>>
    BY DEF ResolveComputeInstances
  <2>2. QED
    BY <1>r, <2>1 DEF Resolved, NeedsNodes, P!ResolveInstances, P!AskForNodes
<1>6. resolveTopologies => P!ResolveTopologies
  <2>1. resolveTopologies => stage = "translate" /\ UNCHANGED <<asked, out, disk, kube, writes>>
    BY ZenonT(30) DEF resolveTopologies
  <2>2. QED
    BY <1>t, <2>1 DEF P!ResolveTopologies, P!EngineFields
<1>7. Generate => P!Generate \/ P!AskForNodes
  BY <1>g DEF Generate, NeedsNodes, P!Generate, P!AskForNodes
<1>8. GetConfigMap => P!GetConfigMap
  BY DEF GetConfigMap, Unchanged, Exists, P!GetConfigMap, P!Published, P!Has
<1>9. PutConfigMap => P!PutConfigMap
  BY DEF PutConfigMap, SameVersion, Written, P!PutConfigMap
<1>10. performReconciliation => P!FinishReconciliation \/ P!AskForNodes \/ P!CheckNode \/ P!PatchNode
  <2> SUFFICES ASSUME performReconciliation
               PROVE  P!FinishReconciliation \/ P!AskForNodes \/ P!CheckNode \/ P!PatchNode
    OBVIOUS
  <2>1. stage = "reconcile" /\ UNCHANGED <<asked, out, disk, writes>>
    BY DEF performReconciliation
  <2>2. \A l : /\ UpToDate(l) <=> P!UpToDate(l)
               /\ desiredSpec(eng.hosts[l.name]) = P!Wanted(l.name)
    BY DEF UpToDate, P!UpToDate, desiredSpec, P!Wanted, SpecOf
  <2>3. CASE PatchAnnotation(P!Current) /\ eng.cached /\ ~(eng.next > Len(eng.listed)) /\ ~UpToDate(P!Current)
    BY <2>1, <2>2, <2>3 DEF PatchAnnotation, P!NoneLeft, P!PatchNode
  <2>4. QED
    BY <1>p, <2>1, <2>2, <2>3 DEF NeedsNodes, P!NoneLeft, P!FinishReconciliation, P!AskForNodes, P!CheckNode
<1>11. QED
  BY <1>1, <1>3, <1>4, <1>5, <1>6, <1>7, <1>8, <1>9, <1>10, ListNodesMaps, ZenonT(30) DEF SlinkyStep, P!EngineStep

(* The others who write to the cluster, the node data broker among them.   *)
LEMMA OthersMap ==
    ASSUME P!ClusterInv, Disturb
    PROVE  P!Others
<1>1. /\ UNCHANGED <<req, stage, out, disk, status, eng>>
      /\ P!Slinky /\ stage \in {"nodes", "pods", "translate", "network", "getcm", "putcm", "reconcile"}
  BY DEF Disturb, Slinky, vars, asked, P!Slinky
<1>2. \/ writes' = writes + 1 /\ OtherWrite
      \/ writes' = writes /\ \E x : kube' = [kube EXCEPT !.broker = x]
      \/ /\ writes' = writes + 1
         /\ kube.broker.name \in DOMAIN kube.nodes /\ kube.nodes[kube.broker.name] = kube.broker.seen
         /\ kube' = [kube EXCEPT !.nodes[kube.broker.name] = mergeNodeAnnotations(kube.broker.seen),
                                 !.broker.at = "done"]
  BY Zenon DEF Disturb, brokerGet, brokerUpdate
<1>3. /\ DOMAIN kube = {"nodes", "pods", "cm", "exec", "broker"}
      /\ \A n \in DOMAIN kube.nodes : {"ann", "spec"} \subseteq DOMAIN kube.nodes[n]
  BY DEF P!ClusterInv, P!IsCluster
<1>4. CASE writes' = writes + 1 /\ OtherWrite
  <2>1. \/ \E x : kube' = [kube EXCEPT !.cm = [ver |-> kube.cm.ver + 1, data |-> x]]
        \/ \E n \in DOMAIN kube.nodes :
             \/ \E x : kube' = [kube EXCEPT !.nodes[n].spec = x]
             \/ kube' = [kube EXCEPT !.nodes = [m \in DOMAIN @ \ {n} |-> @[m]]]
        \/ \E i : kube' = [kube EXCEPT !.pods[i].ready = ~@]
    BY <1>4, Zenon DEF OtherWrite
  <2>2. \A x : kube' = [kube EXCEPT !.cm = [ver |-> kube.cm.ver + 1, data |-> x]] => P!WriteConfigMap
    BY <1>3 DEF P!WriteConfigMap
  <2>3. ASSUME NEW n \in DOMAIN kube.nodes, NEW x, kube' = [kube EXCEPT !.nodes[n].spec = x]
        PROVE  n \in DOMAIN kube'.nodes /\ P!WriteSpec(n)
    BY <1>3, <2>3 DEF P!WriteSpec
  <2>4. \A n : kube' = [kube EXCEPT !.nodes = [m \in DOMAIN @ \ {n} |-> @[m]]] => P!DeleteNode(n)
    BY Zenon DEF P!DeleteNode
  <2>5. \A i : kube' = [kube EXCEPT !.pods[i].ready = ~@] => P!ChangePods
    BY <1>3 DEF P!ChangePods
  <2>6. \/ P!WriteConfigMap \/ P!ChangePods
        \/ \E n \in DOMAIN kube.nodes : P!DeleteNode(n) \/ (n \in DOMAIN kube'.nodes /\ P!WriteSpec(n))
    BY <2>1, <2>2, <2>3, <2>4, <2>5, Zenon
  <2>7. QED
    BY <1>1, <1>4, <2>6, Zenon DEF P!Others
<1>5. CASE writes' = writes /\ \E x : kube' = [kube EXCEPT !.broker = x]
  BY <1>1, <1>3, <1>5 DEF P!Others, P!MoveBroker
<1>6. CASE /\ writes' = writes + 1
           /\ kube.broker.name \in DOMAIN kube.nodes /\ kube.nodes[kube.broker.name] = kube.broker.seen
           /\ kube' = [kube EXCEPT !.nodes[kube.broker.name] = mergeNodeAnnotations(kube.broker.seen),
                                   !.broker.at = "done"]
  <2>1. PICK n \in DOMAIN kube.nodes : n = kube.broker.name
    BY <1>6
  <2>2. PICK ann : mergeNodeAnnotations(kube.broker.seen) = [kube.nodes[n] EXCEPT !.ann = ann]
    BY <1>6, <2>1 DEF mergeNodeAnnotations
  <2>3. kube' = [kube EXCEPT !.nodes[n] = [kube.nodes[n] EXCEPT !.ann = ann], !.broker.at = "done"]
    BY <1>6, <2>1, <2>2
  <2>4. n \in DOMAIN kube'.nodes /\ P!UpdateNode(n)
    BY <1>3, <2>3 DEF P!UpdateNode
  <2>5. QED
    BY <1>1, <1>6, <2>4, Zenon DEF P!Others
<1>7. QED
  BY <1>2, <1>4, <1>5, <1>6, Zenon

-----------------------------------------------------------------------------
(* Every step is one of Publication, or changes nothing that it speaks of. *)
LEMMA StepMaps ==
    ASSUME P!Inv, Known, [NextSlinky]_<<vars, kvars>>
    PROVE  [P!Next]_(P!vars) /\ Known'
<1> USE DEF P!Inv
<1>1. CASE readRequest /\ kube' \in Cases[case'].kubes /\ UNCHANGED <<eng, writes>>
  BY <1>1, ReadMaps DEF P!Next
<1>2. CASE [P!Work]_(P!vars)
  BY <1>2, P!WorkKeeps, FS_Subset DEF Known, P!Next
<1>3. Process /\ UNCHANGED kvars => [P!Work]_(P!vars)
  BY ProcessMaps DEF Known
<1>4. SlinkyStep \/ Disturb => P!Work
  BY EngineMaps, OthersMap DEF P!Work
<1>5. UNCHANGED <<vars, kvars>> => UNCHANGED P!vars
  BY DEF vars, asked, kvars, P!vars
<1>6. QED
  BY <1>1, <1>2, <1>3, <1>4, <1>5, Zenon DEF NextSlinky

(* The first state is one of Publication.                                  *)
LEMMA InitMaps == InitSlinky => P!Init /\ Known
<1> SUFFICES ASSUME InitSlinky PROVE P!Init /\ Known
  OBVIOUS
<1>1. DOMAIN NoMap = {} /\ NoEngine = P!NoEngine /\ NoConfigMap = P!NoConfigMap
  <2>1. DOMAIN NoMap = {}
    BY DEF NoMap
  <2>2. NoConfigMap = P!NoConfigMap
    BY Zenon DEF NoMap, NoConfigMap, P!NoConfigMap
  <2>3. NoEngine = P!NoEngine
    BY <2>2, Zenon DEF NoMap, NoEngine, P!NoEngine
  <2>4. QED
    BY <2>1, <2>2, <2>3
<1>2. P!IsCluster(NoKube) /\ DOMAIN NoKube.nodes = {}
  <2>1. /\ DOMAIN NoKube = {"nodes", "pods", "cm", "exec", "broker"}
        /\ NoKube.nodes = NoMap /\ NoKube.cm = NoConfigMap /\ NoConfigMap.ver = 0
    BY DEF NoKube, NoConfigMap
  <2>2. QED
    BY <1>1, <2>1 DEF P!IsCluster
<1>3. QED
  BY <1>1, <1>2, FS_EmptySet DEF InitSlinky, Init, Known, P!Init

(* So the invariant of Publication holds of SlinkyEngine too.              *)
LEMMA InvMaps ==
    P!Inv /\ Known /\ [NextSlinky]_<<vars, kvars>> =>
      (P!Inv /\ Known)' /\ [P!Next]_(P!vars) /\ [P!KeepsWrites]_<<vars, kvars>>
<1> SUFFICES ASSUME P!Inv, Known, [NextSlinky]_<<vars, kvars>>
             PROVE  (P!Inv /\ Known)' /\ [P!Next]_(P!vars) /\ [P!KeepsWrites]_<<vars, kvars>>
  OBVIOUS
<1>1. [P!Next]_(P!vars) /\ Known'
  BY StepMaps
<1>2. P!Inv' /\ [P!KeepsWrites]_(P!vars)
  BY <1>1, P!InvStep
<1>3. UNCHANGED P!vars => P!KeepsWrites
  BY DEF P!vars, P!KeepsWrites
<1>4. QED
  BY <1>1, <1>2, <1>3

(* Whatever the provider, the cloud and the engine are, a request goes     *)
(* through the steps of Publication: the server (readRequest,              *)
(* processTopologyRequest), every provider and translator, the slurm and   *)
(* graph engines' file, and the slinky engine with its ConfigMap and its   *)
(* Nodes, while others write to the cluster.                               *)
THEOREM SlinkyImplementsPublication == SlinkySpec => P!Spec
<1>1. InitSlinky => P!Init /\ P!Inv /\ Known
  BY InitMaps, P!InvInit
<1>2. QED
  BY <1>1, InvMaps, PTL DEF SlinkySpec, P!Spec

(* Success means that the ConfigMap (UpdateTopologyConfigmap) was written, *)
(* whatever others write later, and so were the Nodes                      *)
(* (performReconciliation), unless someone else wrote to the cluster;      *)
(* every answer tells what became of the configuration file                *)
(* (processTopologyRequest, GenerateOutput): for every request, every      *)
(* cloud and whatever calls fail.                                          *)
THEOREM AnswersHold ==
    SlinkySpec => [](P!PublishedOnSuccess /\ P!ReconciledOnSuccess /\ P!AnswerTellsFile)
BY SlinkyImplementsPublication, P!AnswersArePromises, PTL

(* The engine changes its own key of the ConfigMap only and undoes         *)
(* nobody's write (UpdateTopologyConfigmap), and the broker's update of a  *)
(* Node (apply) keeps its spec, with any number of writes by others.       *)
THEOREM NothingIsLost == SlinkySpec => NoLostUpdate
<1>1. InitSlinky => P!Inv /\ Known
  BY InitMaps, P!InvInit
<1>2. SlinkySpec => [][P!KeepsWrites]_<<vars, kvars>>
  BY <1>1, InvMaps, PTL DEF SlinkySpec
<1>3. QED
  BY <1>2 DEF NoLostUpdate, P!KeepsWrites
=============================================================================
