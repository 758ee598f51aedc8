--------------------------- MODULE CloudProviders ---------------------------
(***************************************************************************)
(* What the cloud providers do with credentials and with the hosts their   *)
(* APIs list (pkg/providers and its aws, gcp, oci, nebius, lambdai,        *)
(* nscale, firebird and crusoe packages).                                  *)
(*                                                                         *)
(* A listed host is [id, path, domain, part]: path is the switch IDs in    *)
(* the order the API gives them (a host without topology has too short a   *)
(* path), part the rack or clique within the accelerator domain.           *)
(* Credentials are [nil, keys]; keys maps <<name, spelling>> to "set" or   *)
(* "blank", spelling 1 is the documented one.                              *)
(***************************************************************************)
EXTENDS FabricGraph

CONSTANTS DottedPrefix,        \* prefix of "<domain>.<part>"
          CrusoeRoot, CpuPod, CpuPartition,  \* synthetic tiers of crusoe
          LocalRegion,         \* crusoe's only region
          MaxExplicitIDs       \* instance IDs AWS takes in one request (100)

ClosestFirstFabricTiers(ids) == [i \in DOMAIN ids |-> [id |-> ids[i], name |-> Empty]]

RootFirstFabricTiers(ids) == ClosestFirstFabricTiers(Reverse(ids))

Report(id, tiers, domain, sub) ==
  [id |-> id, tiers |-> tiers, domain |-> domain, sub |-> sub, meta |-> NoMap]

Dotted(a, b) == [pre |-> DottedPrefix + a.num, num |-> b.num, width |-> b.width]

-----------------------------------------------------------------------------
(* One listed host: at most one report.                                    *)

awsConvert(h) == <<Report(h.id, RootFirstFabricTiers(h.path), h.domain, Empty)>>

gcpConvert(h) ==
  IF Len(h.path) # 3 THEN <<>>
  ELSE <<Report(h.id, ClosestFirstFabricTiers(h.path), h.path[1], Empty)>>

\* a rack makes a sub-domain only within a GPU memory fabric
ociConvert(h) ==
  LET sub == IF h.domain = Empty \/ h.part = Empty THEN Empty ELSE Dotted(h.domain, h.part)
  IN  IF Len(h.path) # 3 THEN <<>>
      ELSE <<Report(h.id, ClosestFirstFabricTiers(h.path), h.domain, sub)>>

\* the metadata service gives empty names for what it does not know
ociImdsConvert(h) ==
  <<Report(h.id, ClosestFirstFabricTiers(h.path), h.domain, Empty)>>

nebiusConvert(h) ==
  IF Len(h.path) # 3 THEN <<>>
  ELSE <<Report(h.id, RootFirstFabricTiers(h.path), h.domain, Empty)>>

lambdaiConvert(h) ==
  LET domain == IF h.domain = Empty \/ h.part = Empty THEN Empty ELSE Dotted(h.domain, h.part)
  IN  <<Report(h.id, ClosestFirstFabricTiers(h.path), domain, Empty)>>

nscaleConvert(h) == <<Report(h.id, RootFirstFabricTiers(h.path), h.domain, Empty)>>

\* the instance record of firebird has no more than its ID
BareInstance == [layers |-> <<>>, domain |-> Empty, sub |-> Empty]

firebirdConvert(h) ==
  IF h.path = <<>> THEN <<>>
  ELSE <<[Report(h.id, ClosestFirstFabricTiers(h.path), Empty, Empty) EXCEPT !.meta = BareInstance]>>

\* pod and partition labels, or the CPU placeholders when one of them is missing
buildInstanceTopology(h) ==
  LET tiers == IF Len(h.path) = 2 THEN h.path ELSE <<CpuPod, CpuPartition>>
  IN  <<Report(h.id, ClosestFirstFabricTiers(Append(tiers, CrusoeRoot)), h.domain, Empty)>>

Convert(p, h) ==
  CASE p = "aws"      -> awsConvert(h)
    [] p = "gcp"      -> gcpConvert(h)
    [] p = "oci"      -> ociConvert(h)
    [] p = "oci-imds" -> ociImdsConvert(h)
    [] p = "nebius"   -> nebiusConvert(h)
    [] p = "lambdai"  -> lambdaiConvert(h)
    [] p = "nscale"   -> nscaleConvert(h)
    [] p = "firebird" -> firebirdConvert(h)
    [] p = "crusoe"   -> buildInstanceTopology(h)

-----------------------------------------------------------------------------
(* How a provider goes through the listings of its API, a region after the *)
(* other:                                                                  *)
(*   client   made "once", per "region", or "none"                         *)
(*   region   whether a request without one is refused                     *)
(*   local    whether the API lists the hosts of the region only           *)
(*   next     what the next page is asked with: a "token", the "offset" of *)
(*            the hosts so far (an empty page is the last one), or nothing *)
(*            ("single": one call returns every host)                      *)
(*   checked  whether a token that was seen before is noticed              *)
(*   filters  whether only the hosts asked for are reported                *)
(*   whole    whether one listing serves all regions                       *)
(*   errors   the status when a call fails                                 *)

Paging == [client |-> "once", region |-> TRUE, local |-> TRUE, next |-> "token", checked |-> FALSE,
           filters |-> TRUE, whole |-> FALSE, errors |-> {502}]

awsPaging == [Paging EXCEPT !.client = "region"]

\* the library iterates over the pages; a simulation hands out tokens
gcpPaging(sim) == [Paging EXCEPT !.next = IF sim THEN "token" ELSE "single"]

\* the availability domains of a region count as one listing
ociPaging == [Paging EXCEPT !.client = "region", !.checked = TRUE]

ociImdsPaging == [Paging EXCEPT !.client = "none", !.region = FALSE, !.local = FALSE, !.next = "single",
                                !.errors = {500}]

\* a project's instances are listed for every region alike
nebiusPaging == [Paging EXCEPT !.local = FALSE]

\* lambdai and nscale report every listed host; ToGraph drops what nobody asked for
lambdaiPaging == [Paging EXCEPT !.filters = FALSE]

nscalePaging == [Paging EXCEPT !.client = "none", !.next = "offset", !.filters = FALSE]

\* firebird hands on the status of the server
firebirdPaging == [Paging EXCEPT !.client = "none", !.region = FALSE, !.local = FALSE, !.checked = TRUE,
                                 !.whole = TRUE, !.errors = {401, 404, 429, 502}]

PagingOf(p, sim) ==
  CASE p = "aws"      -> awsPaging
    [] p = "gcp"      -> gcpPaging(sim)
    [] p = "oci"      -> ociPaging
    [] p = "oci-imds" -> ociImdsPaging
    [] p = "nebius"   -> nebiusPaging
    [] p = "lambdai"  -> lambdaiPaging
    [] p = "nscale"   -> nscalePaging
    [] p = "firebird" -> firebirdPaging

PageReports(p, wanted, filters, hosts) ==
  FlattenSeq([i \in DOMAIN hosts |->
    IF filters /\ hosts[i].id \notin wanted THEN <<>> ELSE Convert(p, hosts[i])])

\* firebird refuses a page on which a host asked for has a switch without a name
BadPage(p, wanted, hosts) ==
  p = "firebird" /\ \E i \in DOMAIN hosts : hosts[i].id \in wanted /\ Empty \in ToSet(hosts[i].path)

\* a region's hosts the server lists: AWS is given the IDs unless there are too many
Listed(p, wanted, hosts) ==
  IF p = "aws" /\ Cardinality(wanted) \in 1..MaxExplicitIDs THEN hosts \cap wanted ELSE hosts

\* crusoe: the nodes to report of one region, all of them when none was named
requestedNodeIDs(cis, nodes) ==
  LET wanted == UNION {DOMAIN cis[k].instances : k \in DOMAIN cis}
  IN  IF wanted = {} THEN nodes ELSE nodes \cap wanted

-----------------------------------------------------------------------------
(* Loaders: the status of the error, 0 when the provider is built.  env    *)
(* tells what the pod's surroundings offer.                                *)

checkCredentials(payload, configured) == IF payload.keys # NoMap THEN payload ELSE configured

Has(creds, name) == <<name, 1>> \in DOMAIN creds.keys
Nonblank(creds, name) == \E k \in DOMAIN creds.keys : k[1] = name /\ creds.keys[k] = "set"
Ambiguous(creds, name) == Cardinality({k \in DOMAIN creds.keys : k[1] = name}) > 1

GetTrimTiers(trim) == IF trim \in 0..2 THEN 0 ELSE 400

\* the first error of a sequence of checks
FirstError(codes) ==
  IF \A i \in DOMAIN codes : codes[i] = 0 THEN 0
  ELSE codes[CHOOSE i \in DOMAIN codes : codes[i] # 0 /\ \A j \in 1..i - 1 : codes[j] = 0]

awsLoader(creds, env, trim) ==
  FirstError(<<IF creds.nil \/ (Has(creds, "accessKeyId") /\ Has(creds, "secretAccessKey"))
               THEN 0 ELSE 400,
               GetTrimTiers(trim)>>)

gcpLoader(creds, env, trim) ==
  FirstError(<<IF env.project THEN 0 ELSE 400, GetTrimTiers(trim)>>)

OciKeys == {"tenancyId", "userId", "region", "fingerprint", "privateKey"}

ociLoader(creds, env, trim) ==
  LET auth == IF creds.keys # NoMap THEN (IF \A k \in OciKeys : Has(creds, k) THEN 0 ELSE 400)
              ELSE (IF env.principal THEN 0 ELSE 401)
  IN  FirstError(<<auth, IF env.tenancy THEN 0 ELSE 502, GetTrimTiers(trim)>>)

NebiusKeys == {"serviceAccountId", "publicKeyId", "privateKey"}

\* request credentials, else the token of the environment, else the metadata service
nebiusLoader(creds, env, trim) ==
  LET given == {k \in NebiusKeys : Nonblank(creds, k)}
      auth  == IF given # {} THEN (IF given = NebiusKeys THEN 0 ELSE 400)
               ELSE (IF env.iamToken \/ env.imds THEN 0 ELSE 500)
  IN  FirstError(<<auth, IF env.sdk THEN 0 ELSE 401, GetTrimTiers(trim),
                   IF Nonblank(creds, "projectId") \/ env.imds THEN 0 ELSE 500>>)

\* a token that is named at all is used, and must not be blank; else the pod's identity
lambdaiLoader(creds, env, trim) ==
  LET supplied == \E k \in DOMAIN creds.keys : k[1] = "token"
  IN  FirstError(<<IF env.baseUrl THEN 0 ELSE 400,
                   IF Ambiguous(creds, "workspaceId") \/ Ambiguous(creds, "token") THEN 400 ELSE 0,
                   IF Nonblank(creds, "workspaceId") THEN 0 ELSE 400,
                   IF Nonblank(creds, "token") \/ (~supplied /\ env.identity) THEN 0 ELSE 400,
                   GetTrimTiers(trim)>>)

\* nscale takes trimTiers as it is
nscaleLoader(creds, env, trim) ==
  FirstError(<<IF env.baseUrl THEN 0 ELSE 400,
               IF Nonblank(creds, "org") /\ Nonblank(creds, "token") THEN 0 ELSE 400>>)

firebirdLoader(creds, env, trim) ==
  FirstError(<<IF env.baseUrl THEN 0 ELSE 400, GetTrimTiers(trim),
               IF Nonblank(creds, "clientId") /\ Nonblank(creds, "clientSecret") THEN 0 ELSE 400>>)

crusoeLoader(creds, env, trim) ==
  FirstError(<<GetTrimTiers(trim), IF env.inCluster THEN 0 ELSE 502>>)

LoaderCode(p, creds, env, trim) ==
  CASE p = "aws"      -> awsLoader(creds, env, trim)
    [] p = "gcp"      -> gcpLoader(creds, env, trim)
    [] p = "oci"      -> ociLoader(creds, env, trim)
    [] p = "oci-imds" -> GetTrimTiers(trim)
    [] p = "nebius"   -> nebiusLoader(creds, env, trim)
    [] p = "lambdai"  -> lambdaiLoader(creds, env, trim)
    [] p = "nscale"   -> nscaleLoader(creds, env, trim)
    [] p = "firebird" -> firebirdLoader(creds, env, trim)
    [] p = "crusoe"   -> crusoeLoader(creds, env, trim)

-----------------------------------------------------------------------------
(* Instances of the cluster's nodes, for requests that name none.          *)

\* ParsePdshOutput: lines are <<node, attribute>>; the last line of a key counts
ParsePdshOutput(lines, direct) ==
  FoldLeft(LAMBDA m, l : IF direct THEN (l[1] :> l[2]) @@ m ELSE (l[2] :> l[1]) @@ m, NoMap, lines)

\* instances whose node has a region, grouped by it; the order is that of a Go map
GroupByRegion(i2n, nodeRegions) ==
  LET known   == {i \in DOMAIN i2n : i2n[i] \in DOMAIN nodeRegions}
      regions == {nodeRegions[i2n[i]] : i \in known}
      group(r) == [i \in {j \in known : nodeRegions[i2n[j]] = r} |-> i2n[i]]
  IN  {[k \in DOMAIN s |-> [region |-> s[k], instances |-> group(s[k])]] : s \in SetToSeqs(regions)}

SelfNamedInstances(nodes, region) ==
  IF nodes = {} THEN <<>> ELSE <<[region |-> region, instances |-> [n \in nodes |-> n]]>>

GetNodeNameMap(cis) == UNION {{cis[k].instances[i] : i \in DOMAIN cis[k].instances} : k \in DOMAIN cis}
=============================================================================
