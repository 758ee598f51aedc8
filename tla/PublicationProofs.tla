-------------------------- MODULE PublicationProofs --------------------------
(***************************************************************************)
(* Proofs for Publication: the answer of a request tells what became of    *)
(* the file, the ConfigMap and the Nodes, and nobody's write is lost.      *)
(***************************************************************************)
EXTENDS Publication, TLAPS

InEngine == {"nodes", "pods", "network", "getcm", "putcm", "reconcile"}

EngineFields == {"back", "listed", "hosts", "cached", "sects", "cm", "next"}

\* the stages of an engine are those of its requests; a listing of the nodes goes back to a
\* step that needs it
Control ==
  /\ stage # "done" => status = 0
  /\ stage \in InEngine => req.engine = "slinky"
  /\ stage \in {"write", "reconfigure"} => req.engine # "slinky" /\ req.params.path
  /\ DOMAIN eng = EngineFields
  /\ stage \in {"nodes", "pods"} => eng.back \in {"resolve", "network", "reconcile"}
  /\ stage = "idle" => eng = NoEngine

FileInv ==
  /\ stage \notin {"reconfigure", "done"} => disk = "old"
  /\ stage = "reconfigure" => disk = "new"
  /\ AnswerTellsFile

(* Every step leaves the request under way, or answered, and the file as   *)
(* the answer tells.                                                       *)
LEMMA ControlStep ==
    ASSUME Control, FileInv, [Next]_vars
    PROVE  Control' /\ FileInv'
<1> USE DEF Control, FileInv, AnswerTellsFile, Slinky, InEngine, Advance, Err, Succeed, EngineFields
<1>1. CASE Read \/ LoadEngine
  BY <1>1 DEF Read, LoadEngine, NoEngine
<1>2. CASE Discover
  BY <1>2 DEF Discover, Working
<1>3. CASE Translate
  BY <1>3 DEF Translate
<1>4. CASE WriteFile
  BY <1>4 DEF WriteFile
<1>5. CASE Reconfigure
  BY <1>5 DEF Reconfigure
<1>6. CASE EngineStep
  <2>1. CASE AskForNodes
    BY <1>6, <2>1 DEF EngineStep, AskForNodes, Quiet
  <2>2. CASE ListNodes
    BY <1>6, <2>2 DEF EngineStep, ListNodes, Quiet
  <2>3. CASE ListPods
    BY <1>6, <2>3 DEF EngineStep, ListPods, Quiet
  <2>4. CASE ResolveInstances \/ ResolveTopologies \/ Generate
    BY <1>6, <2>4 DEF EngineStep, ResolveInstances, ResolveTopologies, Generate, Quiet
  <2>5. CASE GetConfigMap \/ PutConfigMap
    BY <1>6, <2>5 DEF EngineStep, GetConfigMap, PutConfigMap, Quiet
  <2>6. CASE CheckNode \/ PatchNode \/ FinishReconciliation
    BY <1>6, <2>6 DEF EngineStep, CheckNode, PatchNode, FinishReconciliation, Quiet
  <2>7. QED
    BY <1>6, <2>1, <2>2, <2>3, <2>4, <2>5, <2>6 DEF EngineStep
<1>7. CASE Others
  BY <1>7 DEF Others
<1>8. CASE UNCHANGED vars
  BY <1>8 DEF vars
<1>9. QED
  BY <1>1, <1>2, <1>3, <1>4, <1>5, <1>6, <1>7, <1>8 DEF Next, Work

-----------------------------------------------------------------------------
(* The cluster as the API server holds it, and what the engine has read:   *)
(* a version of the ConfigMap stands for its contents.                     *)
ClusterInv ==
  /\ IsCluster(kube) /\ writes \in Nat
  /\ eng.cm.ver \in 0..kube.cm.ver
  /\ eng.cm.ver = kube.cm.ver => eng.cm.data = kube.cm.data

\* a step that leaves the ConfigMap alone
KeepsConfigMap == /\ IsCluster(kube') /\ kube'.cm = kube.cm /\ kube'.broker = kube.broker
                  /\ DOMAIN kube'.nodes \subseteq DOMAIN kube.nodes

(* Whoever writes to the Nodes or the pods leaves the ConfigMap alone; the *)
(* broker leaves the specs alone.                                          *)
LEMMA NodesWritten ==
    ASSUME IsCluster(kube)
    PROVE  /\ \A n \in DOMAIN kube.nodes : \A x : kube' = [kube EXCEPT !.nodes[n].spec = x] => KeepsConfigMap
           /\ \A n \in DOMAIN kube.nodes : DeleteNode(n) => KeepsConfigMap
           /\ ChangePods => KeepsConfigMap
           /\ MoveBroker => IsCluster(kube') /\ kube'.cm = kube.cm /\ kube'.nodes = kube.nodes
           /\ \A n \in DOMAIN kube.nodes : UpdateNode(n) =>
                /\ IsCluster(kube') /\ kube'.cm = kube.cm /\ DOMAIN kube'.nodes = DOMAIN kube.nodes
                /\ \A m \in DOMAIN kube.nodes : kube'.nodes[m].spec = kube.nodes[m].spec
<1> USE DEF IsCluster, KeepsConfigMap
<1>1. ASSUME NEW n \in DOMAIN kube.nodes, NEW x, kube' = [kube EXCEPT !.nodes[n].spec = x]
      PROVE  KeepsConfigMap
  BY <1>1
<1>2. ASSUME NEW n \in DOMAIN kube.nodes, DeleteNode(n) PROVE KeepsConfigMap
  BY <1>2 DEF DeleteNode
<1>3. ChangePods => KeepsConfigMap
  BY DEF ChangePods
<1>4. MoveBroker => IsCluster(kube') /\ kube'.cm = kube.cm /\ kube'.nodes = kube.nodes
  BY DEF MoveBroker
<1>5. ASSUME NEW n \in DOMAIN kube.nodes, UpdateNode(n)
      PROVE  /\ IsCluster(kube') /\ kube'.cm = kube.cm /\ DOMAIN kube'.nodes = DOMAIN kube.nodes
             /\ \A m \in DOMAIN kube.nodes : kube'.nodes[m].spec = kube.nodes[m].spec
  <2>1. PICK x, y : kube' = [kube EXCEPT !.nodes[n].ann = x, !.broker = y]
    BY <1>5, Zenon DEF UpdateNode
  <2>2. DOMAIN kube' = DOMAIN kube /\ kube'.cm = kube.cm /\ kube'.nodes = [kube.nodes EXCEPT ![n].ann = x]
    BY <2>1
  <2>3. QED
    BY <2>2
<1>6. QED
  BY <1>1, <1>2, <1>3, <1>4, <1>5, Zenon

(* The engine writes what it has read with its own key changed, and only   *)
(* while nobody else has written.                                          *)
LEMMA ClusterStep ==
    ASSUME Control, ClusterInv, [Next]_vars
    PROVE  ClusterInv' /\ [KeepsWrites]_vars
<1> USE DEF ClusterInv
<1>c. kube.cm.ver \in Nat
  BY DEF IsCluster
<1>1. CASE Read
  BY <1>1 DEF Read, Control, NoEngine, NoConfigMap, IsCluster, KeepsWrites
<1>2. CASE UNCHANGED <<kube, writes, eng>>
  BY <1>2 DEF KeepsWrites
<1>3. CASE EngineStep /\ UNCHANGED kube
  <2>1. writes' = writes /\ eng'.cm \in {eng.cm, kube.cm}
    BY <1>3 DEF EngineStep, Control, EngineFields, Quiet, AskForNodes, ListNodes, ListPods, ResolveInstances,
                ResolveTopologies, Generate, GetConfigMap, PutConfigMap, CheckNode, PatchNode, FinishReconciliation
  <2>2. QED
    BY <1>c, <1>3, <2>1 DEF KeepsWrites
<1>4. CASE PutConfigMap /\ kube' # kube
  <2> DEFINE data == [k \in DOMAIN eng.cm.data \cup {ConfigPath} |->
                         IF k = ConfigPath THEN out.file ELSE eng.cm.data[k]]
  <2>1. /\ kube.cm.ver = eng.cm.ver /\ kube' = [kube EXCEPT !.cm = [ver |-> kube.cm.ver + 1, data |-> data]]
        /\ UNCHANGED <<eng, writes>>
    BY <1>4 DEF PutConfigMap, Quiet
  <2>2. \A k \in DOMAIN kube.cm.data \ {ConfigPath} : k \in DOMAIN data /\ data[k] = kube.cm.data[k]
    BY <2>1
  <2> HIDE DEF data
  <2>3. IsCluster(kube') /\ kube'.broker = kube.broker /\ kube'.cm = [ver |-> kube.cm.ver + 1, data |-> data]
    BY <1>c, <2>1 DEF IsCluster
  <2>4. QED
    BY <1>c, <2>1, <2>2, <2>3 DEF KeepsWrites
<1>5. CASE PatchNode /\ kube' # kube
  <2>1. PICK n \in DOMAIN kube.nodes : kube' = [kube EXCEPT !.nodes[n].spec = Wanted(n)]
    BY <1>5 DEF PatchNode
  <2>2. eng'.cm = eng.cm /\ writes' = writes
    BY <1>5 DEF PatchNode, Quiet, Control, EngineFields
  <2>3. KeepsConfigMap
    BY <2>1, NodesWritten
  <2>4. QED
    BY <2>2, <2>3 DEF KeepsConfigMap, KeepsWrites
<1>6. CASE Others
  <2>1. UNCHANGED eng
    BY <1>6 DEF Others
  <2>2. CASE MoveBroker /\ writes' = writes
    BY <2>1, <2>2, NodesWritten DEF KeepsWrites
  <2>3. CASE WriteConfigMap /\ writes' = writes + 1
    <3>1. IsCluster(kube') /\ kube'.broker = kube.broker /\ kube'.cm.ver = kube.cm.ver + 1
      BY <1>c, <2>3 DEF WriteConfigMap, IsCluster
    <3>2. QED
      BY <1>c, <2>1, <2>3, <3>1 DEF KeepsWrites
  <2>4. CASE /\ writes' = writes + 1
             /\ ChangePods \/ \E n \in DOMAIN kube.nodes : WriteSpec(n) \/ DeleteNode(n)
    <3>1. KeepsConfigMap
      BY <2>4, NodesWritten DEF WriteSpec
    <3>2. QED
      BY <2>1, <2>4, <3>1 DEF KeepsConfigMap, KeepsWrites
  <2>5. CASE writes' = writes + 1 /\ \E n \in DOMAIN kube.nodes : UpdateNode(n)
    BY <2>1, <2>5, NodesWritten DEF KeepsWrites
  <2>6. QED
    BY <1>6, <2>2, <2>3, <2>4, <2>5 DEF Others
<1>7. QED
  <2>1. CASE LoadEngine \/ Discover \/ Translate \/ WriteFile \/ Reconfigure \/ UNCHANGED vars
    BY <1>2, <2>1 DEF LoadEngine, Discover, Translate, WriteFile, Reconfigure, vars
  <2>2. EngineStep => UNCHANGED kube \/ PutConfigMap \/ PatchNode
    BY DEF EngineStep, AskForNodes, ListNodes, ListPods, ResolveInstances,
           ResolveTopologies, Generate, GetConfigMap, CheckNode, FinishReconciliation
  <2>3. QED
    BY <1>1, <1>3, <1>4, <1>5, <1>6, <2>1, <2>2 DEF Next, Work

-----------------------------------------------------------------------------
(* The ConfigMap is written before the Nodes are reconciled, and the nodes *)
(* may have to be listed in between.                                       *)
PastConfigMap == \/ stage = "reconcile"
                 \/ stage \in {"nodes", "pods"} /\ eng.back = "reconcile"
                 \/ Slinky /\ status = 200

PublishedInv ==
  /\ stage = "putcm" => ~Has(eng.cm)
  /\ PastConfigMap /\ req.params.mode # "none" =>
       /\ kube.cm.ver \in PublishedAt..PublishedAt + writes
       /\ kube.cm.ver = PublishedAt => Published

(* No step takes the output back out of the ConfigMap, but for others,     *)
(* whose every write makes a version.                                      *)
LEMMA PublishedStep ==
    ASSUME Control, ClusterInv, PublishedInv, [Next]_vars
    PROVE  PublishedInv'
<1> USE DEF PastConfigMap, Slinky, Err, Advance, Succeed, Quiet
<1>v. kube.cm.ver \in Nat /\ eng.cm.ver \in Nat /\ writes \in Nat /\ PublishedAt \in Nat
  BY DEF ClusterInv, IsCluster, PublishedAt
<1>k. ASSUME UNCHANGED <<out, eng.cm>> PROVE (Has(eng.cm))' = Has(eng.cm) /\ PublishedAt' = PublishedAt
  BY <1>k DEF Has, PublishedAt
<1>h. ASSUME UNCHANGED <<out, kube.cm>> PROVE Published' = Published
  BY <1>h DEF Has, Published
<1>n. ASSUME UNCHANGED <<req, out, eng.cm, kube.cm>>, writes' \in {writes, writes + 1},
             PastConfigMap' => PastConfigMap, stage' = "putcm" => stage = "putcm"
      PROVE  PublishedInv'
  BY <1>v, <1>k, <1>h, <1>n DEF PublishedInv
<1>0. /\ status = 200 => stage = "done"
      /\ stage \in {"write", "reconfigure"} => req.engine # "slinky"
      /\ DOMAIN eng = EngineFields
  BY DEF Control
<1>1. CASE Read \/ LoadEngine \/ Discover \/ Translate \/ WriteFile \/ Reconfigure
  BY <1>0, <1>1 DEF PublishedInv, Read, LoadEngine, Discover, Working, Translate, WriteFile, Reconfigure
<1>2. CASE Others
  <2>1. UNCHANGED <<req, out, stage, status, eng>> /\ writes' \in {writes, writes + 1}
    BY <1>2 DEF Others
  <2>2. CASE UNCHANGED kube.cm
    BY <1>n, <2>1, <2>2
  <2>3. CASE WriteConfigMap /\ writes' = writes + 1
    <3>1. kube'.cm.ver = kube.cm.ver + 1
      BY <2>3 DEF WriteConfigMap, ClusterInv, IsCluster
    <3>2. QED
      BY <1>v, <1>k, <2>1, <2>3, <3>1 DEF PublishedInv
  <2>4. \/ WriteConfigMap /\ writes' = writes + 1
        \/ MoveBroker \/ ChangePods
        \/ \E n \in DOMAIN kube.nodes : DeleteNode(n) \/ WriteSpec(n) \/ UpdateNode(n)
    BY <1>2, Zenon DEF Others
  <2>5. QED
    BY <2>2, <2>3, <2>4, NodesWritten DEF ClusterInv, KeepsConfigMap, WriteSpec
<1>3. CASE UNCHANGED vars
  BY <1>3, <1>n DEF vars
<1>4. CASE AskForNodes \/ ResolveInstances \/ ResolveTopologies
  BY <1>0, <1>4, <1>n DEF AskForNodes, ResolveInstances, ResolveTopologies, EngineFields
<1>5. CASE ListNodes \/ ListPods
  BY <1>0, <1>5, <1>n DEF ListNodes, ListPods, EngineFields, Control
<1>6. CASE Generate
  BY <1>0, <1>6 DEF Generate, PublishedInv
<1>7. CASE GetConfigMap
  <2>1. CASE stage' = "done" /\ status' \notin {0, 200}
    BY <1>0, <2>1 DEF PublishedInv
  <2>2. CASE /\ eng' = [eng EXCEPT !.cm = kube.cm] /\ UNCHANGED <<out, kube, status, writes>>
             /\ stage' = IF Published THEN "reconcile" ELSE "putcm"
    <3>1. eng'.cm = kube.cm
      BY <1>0, <2>2 DEF EngineFields
    <3>2. /\ (Has(eng.cm))' = Published /\ Published' = Published
          /\ Published => PublishedAt' = kube.cm.ver
      BY <2>2, <3>1 DEF Published, Has, PublishedAt
    <3>3. QED
      BY <1>0, <1>v, <1>7, <2>2, <3>2 DEF PublishedInv, GetConfigMap
  <2>3. QED
    BY <1>7, <2>1, <2>2 DEF GetConfigMap
<1>8. CASE PutConfigMap
  <2>1. CASE stage' = "reconcile"
    <3> DEFINE data == [k \in DOMAIN eng.cm.data \cup {ConfigPath} |->
                          IF k = ConfigPath THEN out.file ELSE eng.cm.data[k]]
    <3>1. /\ kube.cm.ver = eng.cm.ver /\ kube' = [kube EXCEPT !.cm = [ver |-> kube.cm.ver + 1, data |-> data]]
          /\ UNCHANGED <<req, out, eng, writes>> /\ stage = "putcm"
      BY <1>8, <2>1 DEF PutConfigMap
    <3>2. ConfigPath \in DOMAIN data /\ data[ConfigPath] = out.file
      OBVIOUS
    <3> HIDE DEF data
    <3>3. kube'.cm = [ver |-> kube.cm.ver + 1, data |-> data]
      BY <3>1 DEF ClusterInv, IsCluster
    <3>4. Published'
      BY <3>1, <3>2, <3>3 DEF Published, Has
    <3>5. PublishedAt' = kube'.cm.ver
      BY <1>k, <3>1, <3>3 DEF PublishedInv, PublishedAt
    <3>6. QED
      BY <1>v, <2>1, <3>1, <3>3, <3>4, <3>5 DEF PublishedInv
  <2>2. CASE stage' # "reconcile"
    BY <1>0, <1>8, <2>2 DEF PutConfigMap, PublishedInv
  <2>3. QED
    BY <2>1, <2>2
<1>9. CASE CheckNode \/ FinishReconciliation
  BY <1>0, <1>9, <1>n DEF CheckNode, FinishReconciliation, EngineFields
<1>10. CASE PatchNode
  <2>1. kube'.cm = kube.cm
    BY <1>10, NodesWritten DEF PatchNode, KeepsConfigMap, ClusterInv
  <2>2. QED
    BY <1>0, <1>10, <1>n, <2>1 DEF PatchNode, EngineFields
<1>11. QED
  BY <1>1, <1>2, <1>3, <1>4, <1>5, <1>6, <1>7, <1>8, <1>9, <1>10 DEF Next, Work, EngineStep

-----------------------------------------------------------------------------
(* While nobody else writes, a Node has the spec it was listed with until  *)
(* the reconciliation gives it the one it should have.  The Nodes before   *)
(* eng.next are done with.                                                 *)
Reconciling == eng.cached /\ stage \in {"reconcile", "done"}

Listed(l) == l.name \in DOMAIN kube.nodes => kube.nodes[l.name].spec = l.node.spec
Patched(l) == Reconciling /\ l.name \in DOMAIN eng.hosts /\
              (l.name \in DOMAIN kube.nodes => kube.nodes[l.name].spec = Wanted(l.name))
DoneWith(l) == l.name \in DOMAIN kube.nodes \cap DOMAIN eng.hosts =>
                 Wanted(l.name) \in {<<>>, kube.nodes[l.name].spec}

ListedInv ==
  /\ eng.next \in Nat /\ Len(eng.listed) \in Nat /\ DOMAIN eng.listed = 1..Len(eng.listed)
  /\ stage \in {"nodes", "pods"} => ~eng.cached
  /\ eng.next # 1 => Reconciling
  /\ writes = 0 => \A i \in DOMAIN eng.listed :
       /\ Listed(eng.listed[i]) \/ Patched(eng.listed[i])
       /\ i < eng.next => DoneWith(eng.listed[i])
  /\ Slinky /\ status = 200 /\ req.params.dynamic => \A i \in DOMAIN eng.listed : i < eng.next

(* Every step of the reconciliation is done with one more of the listed    *)
(* Nodes, and no other step of the engine touches their specs.             *)
LEMMA ListedStep ==
    ASSUME Control, ClusterInv, ListedInv, [Next]_vars
    PROVE  ListedInv'
<1> USE DEF Slinky, Err, Advance, Succeed, Quiet
<1>0. /\ status = 200 => stage = "done"
      /\ DOMAIN eng = EngineFields /\ writes \in Nat
      /\ stage \in {"nodes", "pods"} => eng.back \in {"resolve", "network", "reconcile"}
      /\ stage \in {"write", "reconfigure"} => req.engine # "slinky"
  BY DEF Control, ClusterInv
<1>1. CASE Read
  <2>1. eng = NoEngine /\ eng' = eng /\ writes' = writes
    BY <1>1 DEF Read, Control
  <2>2. QED
    BY <2>1 DEF ListedInv, NoEngine
<1>r. (eng.next # 1 => Reconciling) /\ (stage \in {"nodes", "pods"} => ~eng.cached)
  BY DEF ListedInv
<1>n. ASSUME writes' = writes, kube'.nodes = kube.nodes, eng'.listed = eng.listed, eng'.next = eng.next,
             Reconciling => Reconciling' /\ out' = out /\ eng'.hosts = eng.hosts,
             stage' \in {"nodes", "pods"} => ~eng'.cached,
             (Slinky /\ status = 200 /\ req.params.dynamic)' =>
                NoneLeft \/ (Slinky /\ status = 200 /\ req.params.dynamic)
      PROVE  ListedInv'
  <2>1. \A l : /\ Listed(l) => Listed(l)'
               /\ Patched(l) => Patched(l)'
               /\ Reconciling /\ DoneWith(l) => DoneWith(l)'
    BY <1>n DEF Listed, Patched, DoneWith, Wanted
  <2>2. QED
    BY <1>n, <1>r, <2>1 DEF ListedInv, NoneLeft
<1>2. CASE LoadEngine \/ Discover \/ Translate \/ WriteFile \/ Reconfigure
  BY <1>0, <1>2, <1>n DEF LoadEngine, Discover, Working, Translate, WriteFile, Reconfigure, Reconciling
<1>3. CASE UNCHANGED vars
  BY <1>r, <1>3, <1>n DEF vars, Reconciling
<1>4. CASE ResolveInstances \/ Generate
  BY <1>0, <1>4, <1>n DEF ResolveInstances, Generate, Reconciling
<1>5. CASE AskForNodes
  BY <1>0, <1>5, <1>n DEF AskForNodes, Reconciling, EngineFields
<1>6. CASE ResolveTopologies
  BY <1>0, <1>6, <1>n DEF ResolveTopologies, Reconciling, EngineFields
<1>7. CASE GetConfigMap
  BY <1>0, <1>7, <1>n DEF GetConfigMap, Reconciling, EngineFields
<1>8. CASE PutConfigMap
  <2>1. kube'.nodes = kube.nodes
    BY <1>8 DEF PutConfigMap, ClusterInv, IsCluster
  <2>2. QED
    BY <1>0, <1>8, <1>n, <2>1 DEF PutConfigMap, Reconciling
<1>9. CASE FinishReconciliation
  BY <1>0, <1>9, <1>n DEF FinishReconciliation, Reconciling
<1>10. CASE ListPods
  <2>1. UNCHANGED <<kube, writes>> /\ stage = "pods" /\ ~Reconciling /\ status' # 200
    BY <1>0, <1>10 DEF ListPods, Reconciling
  <2>2. eng'.listed = eng.listed /\ eng'.next = eng.next
    BY <1>0, <1>10 DEF ListPods, EngineFields
  <2>3. stage' \notin {"nodes", "pods"}
    BY <1>0, <1>10 DEF ListPods
  <2>4. QED
    BY <1>n, <2>1, <2>2, <2>3
<1>11. CASE ListNodes /\ Advance("pods")
  <2>1. eng.next = 1 /\ ~eng.cached
    BY <1>r, <1>11 DEF ListNodes, Reconciling, ListedInv
  <2>2. /\ eng'.next = 1 /\ ~eng'.cached /\ IsListing(eng'.listed) /\ kube' = kube /\ stage' = "pods"
        /\ status' # 200
    BY <1>0, <1>11, <2>1 DEF ListNodes, EngineFields
  <2>3. (\A i \in DOMAIN eng.listed : Listed(eng.listed[i]))'
    BY <2>2 DEF IsListing, Listed
  <2>4. QED
    BY <2>2, <2>3 DEF ListedInv, IsListing
<1>12. CASE ListNodes /\ Err
  BY <1>0, <1>12, <1>n DEF ListNodes, Reconciling
<1>13. CASE CheckNode
  <2>1. UNCHANGED <<kube, out, req, writes>> /\ stage' = "reconcile" /\ stage = "reconcile" /\ status' = status
    BY <1>13 DEF CheckNode
  <2>2. eng'.next = eng.next + 1 /\ UNCHANGED <<eng.listed, eng.hosts, eng.cached>> /\ eng.cached
    BY <1>0, <1>13 DEF CheckNode, EngineFields
  <2>3. \A l : /\ Listed(l) => Listed(l)'
               /\ Patched(l) => Patched(l)'
               /\ DoneWith(l) => DoneWith(l)'
               /\ UpToDate(l) /\ (Listed(l) \/ Patched(l)) => DoneWith(l)'
    BY <2>1, <2>2 DEF Listed, Patched, DoneWith, Wanted, Reconciling, UpToDate
  <2>4. UpToDate(eng.listed[eng.next])
    BY <1>13 DEF CheckNode, Current
  <2>5. QED
    BY <1>0, <2>1, <2>2, <2>3, <2>4 DEF ListedInv, Reconciling
<1>14. CASE PatchNode
  <2>1. CASE UNCHANGED <<kube, eng>>
    BY <1>0, <1>14, <1>n, <2>1 DEF PatchNode, Reconciling
  <2>2. CASE kube' = [kube EXCEPT !.nodes[Current.name].spec = Wanted(Current.name)] /\ Current.name \in DOMAIN kube.nodes
    <3> DEFINE n == Current.name
    <3>1. /\ UNCHANGED <<out, req, writes>> /\ stage' \in {"reconcile", "done"} /\ stage = "reconcile"
          /\ status' # 200 /\ n \in DOMAIN eng.hosts
      BY <1>0, <1>14 DEF PatchNode, UpToDate
    <3>2. /\ UNCHANGED <<eng.listed, eng.hosts, eng.cached>> /\ eng.cached
          /\ eng'.next \in {eng.next, eng.next + 1}
      BY <1>0, <1>14 DEF PatchNode, EngineFields
    <3>3. /\ DOMAIN kube'.nodes = DOMAIN kube.nodes /\ kube'.nodes[n].spec = Wanted(n)
          /\ \A m \in DOMAIN kube.nodes \ {n} : kube'.nodes[m] = kube.nodes[m]
      BY <2>2 DEF ClusterInv, IsCluster
    <3> HIDE DEF n
    <3>4. \A l : /\ Listed(l) \/ Patched(l) => Listed(l)' \/ Patched(l)'
                 /\ DoneWith(l) \/ l.name = n => DoneWith(l)'
      BY <3>1, <3>2, <3>3 DEF Listed, Patched, DoneWith, Wanted, Reconciling
    <3>5. eng.listed[eng.next].name = n
      BY DEF n, Current
    <3>6. QED
      BY <1>0, <3>1, <3>2, <3>4, <3>5 DEF ListedInv, Reconciling
  <2>3. QED
    BY <1>14, <2>1, <2>2 DEF PatchNode
<1>15. CASE Others
  <2>1. UNCHANGED <<req, stage, out, status, eng>>
    BY <1>15 DEF Others
  <2>2. CASE writes' = writes /\ MoveBroker
    BY <1>n, <2>1, <2>2, NodesWritten DEF ClusterInv, Reconciling, ListedInv
  <2>3. CASE writes' = writes + 1
    BY <1>0, <2>1, <2>3 DEF ListedInv, Reconciling
  <2>4. QED
    BY <1>15, <2>2, <2>3 DEF Others
<1>16. QED
  <2>1. ListNodes => Err \/ Advance("pods")
    BY DEF ListNodes
  <2>2. QED
    BY <1>1, <1>2, <1>3, <1>4, <1>5, <1>6, <1>7, <1>8, <1>9, <1>10, <1>11, <1>12, <1>13, <1>14, <1>15, <2>1
       DEF Next, Work, EngineStep

-----------------------------------------------------------------------------
Inv == Control /\ FileInv /\ ClusterInv /\ PublishedInv /\ ListedInv

(* The invariant holds before the request is read.                         *)
LEMMA InvInit == Init => Inv
<1> SUFFICES ASSUME Init PROVE Inv
  OBVIOUS
<1> USE DEF Init, NoEngine, NoConfigMap, Slinky
<1>1. Control /\ FileInv
  BY DEF Control, FileInv, AnswerTellsFile, InEngine, EngineFields
<1>2. ClusterInv
  BY DEF ClusterInv, IsCluster
<1>3. PublishedInv /\ ListedInv
  BY DEF PublishedInv, PastConfigMap, ListedInv
<1>4. QED
  BY <1>1, <1>2, <1>3 DEF Inv

(* Every step keeps the invariant, and with it nobody's write is lost.     *)
LEMMA InvStep == Inv /\ [Next]_vars => Inv' /\ [KeepsWrites]_vars
BY ControlStep, ClusterStep, PublishedStep, ListedStep DEF Inv

(* The invariant is enough for the promises.                               *)
LEMMA InvPromises == Inv => PublishedOnSuccess /\ ReconciledOnSuccess /\ AnswerTellsFile
<1> SUFFICES ASSUME Inv PROVE PublishedOnSuccess /\ ReconciledOnSuccess /\ AnswerTellsFile
  OBVIOUS
<1>1. PublishedOnSuccess
  <2>1. kube.cm.ver \in Nat /\ writes \in Nat /\ PublishedAt \in Nat
    BY DEF Inv, ClusterInv, IsCluster, PublishedAt
  <2>2. QED
    BY <2>1 DEF Inv, PublishedInv, PastConfigMap, PublishedOnSuccess
<1>2. ReconciledOnSuccess
  BY DEF Inv, ListedInv, DoneWith, ReconciledOnSuccess
<1>3. QED
  BY <1>1, <1>2 DEF Inv, FileInv

(* A request keeps what it asks for, a step is taken only for one that is  *)
(* read and not answered, and no Node is added.                            *)
LEMMA WorkKeeps ==
    ASSUME Control, ClusterInv, [Work]_vars
    PROVE  /\ req' = req /\ (stage \in {"idle", "done"} => stage' = stage)
           /\ DOMAIN kube'.nodes \subseteq DOMAIN kube.nodes
<1> USE DEF ClusterInv, IsCluster
<1>1. CASE EngineStep
  BY <1>1 DEF EngineStep, Quiet, AskForNodes, ListNodes, ListPods, ResolveInstances,
              ResolveTopologies, Generate, GetConfigMap, PutConfigMap, CheckNode, PatchNode, FinishReconciliation
<1>2. CASE LoadEngine \/ Discover \/ Translate \/ WriteFile \/ Reconfigure \/ Others \/ UNCHANGED vars
  <2>1. CASE Others
    <3>1. \/ MoveBroker \/ WriteConfigMap \/ ChangePods
          \/ \E n \in DOMAIN kube.nodes : DeleteNode(n) \/ WriteSpec(n) \/ UpdateNode(n)
      BY <2>1, Zenon DEF Others
    <3>2. WriteConfigMap => kube'.nodes = kube.nodes
      BY DEF WriteConfigMap
    <3>3. DOMAIN kube'.nodes \subseteq DOMAIN kube.nodes
      BY <3>1, <3>2, NodesWritten DEF KeepsConfigMap, WriteSpec
    <3>4. QED
      BY <2>1, <3>3 DEF Others
  <2>2. QED
    BY <1>2, <2>1 DEF LoadEngine, Discover, Working, Translate, WriteFile, Reconfigure, vars
<1>3. QED
  BY <1>1, <1>2 DEF Work

(* Whatever the topology is, however often a call fails and whoever else   *)
(* writes to the cluster: success means that the ConfigMap                 *)
(* (UpdateTopologyConfigmap) was written, whatever others write later, and *)
(* so were the Nodes (performReconciliation), if nobody else wrote to      *)
(* them; every answer tells what became of the configuration file          *)
(* (processTopologyRequest).                                               *)
THEOREM AnswersArePromises == Spec => [](PublishedOnSuccess /\ ReconciledOnSuccess /\ AnswerTellsFile)
BY InvInit, InvStep, InvPromises, PTL DEF Spec

(* The engine changes its own key of the ConfigMap only                    *)
(* (UpdateTopologyConfigmap) and the broker keeps the spec of its Node     *)
(* (apply), with any number of writes by others.                           *)
THEOREM NobodysWriteIsLost == Spec => [][KeepsWrites]_vars
BY InvInit, InvStep, PTL DEF Spec
=============================================================================
