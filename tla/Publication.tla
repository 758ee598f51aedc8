----------------------------- MODULE Publication -----------------------------
(***************************************************************************)
(* What a generate request promises about the things it writes, whatever   *)
(* the topology is: the configuration file of the slurm and graph engines, *)
(* the ConfigMap and the Nodes of the slinky engine.  Where the nodes come *)
(* from, what the provider finds and how it is translated are left open;   *)
(* so is what the others do who write to the cluster at the same time.     *)
(* SlinkyEngine is shown to implement it, with the same variables.         *)
(***************************************************************************)
EXTENDS Integers, Sequences

CONSTANTS ConfigPath,      \* the key of the topology in the ConfigMap
          SpecOf(_, _)     \* the topology spec that an output has for a host

VARIABLES req, stage, out, disk, status, kube, eng, writes

vars == <<req, stage, out, disk, status, kube, eng, writes>>

NoConfigMap == [ver |-> 0, data |-> <<>>]
NoEngine == [back |-> "none", listed |-> <<>>, hosts |-> <<>>, cached |-> FALSE, sects |-> <<>>,
             cm |-> NoConfigMap, next |-> 1]

\* the cluster an API server may hold
IsCluster(k) ==
  /\ DOMAIN k = {"nodes", "pods", "cm", "exec", "broker"}
  /\ k.cm.ver \in Nat /\ (k.cm.ver = 0 => k.cm = NoConfigMap)
  /\ \A n \in DOMAIN k.nodes : {"ann", "spec"} \subseteq DOMAIN k.nodes[n]

Init == /\ stage = "idle" /\ status = 0 /\ disk = "old"
        /\ IsCluster(kube) /\ eng = NoEngine /\ writes = 0

Slinky == stage # "idle" /\ req.engine = "slinky"

Advance(next) == stage' = next /\ status' = status
Err           == stage' = "done" /\ status' \notin {0, 200}
Succeed       == stage' = "done" /\ status' = 200

-----------------------------------------------------------------------------
(* The request, and the engines that write a file.                         *)

Read == /\ stage = "idle" /\ IsCluster(kube') /\ UNCHANGED <<out, disk, eng, writes>>
        /\ Err \/ Advance("engine")

LoadEngine == /\ stage = "engine" /\ (Err \/ Advance("load"))
              /\ UNCHANGED <<req, out, disk, kube, eng, writes>>

Working == {"load", "resolve", "connect", "discover"}

Discover == /\ stage \in Working /\ UNCHANGED <<req, out, disk, kube, eng, writes>>
            /\ Err \/ \E next \in (Working \ {"load"}) \cup {"translate"} : Advance(next)

Translate == /\ stage = "translate" /\ req.engine # "slinky" /\ UNCHANGED <<req, disk, kube, eng, writes>>
             /\ Err \/ IF req.params.path THEN Advance("write") ELSE Succeed

\* an error may leave the file as it was, or empty
WriteFile == /\ stage = "write" /\ UNCHANGED <<req, out, kube, eng, writes>>
             /\ \/ stage' = "done" /\ status' = 500 /\ disk' \in {disk, "truncated"}
                \/ disk' = "new" /\ (Succeed \/ Advance("reconfigure"))

Reconfigure == /\ stage = "reconfigure" /\ UNCHANGED <<req, out, disk, kube, eng, writes>>
               /\ stage' = "done" /\ status' \in {200, 500}

-----------------------------------------------------------------------------
(* The slinky engine.  It lists the nodes once, when it needs them first.  *)

Quiet == UNCHANGED <<req, disk, writes>>

AskForNodes == /\ stage \in {"resolve", "network", "reconcile"} /\ ~eng.cached /\ Advance("nodes")
               /\ eng' = [eng EXCEPT !.back = stage] /\ Quiet /\ UNCHANGED <<out, kube>>

\* every listed Node that is there has the spec it is listed with
IsListing(listed) ==
  /\ Len(listed) \in Nat /\ DOMAIN listed = 1..Len(listed)
  /\ \A i \in DOMAIN listed : LET n == listed[i].name
                              IN  n \in DOMAIN kube.nodes => listed[i].node.spec = kube.nodes[n].spec

ListNodes == /\ stage = "nodes" /\ Quiet /\ UNCHANGED <<out, kube>>
             /\ \/ Err /\ UNCHANGED eng
                \/ Advance("pods") /\ IsListing(eng'.listed) /\ eng' = [eng EXCEPT !.listed = eng'.listed]

ListPods == /\ stage = "pods" /\ Quiet /\ UNCHANGED <<out, kube>>
            /\ \/ Err /\ UNCHANGED eng
               \/ Advance(eng.back) /\ eng' = [eng EXCEPT !.hosts = eng'.hosts, !.cached = TRUE]

ResolveInstances == stage = "resolve" /\ Advance("connect") /\ Quiet /\ UNCHANGED <<out, kube, eng>>

ResolveTopologies == /\ stage = "translate" /\ Quiet /\ UNCHANGED <<out, kube>>
                     /\ \/ Err /\ UNCHANGED eng
                        \/ /\ \E next \in {"translate", "network"} : Advance(next)
                           /\ eng' = [eng EXCEPT !.sects = eng'.sects]

Generate == /\ stage = "network" /\ Quiet /\ UNCHANGED <<kube, eng>>
            /\ Err \/ Advance(IF req.params.mode = "none" THEN "reconcile" ELSE "getcm")

\* a ConfigMap has the output; a missing key reads as an empty one
Has(cm) == IF ConfigPath \in DOMAIN cm.data THEN cm.data[ConfigPath] = out.file
           ELSE cm.ver # 0 /\ out.file = [kind |-> "tree", lines |-> <<>>]
Published == Has(kube.cm)

GetConfigMap == /\ stage = "getcm" /\ Quiet /\ UNCHANGED <<out, kube>>
                /\ \/ Err /\ UNCHANGED eng
                   \/ /\ eng' = [eng EXCEPT !.cm = kube.cm]
                      /\ Advance(IF Published THEN "reconcile" ELSE "putcm")

\* what was read, with the output in it, unless the ConfigMap has changed; the write may be
\* done although the call fails
PutConfigMap ==
  /\ stage = "putcm" /\ Quiet /\ UNCHANGED <<out, eng>>
  /\ \/ Err /\ UNCHANGED kube
     \/ /\ kube.cm.ver = eng.cm.ver
        /\ kube' = [kube EXCEPT !.cm =
             [ver  |-> kube.cm.ver + 1,
              data |-> [k \in DOMAIN eng.cm.data \cup {ConfigPath} |->
                         IF k = ConfigPath THEN out.file ELSE eng.cm.data[k]]]]
        /\ Err \/ Advance("reconcile")

NoneLeft == eng.next > Len(eng.listed)
Current == eng.listed[eng.next]
Wanted(n) == SpecOf(out, eng.hosts[n])

\* by the annotation that was listed
UpToDate(l) == l.name \notin DOMAIN eng.hosts \/ Wanted(l.name) \in {<<>>, l.node.spec}

CheckNode == /\ stage = "reconcile" /\ eng.cached /\ ~NoneLeft /\ UpToDate(Current)
             /\ Advance("reconcile") /\ eng' = [eng EXCEPT !.next = @ + 1] /\ Quiet /\ UNCHANGED <<out, kube>>

PatchNode ==
  /\ stage = "reconcile" /\ eng.cached /\ ~NoneLeft /\ ~UpToDate(Current) /\ Quiet /\ UNCHANGED out
  /\ \/ Err /\ UNCHANGED <<kube, eng>>
     \/ /\ Current.name \in DOMAIN kube.nodes
        /\ kube' = [kube EXCEPT !.nodes[Current.name].spec = Wanted(Current.name)]
        /\ \/ Err /\ UNCHANGED eng
           \/ Advance("reconcile") /\ eng' = [eng EXCEPT !.next = @ + 1]

FinishReconciliation ==
  /\ stage = "reconcile" /\ Succeed /\ Quiet /\ UNCHANGED <<out, kube, eng>>
  /\ req.params.dynamic => eng.cached /\ NoneLeft

EngineStep == Slinky /\ (\/ AskForNodes \/ ListNodes \/ ListPods
                         \/ ResolveInstances \/ ResolveTopologies \/ Generate
                         \/ GetConfigMap \/ PutConfigMap
                         \/ CheckNode \/ PatchNode \/ FinishReconciliation)

-----------------------------------------------------------------------------
(* The others: the ConfigMap, a Node or the pods change, or the broker of  *)
(* a Node takes a step, which changes annotations but not the spec.        *)

WriteConfigMap == kube' = [kube EXCEPT !.cm = [ver |-> kube.cm.ver + 1, data |-> kube'.cm.data]]
WriteSpec(n)   == kube' = [kube EXCEPT !.nodes[n].spec = kube'.nodes[n].spec]
DeleteNode(n)  == kube' = [kube EXCEPT !.nodes = [m \in DOMAIN kube.nodes \ {n} |-> kube.nodes[m]]]
ChangePods     == kube' = [kube EXCEPT !.pods = kube'.pods]
MoveBroker     == kube' = [kube EXCEPT !.broker = kube'.broker]
UpdateNode(n)  == kube' = [kube EXCEPT !.nodes[n].ann = kube'.nodes[n].ann, !.broker = kube'.broker]

Others ==
  /\ Slinky /\ stage \in {"nodes", "pods", "translate", "network", "getcm", "putcm", "reconcile"}
  /\ \/ writes' = writes /\ MoveBroker
     \/ /\ writes' = writes + 1
        /\ \/ WriteConfigMap \/ ChangePods
           \/ \E n \in DOMAIN kube.nodes : \/ DeleteNode(n)
                                           \/ n \in DOMAIN kube'.nodes /\ (WriteSpec(n) \/ UpdateNode(n))
  /\ UNCHANGED <<req, stage, out, disk, status, eng>>

\* what happens to a request once it is read
Work == LoadEngine \/ Discover \/ Translate \/ WriteFile \/ Reconfigure \/ EngineStep \/ Others

Next == Read \/ Work

Spec == Init /\ [][Next]_vars

-----------------------------------------------------------------------------
\* the version of the ConfigMap that was read with the output in it, or written
PublishedAt == IF Has(eng.cm) THEN eng.cm.ver ELSE eng.cm.ver + 1

\* Success means that the topology is published (UpdateTopologyConfigmap): unless it was
\* told to leave the ConfigMap alone, a version of it has had this request's output,
\* whatever was there before and however often the nodes were listed, and if the output is
\* not there any more, others have written since.
PublishedOnSuccess ==
  Slinky /\ status = 200 /\ req.params.mode # "none" =>
    Published \/ kube.cm.ver \in PublishedAt + 1..PublishedAt + writes

\* Success means that the Nodes are reconciled (performReconciliation): with dynamic nodes,
\* and unless someone else wrote, every Node that was listed, is still there and runs a
\* slurmd has the spec the output has for its host, if it has one.  None is passed over
\* because of an annotation that was listed and then changed.
ReconciledOnSuccess ==
  Slinky /\ status = 200 /\ req.params.dynamic /\ writes = 0 =>
    \A i \in DOMAIN eng.listed :
      LET n == eng.listed[i].name
      IN  n \in DOMAIN kube.nodes \cap DOMAIN eng.hosts => Wanted(n) \in {<<>>, kube.nodes[n].spec}

\* The answer tells what became of the configuration file (processTopologyRequest and the
\* engines' GenerateOutput): after success it is the new one if a path was given, and the
\* old one if not; an error other than 500 left it alone, and so does the slinky engine.
AnswerTellsFile ==
  /\ status = 200 /\ req.engine # "slinky" => disk = IF req.params.path THEN "new" ELSE "old"
  /\ status \notin {0, 200, 500} => disk = "old"
  /\ Slinky => disk = "old"

\* Nobody's write is lost: the engine changes its own key of the ConfigMap only
\* (UpdateTopologyConfigmap), and the broker's update of a Node (apply) keeps the spec.
KeepsWrites ==
  stage # "idle" =>
    /\ kube'.cm # kube.cm /\ writes' = writes =>
         \A k \in DOMAIN kube.cm.data \ {ConfigPath} :
           k \in DOMAIN kube'.cm.data /\ kube'.cm.data[k] = kube.cm.data[k]
    /\ kube'.broker # kube.broker =>
         /\ DOMAIN kube'.nodes = DOMAIN kube.nodes
         /\ \A n \in DOMAIN kube.nodes : kube'.nodes[n].spec = kube.nodes[n].spec
=============================================================================
