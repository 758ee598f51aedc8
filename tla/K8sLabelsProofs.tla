-------------------------- MODULE K8sLabelsProofs ---------------------------
(***************************************************************************)
(* The Kubernetes engine writes no label but its own and touches no Node   *)
(* outside the selection, and what a successful generation leaves is what  *)
(* its graph says: for all Nodes, keys, graphs, handlers and writes of     *)
(* other controllers.                                                      *)
(***************************************************************************)
EXTENDS K8sLabels, TLAPS

(* The steps are first-order, and Zenon proves them, but for the ones that *)
(* say SMT.                                                                *)
USE Zenon

(* Labels of all Nodes; the values are anything.                           *)
Shaped(f) == f = [n \in Nodes |-> [k \in Keys |-> f[n][k]]]

(* Something of each handler, and its listing.                             *)
Keyed(f) == f = [h \in Handlers |-> f[h]]
OneListing(c) ==
    /\ c = [n \in Nodes |-> c[n]]
    /\ \A n \in Nodes : c[n].kind \in {"absent", "deferred", "node"}
Listings(c) == Keyed(c) /\ \A h \in Handlers : OneListing(c[h])

(* The variables are functions.                                            *)
Shape ==
    /\ Shaped(labels) /\ Shaped(foreign) /\ Listings(cache)
    /\ Keyed(pc) /\ Keyed(gen) /\ Keyed(todo) /\ Keyed(target) /\ Keyed(alone)

(* A handler is at a Node it has labels for, and has fetched it.           *)
AtNode ==
    \A h \in Handlers :
        /\ DOMAIN gen[h] \subseteq Nodes
        /\ todo[h] \subseteq DOMAIN gen[h]
        /\ pc[h] \in {"resolve", "generate"} => DOMAIN gen[h] = {}
        /\ pc[h] \in {"resolve", "generate", "ok"} => todo[h] = {}
        /\ pc[h] = "patch" => /\ target[h] \in DOMAIN gen[h]
                              /\ cache[h][target[h]].kind # "deferred"

(* The labels it wants are under the engine's keys.                        *)
ManagedOnly ==
    \A h \in Handlers : \A n \in DOMAIN gen[h] : \A k \in Keys \ Managed :
        gen[h][n][k] = None

(* A Node that matches the selector, now or when it was read, did so once. *)
EverIn ==
    /\ Listed \subseteq everIn
    /\ \A h \in Handlers, n \in Nodes :
         cache[h][n].kind = "node" /\ Matches(cache[h][n].labels) => n \in everIn

SafeInv ==
    /\ Shape /\ AtNode /\ ManagedOnly /\ EverIn
    /\ ForeignLabelsPreserved /\ OutsideSelectionPreserved

-----------------------------------------------------------------------------
(* What one handler does to its own part of a variable.                    *)
Updated(f, g, h, v) == g = [f EXCEPT ![h] = v]

LEMMA UpdateShape ==
    ASSUME NEW f, NEW g, NEW h, NEW v, Updated(f, g, h, v), Keyed(f), h \in Handlers
    PROVE  Keyed(g) /\ g[h] = v /\ \A i \in Handlers \ {h} : g[i] = f[i]
BY DEF Keyed, Updated

(* A new listing.                                                          *)
LEMMA ListingShape ==
    ASSUME NEW f, NEW g, NEW h, NEW c, Updated(f, g, h, c), Listings(f), h \in Handlers,
           OneListing(c)
    PROVE  Listings(g) /\ g[h] = c /\ \A i \in Handlers \ {h} : g[i] = f[i]
<1>1. Keyed(g) /\ g[h] = c /\ \A i \in Handlers \ {h} : g[i] = f[i]
  BY UpdateShape, SMT DEF Listings
<1>2. \A i \in Handlers : OneListing(g[i])
  BY <1>1 DEF Listings
<1>3. QED
  BY <1>1, <1>2 DEF Listings

(* One Node of a listing is read again.                                    *)
Reread(f, g, h, n, l) == g = [f EXCEPT ![h][n] = Cached(l)]

LEMMA ReadShape ==
    ASSUME NEW f, NEW g, NEW h, NEW n, NEW l, Reread(f, g, h, n, l), Listings(f),
           h \in Handlers, n \in Nodes
    PROVE  /\ Listings(g) /\ \A i \in Handlers \ {h} : g[i] = f[i]
           /\ \A m \in Nodes : g[h][m] = IF m = n THEN Cached(l) ELSE f[h][m]
<1> DEFINE c == [f[h] EXCEPT ![n] = Cached(l)]
<1>1. Updated(f, g, h, c)
  BY DEF Updated, Reread
<1>2. /\ f[h] = [m \in Nodes |-> f[h][m]]
      /\ \A m \in Nodes : f[h][m].kind \in {"absent", "deferred", "node"}
  BY DEF Listings, OneListing
<1>3. c = [m \in Nodes |-> c[m]]
  BY <1>2
<1>4. \A m \in Nodes : c[m] = IF m = n THEN Cached(l) ELSE f[h][m]
  BY <1>2
<1> HIDE DEF c
<1>5. OneListing(c)
  <2>1. Cached(l).kind = "node"
    BY DEF Cached
  <2>2. QED
    BY <1>2, <1>3, <1>4, <2>1 DEF OneListing
<1>6. Listings(g) /\ g[h] = c /\ \A i \in Handlers \ {h} : g[i] = f[i]
  BY <1>1, <1>5, ListingShape, SMT
<1>7. QED
  BY <1>4, <1>6

-----------------------------------------------------------------------------
(* What BuildNodeLabels gives a node is under keys of the engine.          *)
LEMMA BuiltAreManaged ==
    ASSUME NEW g \in Graphs, NEW n \in Labelled(g), NEW k \in Keys \ Managed
    PROVE  BuildNodeLabels(g)[n][k] = None
<1>1. k # NoKey /\ k \notin {DomainKey, SubKey}
  BY DEF Keys, Managed
<1>2. ASSUME n \in DOMAIN g.paths, NEW i \in DOMAIN g.paths[n]
      PROVE  FabricKey(i) # k
  <2>1. i \in DOMAIN TierKeys
    BY <1>2, GraphsAssumption
  <2>2. QED
    BY <1>1, <2>1 DEF FabricKey, Managed, ToSet
<1>3. TierLabel(g, n, k) = None
  BY <1>2 DEF TierLabel
<1>4. QED
  BY <1>1, <1>3 DEF BuildNodeLabels

(* A label that is not the engine's is kept by the merge, and not patched. *)
LEMMA MergeKeepsForeign ==
    ASSUME NEW current, NEW new, NEW k \in Keys \ Managed, new[k] = None
    PROVE  /\ MergeNodeLabels(current, new)[k] = current[k]
           /\ k \notin NodeLabelPatch(current, MergeNodeLabels(current, new))
<1>1. Provided(current, new, k) = None
  BY DEF Provided
<1>2. MergeNodeLabels(current, new)[k] = current[k]
  BY <1>1 DEF MergeNodeLabels
<1>3. QED
  BY <1>2 DEF NodeLabelPatch

(* A patch changes the engine's labels of a Node in the selection only.    *)
LEMMA PatchIsSafe ==
    ASSUME SafeInv, NEW h \in Handlers, pc[h] = "patch", AddNodeLabels(h)
    PROVE  /\ Shaped(labels') /\ Listings(cache') /\ Keyed(alone')
           /\ \A n \in Nodes, k \in Keys \ Managed : labels'[n][k] = labels[n][k]
           /\ \A n \in Nodes \ everIn : labels'[n] = labels[n]
           /\ \A i \in Handlers \ {h} : cache'[i] = cache[i]
           /\ \A n \in Nodes :
                cache'[h][n].kind = "node" /\ Matches(cache'[h][n].labels) => n \in everIn
<1> DEFINE t       == target[h]
           node    == cache[h][t]
           desired == MergeNodeLabels(node.labels, gen[h][t])
           patch   == NodeLabelPatch(node.labels, desired)
           skip    == node.kind = "absent" \/ ~MatchesNodeSelector(node.labels) \/ desired = node.labels
           patched == [k \in Keys |-> IF k \in patch THEN desired[k] ELSE labels[t][k]]
<1>1. t \in Nodes /\ t \in DOMAIN gen[h] /\ node.kind # "deferred"
  BY DEF SafeInv, AtNode
<1>2. Shaped(labels) /\ Listings(cache) /\ Keyed(alone)
  BY DEF SafeInv, Shape
<1>3. CASE skip
  <2>1. labels' = labels /\ cache' = cache /\ alone' = alone
    BY <1>3 DEF AddNodeLabels
  <2> HIDE DEF desired, patch, skip, patched
  <2>2. QED
    BY <1>2, <2>1 DEF SafeInv, EverIn
<1>4. CASE ~skip
  <2>1. /\ labels' = [labels EXCEPT ![t] = patched]
        /\ Reread(cache, cache', h, t, desired)
        /\ alone' = [i \in Handlers |-> i = h /\ alone[i]]
    BY <1>4 DEF AddNodeLabels, Reread
  <2>2. \A k \in Keys \ Managed : k \notin patch
    <3>1. \A k \in Keys \ Managed : gen[h][t][k] = None
      BY <1>1 DEF SafeInv, ManagedOnly
    <3>2. QED
      BY <3>1, MergeKeepsForeign
  <2>3. patched = [k \in Keys |-> patched[k]] /\ \A k \in Keys \ patch : patched[k] = labels[t][k]
    OBVIOUS
  <2>4. t \in everIn
    BY <1>1, <1>2, <1>4 DEF MatchesNodeSelector, SafeInv, EverIn, Listings, OneListing
  <2> HIDE DEF desired, patch, skip, patched
  <2>5. labels' = [n \in Nodes |-> labels'[n]] /\ \A n \in Nodes : labels'[n] = IF n = t THEN patched ELSE labels[n]
    BY <1>1, <1>2, <2>1 DEF Shaped
  <2>6. Shaped(labels')
    <3>1. \A n \in Nodes : labels[n] = [k \in Keys |-> labels[n][k]]
      BY <1>2 DEF Shaped
    <3>2. \A n \in Nodes : labels'[n] = [k \in Keys |-> labels'[n][k]]
      BY <2>3, <2>5, <3>1
    <3>3. QED
      BY <2>5, <3>2 DEF Shaped
  <2>7. \A n \in Nodes, k \in Keys \ Managed : labels'[n][k] = labels[n][k]
    <3> TAKE n \in Nodes, k \in Keys \ Managed
    <3>1. patched[k] = labels[t][k]
      BY <2>2, <2>3
    <3>2. QED
      BY <2>5, <3>1
  <2>8. /\ Listings(cache') /\ \A i \in Handlers \ {h} : cache'[i] = cache[i]
        /\ \A n \in Nodes : cache'[h][n] = IF n = t THEN Cached(desired) ELSE cache[h][n]
    <3>1. Listings(cache) /\ Reread(cache, cache', h, t, desired)
      BY <1>2, <2>1
    <3>2. QED
      BY <1>1, <3>1, ReadShape, SMT
  <2>9. \A n \in Nodes \ everIn : labels'[n] = labels[n]
    BY <2>4, <2>5
  <2>10. \A n \in Nodes :
           cache'[h][n].kind = "node" /\ Matches(cache'[h][n].labels) => n \in everIn
    BY <2>4, <2>8 DEF SafeInv, EverIn
  <2>11. Keyed(alone')
    BY <2>1 DEF Keyed
  <2>12. QED
    BY <2>6, <2>7, <2>8, <2>9, <2>10, <2>11
<1>5. QED
  BY <1>3, <1>4

(* Nobody's label under a foreign key, nor the selection, is changed by    *)
(* such a patch.                                                           *)
LEMMA PatchKeepsSafe ==
    ASSUME SafeInv, NEW h \in Handlers, pc[h] = "patch", AddNodeLabels(h),
           UNCHANGED <<gen, todo, target, foreign, everIn>>,
           \E l \in {"ok", "apply", "failed"} : Set(pc, h, l),
           pc'[h] = "ok" => todo[h] = {}
    PROVE  SafeInv'
<1>1. PICK l \in {"ok", "apply", "failed"} : Updated(pc, pc', h, l)
  BY DEF Set, Updated
<1>2. Keyed(pc') /\ pc'[h] = l /\ \A i \in Handlers \ {h} : pc'[i] = pc[i]
  BY <1>1, UpdateShape, SMT DEF SafeInv, Shape
<1>3. Shape'
  BY <1>2, PatchIsSafe DEF SafeInv, Shape
<1>4. AtNode'
  <2>1. \A i \in Handlers \ {h} : cache'[i] = cache[i]
    BY PatchIsSafe
  <2>2. QED
    BY <1>2, <2>1 DEF SafeInv, AtNode
<1>5. ManagedOnly'
  BY DEF SafeInv, ManagedOnly
<1>6. ForeignLabelsPreserved'
  BY PatchIsSafe DEF SafeInv, ForeignLabelsPreserved
<1>7. Pool \in Keys \ Managed
  BY KeysAssumption DEF Keys
<1>8. Listed' = Listed
  BY <1>7, PatchIsSafe DEF Listed, Matches
<1>9. EverIn'
  <2>1. /\ \A i \in Handlers \ {h} : cache'[i] = cache[i]
        /\ \A n \in Nodes :
             cache'[h][n].kind = "node" /\ Matches(cache'[h][n].labels) => n \in everIn
    BY PatchIsSafe
  <2>2. QED
    BY <1>8, <2>1 DEF SafeInv, EverIn
<1>10. OutsideSelectionPreserved'
  BY PatchIsSafe, SMT DEF SafeInv, OutsideSelectionPreserved
<1>11. QED
  BY <1>3, <1>4, <1>5, <1>6, <1>9, <1>10 DEF SafeInv

(* The listing a handler makes: what it holds of a Node is what it reads.  *)
LEMMA ListingReads ==
    ASSUME NEW names
    PROVE  /\ OneListing(Listing(names))
           /\ \A n \in Nodes : Listing(names)[n].kind = "node" =>
                n \in Listed /\ Listing(names)[n].labels = labels[n]
BY DEF OneListing, Listing, Absent, Deferred, Cached

LEMMA NothingListed ==
    /\ OneListing([n \in Nodes |-> Absent])
    /\ \A n \in Nodes : [m \in Nodes |-> Absent][n].kind # "node"
BY DEF OneListing, Absent

(* A handler that turns to a Node reads it if it has not yet.              *)
LEMMA PickReads ==
    ASSUME Listings(cache), NEW h \in Handlers, NEW n \in Nodes, PickNode(h, n)
    PROVE  /\ Listings(cache') /\ cache'[h][n].kind # "deferred"
           /\ \A i \in Handlers \ {h} : cache'[i] = cache[i]
           /\ \A m \in Nodes :
                cache'[h][m] = cache[h][m] \/ (m = n /\ cache'[h][m] = Cached(labels[n]))
<1>1. CASE cache[h][n].kind = "deferred"
  <2>1. Reread(cache, cache', h, n, labels[n])
    BY <1>1 DEF PickNode, Reread
  <2>2. /\ Listings(cache') /\ \A i \in Handlers \ {h} : cache'[i] = cache[i]
        /\ \A m \in Nodes : cache'[h][m] = IF m = n THEN Cached(labels[n]) ELSE cache[h][m]
    BY <2>1, ReadShape, SMT
  <2>3. cache'[h][n].kind # "deferred"
    BY <2>2, SMT DEF Cached
  <2>4. QED
    BY <2>2, <2>3
<1>2. CASE cache[h][n].kind # "deferred"
  <2>1. cache' = cache
    BY <1>2 DEF PickNode
  <2>2. QED
    BY <1>2, <2>1
<1>3. QED
  BY <1>1, <1>2

(* One label of one Node is written.                                       *)
Wrote(f, g, n, k, v) == g = [f EXCEPT ![n][k] = v]

(* It is the only one that changes.                                        *)
LEMMA WriteShape ==
    ASSUME NEW f, NEW g, NEW n, NEW k, NEW v, Wrote(f, g, n, k, v), Shaped(f),
           n \in Nodes, k \in Keys
    PROVE  /\ Shaped(g)
           /\ \A m \in Nodes, j \in Keys : g[m][j] = IF m = n /\ j = k THEN v ELSE f[m][j]
           /\ \A m \in Nodes : m # n => g[m] = f[m]
<1>1. f = [m \in Nodes |-> f[m]] /\ \A m \in Nodes : f[m] = [j \in Keys |-> f[m][j]]
  BY DEF Shaped
<1>2. g = [m \in Nodes |-> g[m]] /\ \A m \in Nodes : g[m] = IF m = n THEN [f[n] EXCEPT ![k] = v] ELSE f[m]
  BY <1>1 DEF Wrote
<1>3. \A m \in Nodes : g[m] = [j \in Keys |-> g[m][j]]
  BY <1>1, <1>2
<1>4. Shaped(g)
  BY <1>2, <1>3 DEF Shaped
<1>5. \A m \in Nodes, j \in Keys : g[m][j] = IF m = n /\ j = k THEN v ELSE f[m][j]
  BY <1>1, <1>2, SMT
<1>6. QED
  BY <1>2, <1>4, <1>5

(* The initial states.                                                     *)
LEMMA InitIsSafe == Init => SafeInv
<1> SUFFICES ASSUME Init PROVE SafeInv
  OBVIOUS
<1> USE DEF Init
<1>1. labels = [n \in Nodes |-> labels[n]] /\ \A n \in Nodes : labels[n] = [k \in Keys |-> labels[n][k]]
  BY LabelsAssumption
<1>2. Shaped(labels)
  BY <1>1 DEF Shaped
<1>3. Shape
  <2>1. Listings(cache)
    BY NothingListed DEF Listings, Keyed
  <2>2. QED
    BY <1>2, <2>1 DEF Shape, Keyed
<1>4. AtNode /\ ManagedOnly
  BY DEF AtNode, ManagedOnly, NoNodes
<1>5. EverIn
  BY DEF EverIn, Absent
<1>6. QED
  BY <1>3, <1>4, <1>5 DEF SafeInv, ForeignLabelsPreserved, OutsideSelectionPreserved

(* Every step.                                                             *)
LEMMA StepIsSafe == SafeInv /\ [Next]_vars => SafeInv'
<1> SUFFICES ASSUME SafeInv, [Next]_vars PROVE SafeInv'
  OBVIOUS
<1>0. Pool \in Keys \ Managed
  BY KeysAssumption DEF Keys
<1>9. /\ Keyed(pc) /\ Keyed(gen) /\ Keyed(todo) /\ Keyed(target) /\ Keyed(alone)
      /\ Shaped(labels) /\ Shaped(foreign) /\ Listings(cache)
  BY DEF SafeInv, Shape
<1>1. ASSUME NEW h \in Handlers, ResolveComputeInstances(h) PROVE SafeInv'
  <2>1. PICK names, c : /\ c = IF request[h].resolve THEN Listing(names) ELSE [n \in Nodes |-> Absent]
                        /\ Updated(cache, cache', h, c)
    BY <1>1 DEF ResolveComputeInstances, Set, Updated
  <2>2. /\ pc[h] = "resolve" /\ Updated(pc, pc', h, "generate") /\ alone' = [alone EXCEPT ![h] = TRUE]
        /\ UNCHANGED <<labels, gen, todo, target, foreign, everIn>>
    BY <1>1 DEF ResolveComputeInstances, Set, Updated
  <2>3. Keyed(pc') /\ pc'[h] = "generate" /\ \A i \in Handlers \ {h} : pc'[i] = pc[i]
    BY <1>9, <2>2, UpdateShape, SMT
  <2>4. Keyed(alone')
    BY <1>9, <2>2 DEF Keyed
  <2>5. /\ OneListing(c)
        /\ \A n \in Nodes : c[n].kind = "node" => n \in Listed
    <3>1. CASE request[h].resolve
      BY <2>1, <3>1, ListingReads
    <3>2. CASE ~request[h].resolve
      BY <2>1, <3>2, NothingListed
    <3>3. QED
      BY <3>1, <3>2
  <2>6. Listings(cache') /\ cache'[h] = c /\ \A i \in Handlers \ {h} : cache'[i] = cache[i]
    BY <1>9, <2>1, <2>5, ListingShape, SMT
  <2>7. Shape'
    BY <2>2, <2>3, <2>4, <2>6 DEF SafeInv, Shape
  <2>8. AtNode'
    BY <2>2, <2>3, <2>6 DEF SafeInv, AtNode
  <2>9. EverIn'
    <3>1. Listed' = Listed
      BY <2>2 DEF Listed
    <3>2. QED
      BY <2>2, <2>5, <2>6, <3>1 DEF SafeInv, EverIn
  <2>10. QED
    BY <2>2, <2>7, <2>8, <2>9 DEF SafeInv, ManagedOnly, ForeignLabelsPreserved, OutsideSelectionPreserved
<1>2. ASSUME NEW h \in Handlers, GenerateOutput(h) PROVE SafeInv'
  <2>0. PICK g \in Graphs :
          LET nodes == IF loaded[h] THEN cache[h] ELSE Listing(Listed)
              left == {n \in Nodes : nodes[n].kind = "node"} \ Labelled(g)
              new == [n \in Labelled(g) \cup left |->
                        IF n \in left THEN NoLabels ELSE BuildNodeLabels(g)[n]]
          IN  \/ /\ Updated(pc, pc', h, "ok") /\ Updated(gen, gen', h, NoNodes)
                 /\ UNCHANGED <<cache, todo, alone>>
              \/ /\ Updated(pc, pc', h, IF DOMAIN new = {} THEN "ok" ELSE "apply")
                 /\ Updated(gen, gen', h, new) /\ Updated(todo, todo', h, DOMAIN new)
                 /\ Updated(cache, cache', h, nodes)
                 /\ alone' = [alone EXCEPT ![h] = IF loaded[h] THEN alone[h] ELSE TRUE]
    BY <1>2, Zenon DEF GenerateOutput, Set, Updated
  <2> DEFINE nodes == IF loaded[h] THEN cache[h] ELSE Listing(Listed)
             left  == {n \in Nodes : nodes[n].kind = "node"} \ Labelled(g)
             new   == [n \in Labelled(g) \cup left |->
                        IF n \in left THEN NoLabels ELSE BuildNodeLabels(g)[n]]
  <2>1. /\ nodes = cache[h] \/ nodes = Listing(Listed)
        /\ DOMAIN new = Labelled(g) \cup left /\ left \subseteq Nodes
        /\ \A n \in DOMAIN new : \/ new[n] = NoLabels
                                 \/ n \in Labelled(g) /\ new[n] = BuildNodeLabels(g)[n]
        /\ \/ /\ Updated(pc, pc', h, "ok") /\ Updated(gen, gen', h, NoNodes)
              /\ UNCHANGED <<cache, todo, alone>>
           \/ /\ Updated(pc, pc', h, IF DOMAIN new = {} THEN "ok" ELSE "apply")
              /\ Updated(gen, gen', h, new) /\ Updated(todo, todo', h, DOMAIN new)
              /\ Updated(cache, cache', h, nodes)
              /\ alone' = [alone EXCEPT ![h] = IF loaded[h] THEN alone[h] ELSE TRUE]
    BY <2>0
  <2> HIDE DEF nodes, left, new
  <2>2. pc[h] = "generate" /\ UNCHANGED <<labels, target, foreign, everIn>>
    BY <1>2 DEF GenerateOutput
  <2>3. /\ ForeignLabelsPreserved' /\ OutsideSelectionPreserved' /\ Listed' = Listed
        /\ Shaped(labels') /\ Shaped(foreign') /\ Keyed(target')
    <3>1. Listed' = Listed
      BY <2>2 DEF Listed
    <3>2. QED
      BY <2>2, <3>1 DEF SafeInv, ForeignLabelsPreserved, OutsideSelectionPreserved, Shape
  <2>4. CASE /\ Updated(pc, pc', h, "ok") /\ Updated(gen, gen', h, NoNodes)
             /\ UNCHANGED <<cache, todo, alone>>
    <3>1. /\ Keyed(pc') /\ pc'[h] = "ok" /\ \A i \in Handlers \ {h} : pc'[i] = pc[i]
      BY <1>9, <2>4, UpdateShape, SMT
    <3>2. /\ Keyed(gen') /\ gen'[h] = NoNodes /\ \A i \in Handlers \ {h} : gen'[i] = gen[i]
      BY <1>9, <2>4, UpdateShape, SMT
    <3>3. DOMAIN NoNodes = {}
      BY DEF NoNodes
    <3>4. Shape'
      BY <2>3, <2>4, <3>1, <3>2 DEF SafeInv, Shape
    <3>5. AtNode'
      BY <2>2, <2>4, <3>1, <3>2, <3>3 DEF SafeInv, AtNode
    <3>6. ManagedOnly'
      BY <3>2, <3>3, SMT DEF SafeInv, ManagedOnly
    <3>7. EverIn'
      BY <2>2, <2>3, <2>4 DEF SafeInv, EverIn
    <3>8. QED
      BY <2>3, <3>4, <3>5, <3>6, <3>7 DEF SafeInv
  <2>5. CASE /\ Updated(pc, pc', h, IF DOMAIN new = {} THEN "ok" ELSE "apply")
             /\ Updated(gen, gen', h, new) /\ Updated(todo, todo', h, DOMAIN new)
             /\ Updated(cache, cache', h, nodes)
             /\ alone' = [alone EXCEPT ![h] = IF loaded[h] THEN alone[h] ELSE TRUE]
    <3>0. PICK at : at = (IF DOMAIN new = {} THEN "ok" ELSE "apply") /\ Updated(pc, pc', h, at)
      BY <2>5
    <3>1. Keyed(pc') /\ pc'[h] = at /\ \A i \in Handlers \ {h} : pc'[i] = pc[i]
      BY <1>9, <3>0, UpdateShape, SMT
    <3>2. Keyed(gen') /\ gen'[h] = new /\ \A i \in Handlers \ {h} : gen'[i] = gen[i]
      BY <1>9, <2>5, UpdateShape, SMT
    <3>3. Keyed(todo') /\ todo'[h] = DOMAIN new /\ \A i \in Handlers \ {h} : todo'[i] = todo[i]
      BY <1>9, <2>5, UpdateShape, SMT
    <3>4. Keyed(alone')
      BY <1>9, <2>5 DEF Keyed
    <3>5. /\ OneListing(nodes)
          /\ \A n \in Nodes : nodes[n].kind = "node" /\ Matches(nodes[n].labels) => n \in everIn
      <4>1. CASE nodes = cache[h]
        BY <4>1 DEF SafeInv, Shape, Listings, EverIn
      <4>2. CASE nodes = Listing(Listed)
        BY <4>2, ListingReads DEF SafeInv, EverIn
      <4>3. QED
        BY <2>1, <4>1, <4>2
    <3>6. Listings(cache') /\ cache'[h] = nodes /\ \A i \in Handlers \ {h} : cache'[i] = cache[i]
      BY <1>9, <2>5, <3>5, ListingShape, SMT
    <3>7. DOMAIN new \subseteq Nodes
      BY <2>1, GraphsAssumption
    <3>8. ASSUME NEW n \in DOMAIN new, NEW k \in Keys \ Managed PROVE new[n][k] = None
      BY <2>1, BuiltAreManaged, SMT DEF NoLabels
    <3>9. Shape'
      BY <2>3, <3>1, <3>2, <3>3, <3>4, <3>6 DEF SafeInv, Shape
    <3>10. AtNode'
      <4>1. /\ DOMAIN gen'[h] \subseteq Nodes /\ todo'[h] \subseteq DOMAIN gen'[h]
            /\ pc'[h] \in {"ok", "apply"} /\ (pc'[h] = "ok" => todo'[h] = {})
        BY <3>0, <3>1, <3>2, <3>3, <3>7, SMT
      <4>2. QED
        BY <2>2, <3>1, <3>2, <3>3, <3>6, <4>1, SMT DEF SafeInv, AtNode
    <3>11. ManagedOnly'
      BY <3>2, <3>8, SMT DEF SafeInv, ManagedOnly
    <3>12. EverIn'
      BY <2>2, <2>3, <3>5, <3>6 DEF SafeInv, EverIn
    <3>13. QED
      BY <2>3, <3>9, <3>10, <3>11, <3>12 DEF SafeInv
  <2>6. QED
    BY <2>1, <2>4, <2>5
<1>3. ASSUME NEW h \in Handlers, NEW n \in Nodes, PickNode(h, n) PROVE SafeInv'
  <2>1. /\ pc[h] = "apply" /\ n \in todo[h]
        /\ Updated(pc, pc', h, "patch") /\ Updated(todo, todo', h, todo[h] \ {n})
        /\ Updated(target, target', h, n)
        /\ UNCHANGED <<labels, gen, foreign, everIn, alone>>
    BY <1>3 DEF PickNode, Set, Updated
  <2>2. Keyed(pc') /\ pc'[h] = "patch" /\ \A i \in Handlers \ {h} : pc'[i] = pc[i]
    BY <1>9, <2>1, UpdateShape, SMT
  <2>3. Keyed(todo') /\ todo'[h] = todo[h] \ {n} /\ \A i \in Handlers \ {h} : todo'[i] = todo[i]
    BY <1>9, <2>1, UpdateShape, SMT
  <2>4. Keyed(target') /\ target'[h] = n /\ \A i \in Handlers \ {h} : target'[i] = target[i]
    BY <1>9, <2>1, UpdateShape, SMT
  <2>5. Listed' = Listed
    BY <2>1 DEF Listed
  <2>6. /\ Listings(cache') /\ cache'[h][n].kind # "deferred"
        /\ \A i \in Handlers \ {h} : cache'[i] = cache[i]
        /\ \A m \in Nodes : cache'[h][m] = cache[h][m] \/ (m = n /\ cache'[h][m] = Cached(labels[n]))
    BY <1>9, <1>3, PickReads
  <2>7. Shape'
    BY <2>1, <2>2, <2>3, <2>4, <2>6 DEF SafeInv, Shape
  <2>8. AtNode'
    <3>1. ASSUME NEW i \in Handlers
          PROVE  /\ DOMAIN gen'[i] \subseteq Nodes /\ todo'[i] \subseteq DOMAIN gen'[i]
                 /\ pc'[i] \in {"resolve", "generate"} => DOMAIN gen'[i] = {}
                 /\ pc'[i] \in {"resolve", "generate", "ok"} => todo'[i] = {}
      BY <2>1, <2>2, <2>3 DEF SafeInv, AtNode
    <3>2. ASSUME NEW i \in Handlers, pc'[i] = "patch"
          PROVE  target'[i] \in DOMAIN gen'[i] /\ cache'[i][target'[i]].kind # "deferred"
      BY <2>1, <2>2, <2>4, <2>6, <3>2 DEF SafeInv, AtNode
    <3>3. QED
      BY <3>1, <3>2 DEF AtNode
  <2>9. EverIn'
    <3>1. \A m \in Nodes : cache'[h][m].kind = "node" /\ Matches(cache'[h][m].labels) => m \in everIn
      <4> SUFFICES ASSUME NEW m \in Nodes, cache'[h][m].kind = "node", Matches(cache'[h][m].labels)
                   PROVE  m \in everIn
        OBVIOUS
      <4>1. CASE cache'[h][m] = cache[h][m]
        BY <4>1 DEF SafeInv, EverIn
      <4>2. CASE m = n /\ cache'[h][m] = Cached(labels[n])
        <5>1. Matches(labels[n])
          BY <4>2, SMT DEF Cached
        <5>2. QED
          BY <4>2, <5>1 DEF SafeInv, EverIn, Listed
      <4>3. QED
        BY <2>6, <4>1, <4>2
    <3>2. QED
      BY <2>1, <2>5, <2>6, <3>1 DEF SafeInv, EverIn
  <2>10. QED
    BY <2>1, <2>7, <2>8, <2>9 DEF SafeInv, ManagedOnly, ForeignLabelsPreserved, OutsideSelectionPreserved
<1>4. ASSUME NEW h \in Handlers, NodeDone(h) PROVE SafeInv'
  <2>1. /\ pc[h] = "patch" /\ AddNodeLabels(h)
        /\ Set(pc, h, IF todo[h] = {} THEN "ok" ELSE "apply")
        /\ UNCHANGED <<gen, todo, target, foreign, everIn>>
    BY <1>4 DEF NodeDone
  <2>2. \E l \in {"ok", "apply", "failed"} : Set(pc, h, l)
    BY <2>1
  <2>3. pc'[h] = "ok" => todo[h] = {}
    BY <2>1 DEF Set, SafeInv, Shape, Keyed
  <2>4. QED
    BY <2>1, <2>2, <2>3, PatchKeepsSafe
<1>5. ASSUME NEW h \in Handlers, Fail(h) PROVE SafeInv'
  <2>1. CASE UNCHANGED <<labels, cache, alone>>
    <3>1. /\ Updated(pc, pc', h, "failed")
          /\ UNCHANGED <<labels, cache, alone, gen, todo, target, foreign, everIn>>
      BY <1>5, <2>1 DEF Fail, Set, Updated
    <3>2. Keyed(pc') /\ pc'[h] = "failed" /\ \A i \in Handlers \ {h} : pc'[i] = pc[i]
      BY <1>9, <3>1, UpdateShape, SMT
    <3>3. Shape'
      BY <3>1, <3>2 DEF SafeInv, Shape
    <3>4. AtNode'
      BY <3>1, <3>2 DEF SafeInv, AtNode
    <3>5. QED
      BY <3>1, <3>3, <3>4 DEF SafeInv, ManagedOnly, EverIn, ForeignLabelsPreserved, OutsideSelectionPreserved, Listed
  <2>2. CASE pc[h] = "patch" /\ AddNodeLabels(h)
    <3>1. Set(pc, h, "failed") /\ UNCHANGED <<gen, todo, target, foreign, everIn>>
      BY <1>5 DEF Fail
    <3>2. pc'[h] # "ok"
      BY <3>1 DEF Set, SafeInv, Shape, Keyed
    <3>3. QED
      BY <2>2, <3>1, <3>2, PatchKeepsSafe
  <2>3. QED
    BY <1>5, <2>1, <2>2 DEF Fail
<1>6. ASSUME NEW n \in Nodes, NEW w \in Writes, OtherWrites(n, w) PROVE SafeInv'
  <2>1. /\ labels' = [labels EXCEPT ![n][w[1]] = w[2]]
        /\ foreign' = [foreign EXCEPT ![n][w[1]] = w[2]]
        /\ everIn' = everIn \cup (IF Matches(labels'[n]) THEN {n} ELSE {})
        /\ Keyed(alone')
        /\ UNCHANGED <<pc, cache, gen, todo, target>>
    BY <1>6 DEF OtherWrites, handler, Keyed
  <2>2. w[1] \in Keys
    BY LabelsAssumption
  <2>3. /\ Shaped(labels')
        /\ \A m \in Nodes, k \in Keys : labels'[m][k] = IF m = n /\ k = w[1] THEN w[2] ELSE labels[m][k]
        /\ \A m \in Nodes : m # n => labels'[m] = labels[m]
    <3>1. Wrote(labels, labels', n, w[1], w[2])
      BY <2>1 DEF Wrote
    <3>2. QED
      BY <1>9, <2>2, <3>1, WriteShape, SMT
  <2>4. /\ Shaped(foreign')
        /\ \A m \in Nodes, k \in Keys : foreign'[m][k] = IF m = n /\ k = w[1] THEN w[2] ELSE foreign[m][k]
        /\ \A m \in Nodes : m # n => foreign'[m] = foreign[m]
    <3>1. Wrote(foreign, foreign', n, w[1], w[2])
      BY <2>1 DEF Wrote
    <3>2. QED
      BY <1>9, <2>2, <3>1, WriteShape, SMT
  <2>5. Shape'
    BY <2>1, <2>3, <2>4 DEF SafeInv, Shape
  <2>6. AtNode' /\ ManagedOnly'
    <3>1. AtNode'
      BY <2>1 DEF SafeInv, AtNode
    <3>2. ManagedOnly'
      BY <2>1 DEF SafeInv, ManagedOnly
    <3>3. QED
      BY <3>1, <3>2
  <2>7. EverIn'
    BY <2>1, <2>3 DEF SafeInv, EverIn, Listed
  <2>8. ForeignLabelsPreserved'
    <3> SUFFICES ASSUME NEW m \in Nodes, NEW k \in Keys \ Managed PROVE labels'[m][k] = foreign'[m][k]
      BY DEF ForeignLabelsPreserved
    <3>1. labels[m][k] = foreign[m][k]
      BY DEF SafeInv, ForeignLabelsPreserved
    <3>2. QED
      BY <2>3, <2>4, <3>1, SMT
  <2>9. OutsideSelectionPreserved'
    BY <2>1, <2>3, <2>4, KeysAssumption, SMT DEF SafeInv, OutsideSelectionPreserved, Keys
  <2>10. QED
    BY <2>5, <2>6, <2>7, <2>8, <2>9 DEF SafeInv
<1>7. CASE UNCHANGED vars
  <2>1. Shape' /\ AtNode'
    BY <1>7 DEF vars, SafeInv, Shape, AtNode
  <2>2. QED
    BY <1>7, <2>1 DEF vars, SafeInv, ManagedOnly, EverIn, Listed, ForeignLabelsPreserved, OutsideSelectionPreserved
<1>8. QED
  BY <1>1, <1>2, <1>3, <1>4, <1>5, <1>6, <1>7 DEF Next

(* Whatever handlers, other controllers and failures do, a label that the  *)
(* engine does not manage has the value its owner gave it.                 *)
THEOREM ForeignLabels == Spec => []ForeignLabelsPreserved
<1>1. SafeInv => ForeignLabelsPreserved
  BY DEF SafeInv
<1>2. QED
  BY <1>1, InitIsSafe, StepIsSafe, PTL DEF Spec

(* A Node that never matched the selector keeps its labels, managed ones   *)
(* included.                                                               *)
THEOREM OutsideSelection == Spec => []OutsideSelectionPreserved
<1>1. SafeInv => OutsideSelectionPreserved
  BY DEF SafeInv
<1>2. QED
  BY <1>1, InitIsSafe, StepIsSafe, PTL DEF Spec

(* "the source label is never overwritten": it is not, unless a fabric     *)
(* label is configured under its key.                                      *)
THEOREM SourceLabel ==
    ASSUME Source \notin Managed PROVE Spec => []SourceLabelPreserved
<1>1. SafeInv => SourceLabelPreserved
  BY DEF SafeInv, ForeignLabelsPreserved, SourceLabelPreserved, Keys
<1>2. QED
  BY <1>1, InitIsSafe, StepIsSafe, PTL DEF Spec

-----------------------------------------------------------------------------
(* What a handler leaves.                                                  *)

(* The labels l of a Node are those that g asks for.                       *)
Reconciled(l, g) ==
    \A k \in Managed \ {Source} :
        l[k] = IF k \in {DomainKey, SubKey} /\ Usable(l) THEN None ELSE g[k]

(* As long as nobody else writes, a handler knows the labels of the Nodes. *)
Coherent(h) ==
    alone[h] => \A n \in Nodes : cache[h][n].kind = "node" => cache[h][n].labels = labels[n]

(* The Nodes it is through with are as its graph says.                     *)
Done(h) ==
    alone[h] /\ pc[h] \in {"apply", "patch", "ok"} =>
        \A n \in DOMAIN gen[h] \ todo[h] :
            /\ ~(pc[h] = "patch" /\ n = target[h])
            /\ cache[h][n].kind = "node" /\ Matches(labels[n])
            => Reconciled(labels[n], gen[h][n])

ReconcileInv ==
    /\ SafeInv /\ alone \in [Handlers -> BOOLEAN]
    /\ \A h \in Handlers : Coherent(h) /\ Done(h)

(* Merging gives the labels the graph asks for: the source label, which    *)
(* decides on the accelerator labels, is not among those that change.      *)
LEMMA MergeReconciles ==
    ASSUME Source \notin Managed, NEW c, NEW g, \A k \in Keys \ Managed : g[k] = None
    PROVE  Reconciled(MergeNodeLabels(c, g), g)
<1> DEFINE d == MergeNodeLabels(c, g)
<1>1. Usable(d) <=> Usable(c)
  <2>1. CASE Source = NoKey
    BY <2>1 DEF Usable
  <2>2. CASE Source # NoKey
    <3>1. Source \in Keys \ Managed
      BY <2>2 DEF Keys
    <3>2. d[Source] = c[Source]
      BY <3>1, MergeKeepsForeign
    <3>3. QED
      BY <3>2 DEF Usable
  <2>3. QED
    BY <2>1, <2>2
<1>2. ASSUME NEW k \in Managed \ {Source}
      PROVE  d[k] = IF k \in {DomainKey, SubKey} /\ Usable(c) THEN None ELSE g[k]
  <2>1. k \in Keys
    BY KeysAssumption DEF Keys
  <2>2. d[k] = Provided(c, g, k)
    BY <2>1 DEF MergeNodeLabels
  <2>3. QED
    BY <2>2 DEF Provided
<1> HIDE DEF d
<1>3. Reconciled(d, g)
  BY <1>1, <1>2 DEF Reconciled
<1>4. QED
  BY <1>3 DEF d

(* AddNodeLabels leaves its Node reconciled, or out of the selection, and  *)
(* tells the other handlers of a change.                                   *)
LEMMA PatchReconciles ==
    ASSUME ReconcileInv, Source \notin Managed,
           NEW h \in Handlers, pc[h] = "patch", AddNodeLabels(h)
    PROVE  /\ alone' \in [Handlers -> BOOLEAN]
           /\ \A i \in Handlers : alone'[i] => alone[i]
           /\ \A i \in Handlers \ {h} : alone'[i] => labels' = labels /\ cache'[i] = cache[i]
           /\ alone[h] =>
                /\ \A n \in Nodes \ {target[h]} : labels'[n] = labels[n] /\ cache'[h][n] = cache[h][n]
                /\ cache'[h][target[h]].kind = "node" =>
                     /\ cache'[h][target[h]].labels = labels'[target[h]]
                     /\ Matches(labels'[target[h]]) =>
                          Reconciled(labels'[target[h]], gen[h][target[h]])
<1> DEFINE t       == target[h]
           node    == cache[h][t]
           desired == MergeNodeLabels(node.labels, gen[h][t])
           patch   == NodeLabelPatch(node.labels, desired)
           skip    == node.kind = "absent" \/ ~MatchesNodeSelector(node.labels) \/ desired = node.labels
<1>1. t \in Nodes /\ t \in DOMAIN gen[h] /\ node.kind # "deferred"
  BY DEF ReconcileInv, SafeInv, AtNode
<1>2. Reconciled(desired, gen[h][t])
  <2>1. \A k \in Keys \ Managed : gen[h][t][k] = None
    BY <1>1 DEF ReconcileInv, SafeInv, ManagedOnly
  <2>2. QED
    BY <2>1, MergeReconciles
<1>3. CASE skip
  <2>1. UNCHANGED <<labels, cache, alone>>
    BY <1>3 DEF AddNodeLabels
  <2>2. ASSUME alone[h], node.kind = "node", Matches(labels[t])
        PROVE  node.labels = labels[t] /\ Reconciled(labels[t], gen[h][t])
    <3>1. node.labels = labels[t]
      BY <1>1, <2>2 DEF ReconcileInv, Coherent
    <3>2. desired = node.labels
      BY <1>3, <2>2, <3>1 DEF MatchesNodeSelector
    <3>3. QED
      BY <1>2, <3>1, <3>2
  <2> HIDE DEF desired, patch, skip
  <2>3. alone[h] /\ node.kind = "node" => node.labels = labels[t]
    BY <1>1 DEF ReconcileInv, Coherent
  <2>4. QED
    BY <2>1, <2>2, <2>3 DEF ReconcileInv
<1>4. CASE ~skip
  <2>1. /\ labels' = [labels EXCEPT ![t] = [k \in Keys |-> IF k \in patch THEN desired[k] ELSE labels[t][k]]]
        /\ Reread(cache, cache', h, t, desired)
        /\ alone' = [i \in Handlers |-> i = h /\ alone[i]]
    BY <1>4 DEF AddNodeLabels, Reread
  <2>2. desired = [k \in Keys |-> desired[k]] /\ \A k \in Keys \ patch : desired[k] = node.labels[k]
    BY DEF MergeNodeLabels, NodeLabelPatch
  <2>3. node.kind = "node"
    BY <1>1, <1>4 DEF ReconcileInv, SafeInv, Shape, Listings, OneListing
  <2> HIDE DEF desired, patch, skip
  <2>4. ASSUME alone[h] PROVE labels'[t] = desired
    <3>1. node.labels = labels[t]
      BY <1>1, <2>3, <2>4 DEF ReconcileInv, Coherent
    <3>2. labels'[t] = [k \in Keys |-> IF k \in patch THEN desired[k] ELSE labels[t][k]]
      BY <1>1, <2>1 DEF ReconcileInv, SafeInv, Shape, Shaped
    <3>3. QED
      BY <2>2, <3>1, <3>2, SMT
  <2>5. \A n \in Nodes \ {t} : labels'[n] = labels[n]
    BY <1>1, <2>1 DEF ReconcileInv, SafeInv, Shape, Shaped
  <2>6. /\ Listings(cache') /\ \A i \in Handlers \ {h} : cache'[i] = cache[i]
        /\ \A n \in Nodes : cache'[h][n] = IF n = t THEN Cached(desired) ELSE cache[h][n]
    <3>1. Listings(cache) /\ Reread(cache, cache', h, t, desired)
      BY <2>1 DEF ReconcileInv, SafeInv, Shape
    <3>2. QED
      BY <1>1, <3>1, ReadShape, SMT
  <2>7. /\ alone' \in [Handlers -> BOOLEAN]
        /\ \A i \in Handlers : alone'[i] => i = h /\ alone[i]
    BY <2>1 DEF ReconcileInv
  <2>8. cache'[h][t].labels = desired
    <3>1. cache'[h][t] = Cached(desired)
      BY <1>1, <2>6
    <3>2. QED
      BY <3>1, SMT DEF Cached
  <2>9. QED
    BY <1>1, <1>2, <2>4, <2>5, <2>6, <2>7, <2>8
<1>5. QED
  BY <1>3, <1>4

(* A handler that a step does not concern: either it is not alone any      *)
(* more, or the step leaves what it has done, and the labels, alone.       *)
Apart(i) ==
    alone'[i] => /\ alone[i] /\ labels' = labels /\ cache'[i] = cache[i] /\ pc'[i] = pc[i]
                 /\ gen'[i] = gen[i] /\ todo'[i] = todo[i] /\ target'[i] = target[i]

LEMMA ApartKeeps ==
    ASSUME NEW i \in Handlers, Coherent(i), Done(i), Apart(i)
    PROVE  Coherent(i)' /\ Done(i)'
<1>1. Coherent(i)'
  BY DEF Apart, Coherent
<1>2. Done(i)'
  BY DEF Apart, Done
<1>3. QED
  BY <1>1, <1>2

(* An attempt that ends, with or without its last patch.                   *)
LEMMA PatchKeepsReconciled ==
    ASSUME ReconcileInv, SafeInv', Source \notin Managed,
           NEW h \in Handlers, pc[h] = "patch", AddNodeLabels(h),
           UNCHANGED <<gen, todo, target>>,
           \E l \in {"ok", "apply", "failed"} : Set(pc, h, l)
    PROVE  ReconcileInv'
<1>1. PICK l \in {"ok", "apply", "failed"} : Updated(pc, pc', h, l)
  BY DEF Set, Updated
<1>2. Keyed(pc') /\ pc'[h] = l /\ \A i \in Handlers \ {h} : pc'[i] = pc[i]
  <2>1. Keyed(pc)
    BY DEF ReconcileInv, SafeInv, Shape
  <2>2. QED
    BY <1>1, <2>1, UpdateShape
<1>0. /\ alone' \in [Handlers -> BOOLEAN]
      /\ alone'[h] => alone[h]
      /\ \A i \in Handlers \ {h} :
           alone'[i] => alone[i] /\ labels' = labels /\ cache'[i] = cache[i]
  BY PatchReconciles
<1>3. ASSUME NEW i \in Handlers \ {h} PROVE Coherent(i)' /\ Done(i)'
  <2>1. Apart(i)
    BY <1>0, <1>2 DEF Apart
  <2>2. QED
    BY <2>1, ApartKeeps DEF ReconcileInv
<1>4. Coherent(h)'
  <2> SUFFICES ASSUME alone'[h], NEW n \in Nodes, cache'[h][n].kind = "node"
               PROVE  cache'[h][n].labels = labels'[n]
    BY DEF Coherent
  <2>0. alone[h]
    BY <1>0
  <2>1. CASE n = target[h]
    BY <2>0, <2>1, PatchReconciles
  <2>2. CASE n # target[h]
    <3>1. labels'[n] = labels[n] /\ cache'[h][n] = cache[h][n]
      BY <2>0, <2>2, PatchReconciles
    <3>2. QED
      BY <2>0, <3>1 DEF ReconcileInv, Coherent
  <2>3. QED
    BY <2>1, <2>2
<1>5. DOMAIN gen[h] \subseteq Nodes
  BY DEF ReconcileInv, SafeInv, AtNode
<1>6. Done(h)'
  <2> SUFFICES ASSUME alone'[h], NEW n \in DOMAIN gen[h] \ todo[h],
                      cache'[h][n].kind = "node", Matches(labels'[n])
               PROVE  Reconciled(labels'[n], gen[h][n])
    BY DEF Done
  <2>0. alone[h] /\ n \in Nodes
    BY <1>0, <1>5
  <2>1. CASE n = target[h]
    BY <2>0, <2>1, PatchReconciles
  <2>2. CASE n # target[h]
    <3>1. labels'[n] = labels[n] /\ cache'[h][n] = cache[h][n]
      BY <2>0, <2>2, PatchReconciles
    <3>2. Done(h)
      BY DEF ReconcileInv
    <3>3. QED
      BY <2>0, <2>2, <3>1, <3>2 DEF Done
  <2>3. QED
    BY <2>1, <2>2
<1>7. QED
  BY <1>0, <1>3, <1>4, <1>6 DEF ReconcileInv

(* The initial states, where nobody has listed anything.                   *)
LEMMA InitIsReconciled == Init => ReconcileInv
<1> SUFFICES ASSUME Init PROVE ReconcileInv
  OBVIOUS
<1>1. SafeInv
  BY InitIsSafe
<1>2. QED
  BY <1>1 DEF Init, ReconcileInv, Coherent, Done

(* Every step, if the source label is not one of the engine's own.         *)
LEMMA StepIsReconciled ==
    ASSUME Source \notin Managed PROVE ReconcileInv /\ [Next]_vars => ReconcileInv'
<1> SUFFICES ASSUME ReconcileInv, [Next]_vars PROVE ReconcileInv'
  OBVIOUS
<1>0. /\ SafeInv /\ SafeInv' /\ alone \in [Handlers -> BOOLEAN]
      /\ \A i \in Handlers : Coherent(i) /\ Done(i)
  BY StepIsSafe DEF ReconcileInv
<1>9. /\ Keyed(pc) /\ Keyed(gen) /\ Keyed(todo) /\ Keyed(target) /\ Keyed(alone)
      /\ Keyed(cache) /\ Listings(cache)
  BY <1>0 DEF SafeInv, Shape, Listings
<1>1. ASSUME NEW h \in Handlers, ResolveComputeInstances(h) PROVE ReconcileInv'
  <2>1. PICK names, c : /\ c = IF request[h].resolve THEN Listing(names) ELSE [n \in Nodes |-> Absent]
                        /\ Updated(cache, cache', h, c)
    BY <1>1 DEF ResolveComputeInstances, Set, Updated
  <2>2. /\ Updated(pc, pc', h, "generate") /\ alone' = [alone EXCEPT ![h] = TRUE]
        /\ UNCHANGED <<labels, gen, todo, target>>
    BY <1>1 DEF ResolveComputeInstances, Set, Updated
  <2>3. Keyed(pc') /\ pc'[h] = "generate" /\ \A i \in Handlers \ {h} : pc'[i] = pc[i]
    BY <1>9, <2>2, UpdateShape, SMT
  <2>4. alone' \in [Handlers -> BOOLEAN] /\ \A i \in Handlers \ {h} : alone'[i] = alone[i]
    BY <1>0, <2>2
  <2>5. Keyed(cache') /\ cache'[h] = c /\ \A i \in Handlers \ {h} : cache'[i] = cache[i]
    BY <1>9, <2>1, UpdateShape, SMT
  <2>6. ASSUME NEW i \in Handlers \ {h} PROVE Coherent(i)' /\ Done(i)'
    <3>1. Apart(i)
      BY <2>2, <2>3, <2>4, <2>5 DEF Apart
    <3>2. QED
      BY <1>0, <3>1, ApartKeeps
  <2>7. \A n \in Nodes : c[n].kind = "node" => c[n].labels = labels[n]
    <3>1. CASE request[h].resolve
      BY <2>1, <3>1, ListingReads
    <3>2. CASE ~request[h].resolve
      BY <2>1, <3>2, NothingListed
    <3>3. QED
      BY <3>1, <3>2
  <2>8. Coherent(h)'
    BY <2>2, <2>5, <2>7 DEF Coherent
  <2>9. Done(h)'
    BY <2>3 DEF Done
  <2>10. QED
    BY <1>0, <2>4, <2>6, <2>8, <2>9 DEF ReconcileInv
<1>2. ASSUME NEW h \in Handlers, GenerateOutput(h) PROVE ReconcileInv'
  <2>1. PICK nodes, new :
          /\ nodes = IF loaded[h] THEN cache[h] ELSE Listing(Listed)
          /\ \/ /\ Updated(pc, pc', h, "ok") /\ Updated(gen, gen', h, NoNodes)
                /\ UNCHANGED <<cache, todo, alone>>
             \/ /\ Updated(pc, pc', h, IF DOMAIN new = {} THEN "ok" ELSE "apply")
                /\ Updated(gen, gen', h, new) /\ Updated(todo, todo', h, DOMAIN new)
                /\ Updated(cache, cache', h, nodes)
                /\ alone' = [alone EXCEPT ![h] = IF loaded[h] THEN alone[h] ELSE TRUE]
    BY <1>2, Zenon DEF GenerateOutput, Set, Updated
  <2>0. PICK at : Updated(pc, pc', h, at)
    BY <2>1
  <2>2. UNCHANGED <<labels, target>>
    BY <1>2 DEF GenerateOutput
  <2>3. Keyed(pc') /\ pc'[h] = at /\ \A i \in Handlers \ {h} : pc'[i] = pc[i]
    BY <1>9, <2>0, UpdateShape, SMT
  <2>4. CASE Updated(gen, gen', h, NoNodes) /\ UNCHANGED <<cache, todo, alone>>
    <3>1. Keyed(gen') /\ gen'[h] = NoNodes /\ \A i \in Handlers \ {h} : gen'[i] = gen[i]
      BY <1>9, <2>4, UpdateShape, SMT
    <3>2. ASSUME NEW i \in Handlers \ {h} PROVE Coherent(i)' /\ Done(i)'
      <4>1. Apart(i)
        BY <2>2, <2>3, <2>4, <3>1 DEF Apart
      <4>2. QED
        BY <1>0, <4>1, ApartKeeps
    <3>3. Coherent(h)'
      BY <1>0, <2>2, <2>4 DEF Coherent
    <3>4. DOMAIN gen'[h] = {}
      BY <3>1 DEF NoNodes
    <3>5. Done(h)'
      BY <3>4 DEF Done
    <3>6. QED
      BY <1>0, <2>4, <3>2, <3>3, <3>5 DEF ReconcileInv
  <2>5. CASE /\ Updated(gen, gen', h, new) /\ Updated(todo, todo', h, DOMAIN new)
             /\ Updated(cache, cache', h, nodes)
             /\ alone' = [alone EXCEPT ![h] = IF loaded[h] THEN alone[h] ELSE TRUE]
    <3>1. Keyed(gen') /\ gen'[h] = new /\ \A i \in Handlers \ {h} : gen'[i] = gen[i]
      BY <1>9, <2>5, UpdateShape, SMT
    <3>2. Keyed(todo') /\ todo'[h] = DOMAIN new /\ \A i \in Handlers \ {h} : todo'[i] = todo[i]
      BY <1>9, <2>5, UpdateShape, SMT
    <3>3. Keyed(cache') /\ cache'[h] = nodes /\ \A i \in Handlers \ {h} : cache'[i] = cache[i]
      BY <1>9, <2>5, UpdateShape, SMT
    <3>4. /\ alone' \in [Handlers -> BOOLEAN]
          /\ loaded[h] => alone'[h] = alone[h]
          /\ \A i \in Handlers \ {h} : alone'[i] = alone[i]
      BY <1>0, <2>5
    <3>5. ASSUME NEW i \in Handlers \ {h} PROVE Coherent(i)' /\ Done(i)'
      <4>1. Apart(i)
        BY <2>2, <2>3, <3>1, <3>2, <3>3, <3>4 DEF Apart
      <4>2. QED
        BY <1>0, <4>1, ApartKeeps
    <3>6. Coherent(h)'
      <4>1. CASE loaded[h]
        <5>1. cache'[h] = cache[h] /\ alone'[h] = alone[h]
          BY <2>1, <3>3, <3>4, <4>1
        <5>2. QED
          BY <1>0, <2>2, <5>1 DEF Coherent
      <4>2. CASE ~loaded[h]
        <5>1. cache'[h] = Listing(Listed)
          BY <2>1, <3>3, <4>2
        <5>2. \A n \in Nodes : cache'[h][n].kind = "node" => cache'[h][n].labels = labels[n]
          BY <5>1, ListingReads
        <5>3. QED
          BY <2>2, <5>2 DEF Coherent
      <4>3. QED
        BY <4>1, <4>2
    <3>7. DOMAIN gen'[h] \ todo'[h] = {}
      BY <3>1, <3>2
    <3>8. Done(h)'
      BY <3>7 DEF Done
    <3>9. QED
      BY <1>0, <3>4, <3>5, <3>6, <3>8 DEF ReconcileInv
  <2>6. QED
    BY <2>1, <2>4, <2>5
<1>3. ASSUME NEW h \in Handlers, NEW n \in Nodes, PickNode(h, n) PROVE ReconcileInv'
  <2>1. /\ pc[h] = "apply"
        /\ Updated(pc, pc', h, "patch") /\ Updated(todo, todo', h, todo[h] \ {n})
        /\ Updated(target, target', h, n)
        /\ UNCHANGED <<labels, gen, alone>>
    BY <1>3 DEF PickNode, Set, Updated
  <2>2. Keyed(pc') /\ pc'[h] = "patch" /\ \A i \in Handlers \ {h} : pc'[i] = pc[i]
    BY <1>9, <2>1, UpdateShape, SMT
  <2>3. Keyed(todo') /\ todo'[h] = todo[h] \ {n} /\ \A i \in Handlers \ {h} : todo'[i] = todo[i]
    BY <1>9, <2>1, UpdateShape, SMT
  <2>4. Keyed(target') /\ target'[h] = n /\ \A i \in Handlers \ {h} : target'[i] = target[i]
    BY <1>9, <2>1, UpdateShape, SMT
  <2>5. /\ \A i \in Handlers \ {h} : cache'[i] = cache[i]
        /\ \A m \in Nodes : cache'[h][m] = cache[h][m] \/ (m = n /\ cache'[h][m] = Cached(labels[n]))
    BY <1>9, <1>3, PickReads
  <2>6. DOMAIN gen[h] \subseteq Nodes
    BY <1>0 DEF SafeInv, AtNode
  <2>7. ASSUME NEW i \in Handlers \ {h} PROVE Coherent(i)' /\ Done(i)'
    <3>1. Apart(i)
      BY <2>1, <2>2, <2>3, <2>4, <2>5 DEF Apart
    <3>2. QED
      BY <1>0, <3>1, ApartKeeps
  <2>8. Coherent(h)'
    <3>1. Cached(labels[n]).labels = labels[n]
      BY DEF Cached
    <3>2. alone[h] => \A m \in Nodes : cache[h][m].kind = "node" => cache[h][m].labels = labels[m]
      BY <1>0 DEF Coherent
    <3>3. QED
      BY <2>1, <2>5, <3>1, <3>2 DEF Coherent
  <2>9. Done(h)'
    <3> SUFFICES ASSUME alone'[h], NEW m \in DOMAIN gen'[h] \ todo'[h], m # target'[h],
                        cache'[h][m].kind = "node", Matches(labels'[m])
                 PROVE  Reconciled(labels'[m], gen'[h][m])
      BY <2>2 DEF Done
    <3>1. m \in DOMAIN gen[h] \ todo[h] /\ m # n /\ cache'[h][m] = cache[h][m]
      BY <2>1, <2>3, <2>4, <2>5, <2>6
    <3>2. Done(h)
      BY <1>0
    <3>3. QED
      BY <2>1, <3>1, <3>2 DEF Done
  <2>10. QED
    BY <1>0, <2>1, <2>7, <2>8, <2>9 DEF ReconcileInv
<1>4. ASSUME NEW h \in Handlers, NodeDone(h) PROVE ReconcileInv'
  <2>1. \E l \in {"ok", "apply", "failed"} : Set(pc, h, l)
    BY <1>4 DEF NodeDone, Set
  <2>2. QED
    BY <1>0, <1>4, <2>1, PatchKeepsReconciled DEF NodeDone
<1>5. ASSUME NEW h \in Handlers, Fail(h) PROVE ReconcileInv'
  <2>1. CASE AddNodeLabels(h) /\ pc[h] = "patch"
    <3>1. (\E l \in {"ok", "apply", "failed"} : Set(pc, h, l)) /\ UNCHANGED <<gen, todo, target>>
      BY <1>5 DEF Fail, Set
    <3>2. QED
      BY <1>0, <2>1, <3>1, PatchKeepsReconciled
  <2>2. CASE UNCHANGED <<labels, cache, alone>>
    <3>1. Updated(pc, pc', h, "failed") /\ UNCHANGED <<gen, todo, target>>
      BY <1>5 DEF Fail, Set, Updated
    <3>2. Keyed(pc') /\ pc'[h] = "failed" /\ \A i \in Handlers \ {h} : pc'[i] = pc[i]
      BY <1>9, <3>1, UpdateShape, SMT
    <3>3. ASSUME NEW i \in Handlers \ {h} PROVE Coherent(i)' /\ Done(i)'
      <4>1. Apart(i)
        BY <2>2, <3>1, <3>2 DEF Apart
      <4>2. QED
        BY <1>0, <4>1, ApartKeeps
    <3>4. Coherent(h)'
      BY <1>0, <2>2 DEF Coherent
    <3>5. Done(h)'
      BY <3>2 DEF Done
    <3>6. QED
      BY <1>0, <2>2, <3>3, <3>4, <3>5 DEF ReconcileInv
  <2>3. QED
    BY <1>5, <2>1, <2>2 DEF Fail
<1>6. ASSUME NEW n \in Nodes, NEW w \in Writes, OtherWrites(n, w) PROVE ReconcileInv'
  <2>1. alone' \in [Handlers -> BOOLEAN] /\ \A i \in Handlers : ~alone'[i]
    BY <1>6 DEF OtherWrites
  <2>2. \A i \in Handlers : Apart(i)
    BY <2>1 DEF Apart
  <2>3. QED
    BY <1>0, <2>1, <2>2, ApartKeeps DEF ReconcileInv
<1>7. CASE UNCHANGED vars
  <2>1. \A i \in Handlers : Apart(i)
    BY <1>7 DEF vars, Apart
  <2>2. alone' = alone
    BY <1>7 DEF vars
  <2>3. QED
    BY <1>0, <2>1, <2>2, ApartKeeps DEF ReconcileInv
<1>8. QED
  BY <1>1, <1>2, <1>3, <1>4, <1>5, <1>6, <1>7 DEF Next

(* "A successful graph is authoritative for the resolved selection": a     *)
(* handler that succeeds with nobody writing meanwhile leaves exactly the  *)
(* labels its graph gives, whatever earlier or failed attempts had left.   *)
THEOREM SuccessfulHandlers ==
    ASSUME Source \notin Managed PROVE Spec => []SuccessReconciles
<1>1. ReconcileInv => SuccessReconciles
  <2> SUFFICES ASSUME ReconcileInv, NEW h \in Handlers, pc[h] = "ok", alone[h],
                      NEW n \in DOMAIN gen[h], cache[h][n].kind = "node", Matches(labels[n])
               PROVE  Reconciled(labels[n], gen[h][n])
    BY DEF SuccessReconciles, Reconciled
  <2>1. todo[h] = {} /\ Done(h)
    BY DEF ReconcileInv, SafeInv, AtNode
  <2>2. QED
    BY <2>1 DEF Done
<1>2. QED
  BY <1>1, InitIsReconciled, StepIsReconciled, PTL DEF Spec
=============================================================================
