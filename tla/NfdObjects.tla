----------------------------- MODULE NfdObjects -----------------------------
(***************************************************************************)
(* The output of the NFD engine (pkg/engines/nfd): a NodeFeature for every *)
(* node with topology labels and a NodeFeatureGroup for every value they   *)
(* take.  A generation upserts its features and, on a second goroutine,    *)
(* its groups; when all are applied it lists both resources and deletes    *)
(* what it does not want.  Every API call may fail, with or without its    *)
(* effect; the failure of one goroutine cancels the other's context; and   *)
(* generations may overlap (see TrailingDelayQueue).  An attempt that is   *)
(* started over is a generation of its own.                                *)
(*                                                                         *)
(* Objects are identified by what stableObjectName derives their name      *)
(* from, and hold what their spec and annotations depend on.               *)
(***************************************************************************)
EXTENDS Integers, Sequences, FiniteSets

CONSTANTS
    Nodes, Kinds,   \* Kinds: fabric tiers and the two of the accelerator
    Values,
    Domain, SubDomain,
    Generations,
    Inputs,         \* [labels, source, cleanup]: node labels, accelerator-domain
                    \* source values and the parameter of a generation
    Order           \* all objects in the order of their names

ASSUME KindsAssumption == {Domain, SubDomain} \subseteq Kinds
ASSUME InputsAssumption == \A in \in Inputs : in.cleanup \in BOOLEAN

None == "none"
Resources == {"NodeFeature", "NodeFeatureGroup"}
ASSUME ValuesAssumption == None \notin Kinds \cup Values
ASSUME LabelsAssumption ==
    \A in \in Inputs : \A n \in DOMAIN in.labels :
        /\ in.source[n] \in Values \cup {None}
        /\ \A k \in Kinds : in.labels[n][k] \in Values \cup {None}
NodeFeature(n) == [resource |-> "NodeFeature", kind |-> None, of |-> n]
NodeFeatureGroup(k, v) == [resource |-> "NodeFeatureGroup", kind |-> k, of |-> v]
Names == {Order[i] : i \in DOMAIN Order}
ASSUME OrderAssumption ==
    Order \in Seq(Names) /\ \A x \in Names : x.resource \in Resources

VARIABLES
    objects,    \* the managed objects in the cluster, by name
    phase,      \* where each generation is
    desired,    \* the objects it wants, by name
    cleanup,    \* whether it deletes the others
    step,       \* the step of its goroutine for each resource
    todo,       \* the objects that goroutine has still to write or delete
    alone,      \* history: no other generation wrote since it began
    overlapped, \* history: a generation wrote while another was active
    published   \* history: there was an object at some time

vars == <<objects, phase, desired, cleanup, step, todo, alone, overlapped, published>>

NoObject == [elements |-> [k \in Kinds |-> None], key |-> None]
NoObjects == [x \in {} |-> NoObject]
Existing == {x \in Names : objects[x] # NoObject}
Of(r, S) == {x \in S : x.resource = r}
First(S) == LET i == CHOOSE i \in DOMAIN Order :
                        Order[i] \in S /\ \A j \in 1..i - 1 : Order[j] \notin S
            IN  Order[i]

-----------------------------------------------------------------------------
(* buildNFDObjects.                                                        *)

(* The elements of node n: the source value is the domain, and hides the   *)
(* provider's sub-domain.                                                  *)
Elements(in, n) ==
    [k \in Kinds |->
        IF in.source[n] # None /\ k \in {Domain, SubDomain}
        THEN IF k = Domain THEN in.source[n] ELSE None
        ELSE in.labels[n][k]]

Featured(in) ==
    {n \in DOMAIN in.labels : \E k \in Kinds : Elements(in, n)[k] # None}

Groups(in) ==
    {NodeFeatureGroup(k, v) : k \in Kinds, v \in Values} \cap
        {NodeFeatureGroup(k, Elements(in, n)[k]) : n \in Featured(in), k \in Kinds}

(* The label key a group is annotated with: the source label's if some     *)
(* node has the value from there.                                          *)
LabelKey(in, x) ==
    IF x.kind = Domain /\ \E n \in Featured(in) : in.source[n] = x.of
    THEN "source" ELSE x.kind

BuildNFDObjects(in) ==
    [x \in {NodeFeature(n) : n \in Featured(in)} \cup Groups(in) |->
        IF x.resource = "NodeFeature"
        THEN [elements |-> Elements(in, x.of), key |-> "node"]
        ELSE [elements |-> [k \in Kinds |-> IF k = x.kind THEN x.of ELSE None],
              key |-> LabelKey(in, x)]]

(* Order holds every object there may be.                                  *)
ASSUME NamesAssumption == \A in \in Inputs : DOMAIN BuildNFDObjects(in) \subseteq Names

-----------------------------------------------------------------------------
Set(f, g, v) == f' = [f EXCEPT ![g] = v]

(* Mutant: an empty set of objects is applied like any other.              *)
NeverRefused(in) == FALSE

(* GenerateOutput refuses to clean up after a generation of nothing.       *)
Refused(in) == in.cleanup /\ DOMAIN BuildNFDObjects(in) = {}

(* Goroutines start on what is to be done; one without work is done.       *)
Begun(work, s) == [r \in Resources |-> IF work[r] = {} THEN "done" ELSE s]

GenerateOutput(g) ==
    /\ phase[g] = "start"
    /\ \E in \in Inputs :
         LET want == BuildNFDObjects(in)
             work == [r \in Resources |-> Of(r, DOMAIN want)]
         IN  /\ Set(desired, g, want)
             /\ Set(cleanup, g, in.cleanup)
             /\ Set(phase, g, IF Refused(in) THEN "failed" ELSE "apply")
             /\ Set(todo, g, work)
             /\ Set(step, g, Begun(work, "patch"))
    /\ Set(alone, g, TRUE)
    /\ UNCHANGED <<objects, overlapped, published>>

(* The Nodes cannot be listed, or the graph or a node's name is refused.   *)
BuildFails(g) ==
    /\ phase[g] = "start"
    /\ Set(phase, g, "failed")
    /\ UNCHANGED <<objects, desired, cleanup, step, todo, alone, overlapped,
                   published>>

(* Generation g writes v under name x, or deletes it.                      *)
Write(g, x, v) ==
    /\ objects' = [objects EXCEPT ![x] = v]
    /\ alone' = [i \in Generations |-> i = g /\ alone[i]]
    /\ overlapped' = (overlapped \/ \E i \in Generations \ {g} :
                         phase[i] \in {"apply", "cleanup"})
    /\ published' = (published \/ v # NoObject)

(* The goroutine for r is through with its current object.                 *)
Advance(g, r, s) ==
    LET rest == todo[g][r] \ {First(todo[g][r])}
    IN  /\ todo' = [todo EXCEPT ![g][r] = rest]
        /\ step' = [step EXCEPT ![g][r] = IF rest = {} THEN "done" ELSE s]

quiet == <<objects, alone, overlapped, published>>

(* The errgroup's context is cancelled: no further call succeeds.          *)
Cancelled(g) == \E r \in Resources : step[g][r] = "failed"

(* upsertObject: patch the object; if there is none create it; if someone  *)
(* else just did, patch after all.                                         *)
PatchObject(g, r) ==
    LET x == First(todo[g][r])
    IN  /\ step[g][r] \in {"patch", "again"}
        /\ ~Cancelled(g)
        /\ \/ /\ x \in Existing
              /\ Write(g, x, desired[g][x])
              /\ Advance(g, r, "patch")
           \/ /\ x \notin Existing
              /\ step' = [step EXCEPT ![g][r] =
                             IF @ = "patch" THEN "create" ELSE "failed"]
              /\ UNCHANGED <<quiet, todo>>
        /\ UNCHANGED <<phase, desired, cleanup>>

CreateObject(g, r) ==
    LET x == First(todo[g][r])
    IN  /\ step[g][r] = "create"
        /\ ~Cancelled(g)
        /\ \/ /\ x \notin Existing
              /\ Write(g, x, desired[g][x])
              /\ Advance(g, r, "patch")
           \/ /\ x \in Existing
              /\ step' = [step EXCEPT ![g][r] = "again"]
              /\ UNCHANGED <<quiet, todo>>
        /\ UNCHANGED <<phase, desired, cleanup>>

(* cleanupResource: list the managed objects, then delete the others'.     *)
ListObjects(g, r) ==
    LET stale == Of(r, Existing) \ DOMAIN desired[g]
    IN  /\ step[g][r] = "list"
        /\ ~Cancelled(g)
        /\ todo' = [todo EXCEPT ![g][r] = stale]
        /\ step' = [step EXCEPT ![g][r] = IF stale = {} THEN "done" ELSE "delete"]
        /\ UNCHANGED <<quiet, phase, desired, cleanup>>

(* An object that is gone already is no error.                             *)
DeleteObject(g, r) ==
    /\ step[g][r] = "delete"
    /\ ~Cancelled(g)
    /\ Write(g, First(todo[g][r]), NoObject)
    /\ Advance(g, r, "delete")
    /\ UNCHANGED <<phase, desired, cleanup>>

(* An API call fails, by itself or because the context was cancelled.      *)
CallFails(g, r) ==
    /\ step[g][r] \notin {"done", "failed"}
    /\ step' = [step EXCEPT ![g][r] = "failed"]
    /\ UNCHANGED <<quiet, phase, desired, cleanup, todo>>

(* The call takes effect, but its answer is lost.                          *)
AnswerLost(g, r) ==
    LET x == First(todo[g][r])
    IN  /\ \/ /\ \/ step[g][r] \in {"patch", "again"} /\ x \in Existing
                 \/ step[g][r] = "create" /\ x \notin Existing
              /\ Write(g, x, desired[g][x])
           \/ /\ step[g][r] = "delete"
              /\ Write(g, x, NoObject)
        /\ step' = [step EXCEPT ![g][r] = "failed"]
        /\ UNCHANGED <<phase, desired, cleanup, todo>>

(* Mutant: clean-up is left out.                                           *)
NoCleanup(g) == "ok"

(* What follows a phase in which every goroutine succeeded.                *)
After(g) == IF phase[g] = "apply" /\ cleanup[g] THEN "cleanup" ELSE "ok"

(* errgroup.Wait: both goroutines have returned.                           *)
Wait(g) ==
    /\ phase[g] \in {"apply", "cleanup"}
    /\ \A r \in Resources : step[g][r] \in {"done", "failed"}
    /\ \/ /\ \E r \in Resources : step[g][r] = "failed"
          /\ Set(phase, g, "failed")
          /\ UNCHANGED step
       \/ /\ \A r \in Resources : step[g][r] = "done"
          /\ Set(phase, g, After(g))
          /\ Set(step, g, [r \in Resources |->
                             IF After(g) = "cleanup" THEN "list" ELSE "done"])
    /\ UNCHANGED <<quiet, desired, cleanup, todo>>

Init ==
    /\ objects = [x \in Names |-> NoObject]
    /\ phase = [g \in Generations |-> "start"]
    /\ desired = [g \in Generations |-> NoObjects]
    /\ cleanup = [g \in Generations |-> FALSE]
    /\ step = [g \in Generations |-> [r \in Resources |-> "done"]]
    /\ todo = [g \in Generations |-> [r \in Resources |-> {}]]
    /\ alone = [g \in Generations |-> FALSE]
    /\ overlapped = FALSE
    /\ published = FALSE

Next ==
    \E g \in Generations :
        \/ GenerateOutput(g) \/ BuildFails(g) \/ Wait(g)
        \/ \E r \in Resources :
              \/ PatchObject(g, r) \/ CreateObject(g, r)
              \/ ListObjects(g, r) \/ DeleteObject(g, r)
              \/ CallFails(g, r) \/ AnswerLost(g, r)

Spec == Init /\ [][Next]_vars

-----------------------------------------------------------------------------
(* A generation that succeeds while no other writes leaves exactly the     *)
(* objects of its topology, with their contents, whatever earlier and      *)
(* failed generations had left behind (at least these, without clean-up).  *)
SuccessIsExact ==
    \A g \in Generations : phase[g] = "ok" /\ alone[g] =>
        /\ cleanup[g] => Existing = DOMAIN desired[g]
        /\ \A x \in DOMAIN desired[g] : objects[x] = desired[g][x]

(* docs/design/nfd-engine-sdd.md: "a transient empty provider result       *)
(* cannot delete the entire published topology".  Unless generations       *)
(* overlap, there are objects at all times once there were some, whichever *)
(* calls fail.                                                             *)
NeverEmptied == published /\ ~overlapped => Existing # {}

(* objects.go: "per-node features and groups for each distinct topology    *)
(* value".  When every generation has ended in success, each value that a  *)
(* feature publishes has its group.  Does not hold when generations        *)
(* overlap: the clean-up of one deletes the groups of the other.           *)
EveryValueHasGroup ==
    (\A g \in Generations : phase[g] = "ok") =>
        \A x \in Of("NodeFeature", Existing), k \in Kinds :
            LET v == objects[x].elements[k]
            IN  v # None => NodeFeatureGroup(k, v) \in Existing
=============================================================================
