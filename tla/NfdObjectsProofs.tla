-------------------------- MODULE NfdObjectsProofs --------------------------
(***************************************************************************)
(* A successful generation of the NFD engine leaves exactly its objects,   *)
(* and generations that do not overlap never leave the cluster without     *)
(* any: for all topologies, objects and failures.                          *)
(***************************************************************************)
EXTENDS NfdObjects, WellFoundedInduction, TLAPS

(* The steps are first-order, and Zenon proves them, but for the ones that *)
(* say SMT.                                                                *)
USE Zenon

Shape ==
    /\ objects = [x \in Names |-> objects[x]]
    /\ phase \in [Generations -> {"start", "apply", "cleanup", "ok", "failed"}]
    /\ desired = [g \in Generations |-> desired[g]]
    /\ cleanup \in [Generations -> BOOLEAN]
    /\ step \in [Generations -> [Resources -> {"patch", "create", "again", "list",
                                              "delete", "done", "failed"}]]
    /\ todo \in [Generations -> [Resources -> SUBSET Names]]
    /\ alone \in [Generations -> BOOLEAN]
    /\ overlapped \in BOOLEAN /\ published \in BOOLEAN

(* What a generation wants are real objects, and some if it cleans up.     *)
Wants(g) ==
    /\ DOMAIN desired[g] \subseteq Names
    /\ \A x \in DOMAIN desired[g] : desired[g][x] # NoObject
    /\ cleanup[g] /\ phase[g] \in {"apply", "cleanup"} => DOMAIN desired[g] # {}

(* A goroutine applies what its generation wants, and then deletes only    *)
(* what it does not.                                                       *)
Works(g, r) ==
    /\ phase[g] = "apply" =>
         /\ step[g][r] \in {"patch", "create", "again", "done", "failed"}
         /\ step[g][r] \in {"patch", "create", "again"} => todo[g][r] # {}
         /\ step[g][r] = "done" => todo[g][r] = {}
         /\ todo[g][r] \subseteq Of(r, DOMAIN desired[g])
    /\ phase[g] = "cleanup" =>
         /\ cleanup[g]
         /\ step[g][r] \in {"list", "delete", "done", "failed"}
         /\ step[g][r] = "delete" => todo[g][r] # {}
         /\ todo[g][r] \cap DOMAIN desired[g] = {}
    /\ phase[g] \notin {"apply", "cleanup"} => step[g][r] \in {"done", "failed"}

(* How far it has got, if nobody else writes.                              *)
Progress(g, r) ==
    alone[g] =>
        /\ phase[g] = "apply" =>
             \A x \in Of(r, DOMAIN desired[g]) \ todo[g][r] : objects[x] = desired[g][x]
        /\ phase[g] \in {"cleanup", "ok"} =>
             \A x \in DOMAIN desired[g] : objects[x] = desired[g][x]
        /\ phase[g] = "cleanup" /\ step[g][r] \in {"delete", "done"} =>
             \A x \in Of(r, Names) : objects[x] # NoObject =>
                x \in DOMAIN desired[g] \/ (step[g][r] = "delete" /\ x \in todo[g][r])
        /\ phase[g] = "ok" /\ cleanup[g] =>
             \A x \in Names : objects[x] # NoObject => x \in DOMAIN desired[g]

(* Without overlap, nobody else does.                                      *)
Undisturbed(g) == ~overlapped /\ phase[g] \in {"apply", "cleanup"} => alone[g]

Inv ==
    /\ Shape /\ NeverEmptied
    /\ \A g \in Generations : Wants(g) /\ Undisturbed(g)
    /\ \A g \in Generations, r \in Resources : Works(g, r) /\ Progress(g, r)

-----------------------------------------------------------------------------
(* The goroutines' next object is one of those they have to do.            *)
LEMMA FirstIsOneOf ==
    ASSUME NEW S \in SUBSET Names, S # {} PROVE First(S) \in S
<1> DEFINE T == {i \in DOMAIN Order : Order[i] \in S}
<1>1. DOMAIN Order = 1..Len(Order) /\ Len(Order) \in Nat
  BY OrderAssumption, SMT
<1>2. T # {} /\ T \subseteq Nat
  BY <1>1, SMT DEF Names
<1>3. PICK i \in T : \A j \in T : <<j, i>> \notin OpToRel(<, Nat)
  BY <1>2, NatLessThanWellFounded, WFMin, Zenon
<1>4. \A j \in T : ~(j < i)
  BY <1>2, <1>3 DEF OpToRel
<1>5. \A j \in 1..i - 1 : Order[j] \notin S
  BY <1>1, <1>4, SMT
<1>6. QED
  BY <1>5 DEF First

(* buildNFDObjects makes no empty object.                                  *)
LEMMA BuiltAreReal ==
    ASSUME NEW in \in Inputs, NEW x \in DOMAIN BuildNFDObjects(in)
    PROVE  BuildNFDObjects(in)[x] # NoObject
<1>1. NoObject.key = None
  BY DEF NoObject
<1>2. CASE x.resource = "NodeFeature"
  <2>1. BuildNFDObjects(in)[x].key = "node"
    BY <1>2 DEF BuildNFDObjects
  <2>2. QED
    BY <1>1, <2>1 DEF None
<1>3. CASE x.resource # "NodeFeature"
  <2>1. x \in Groups(in)
    BY <1>3, SMT DEF BuildNFDObjects, NodeFeature
  <2>2. x.kind \in Kinds
    BY <2>1, SMT DEF Groups, NodeFeatureGroup
  <2>3. BuildNFDObjects(in)[x].key = LabelKey(in, x)
    BY <1>3 DEF BuildNFDObjects
  <2>4. LabelKey(in, x) # None
    BY <2>2, ValuesAssumption DEF LabelKey, None
  <2>5. QED
    BY <1>1, <2>3, <2>4
<1>4. QED
  BY <1>2, <1>3

(* A goroutine goes on without a write: it learns that an object does not  *)
(* exist or does after all, gets its list, or fails.                       *)
LEMMA MoveKeeps ==
    ASSUME Inv, NEW g \in Generations, NEW r \in Resources,
           phase[g] \in {"apply", "cleanup"},
           NEW s \in {"create", "again", "delete", "done", "failed"}, NEW t \in SUBSET Names,
           step' = [step EXCEPT ![g][r] = s], todo' = [todo EXCEPT ![g][r] = t],
           UNCHANGED <<quiet, phase, desired, cleanup>>,
           phase[g] = "apply" =>
               t = todo[g][r] /\ s # "delete" /\ s # "done" /\ (s # "failed" => t # {}),
           phase[g] = "cleanup" =>
               /\ s \notin {"create", "again"} /\ (s = "delete" => t # {})
               /\ t \cap DOMAIN desired[g] = {}
               /\ s # "failed" => \A x \in Of(r, Names) : objects[x] # NoObject =>
                      x \in DOMAIN desired[g] \/ (s = "delete" /\ x \in t)
    PROVE  Inv'
<1>0. UNCHANGED <<objects, alone, overlapped, published, phase, desired, cleanup>>
  BY DEF quiet
<1>1. Shape'
  BY <1>0 DEF Inv, Shape
<1>2. \A i \in Generations, q \in Resources :
        /\ step'[i][q] = IF i = g /\ q = r THEN s ELSE step[i][q]
        /\ todo'[i][q] = IF i = g /\ q = r THEN t ELSE todo[i][q]
  BY DEF Inv, Shape
<1>3. NeverEmptied' /\ \A i \in Generations : Wants(i)' /\ Undisturbed(i)'
  <2>1. NeverEmptied'
    BY <1>0 DEF Inv, NeverEmptied, Existing
  <2>2. \A i \in Generations : Wants(i)'
    BY <1>0 DEF Inv, Wants
  <2>3. \A i \in Generations : Undisturbed(i)'
    BY <1>0 DEF Inv, Undisturbed
  <2>4. QED
    BY <2>1, <2>2, <2>3
<1>4. ASSUME NEW i \in Generations, NEW q \in Resources PROVE Works(i, q)' /\ Progress(i, q)'
  <2>1. Works(i, q) /\ Progress(i, q)
    BY DEF Inv
  <2>2. CASE i = g /\ q = r
    <3>1. step'[g][r] = s /\ todo'[g][r] = t
      BY <1>2, SMT
    <3>2. Works(g, r)'
      BY <1>0, <2>1, <2>2, <3>1 DEF Works
    <3>3. Progress(g, r)'
      BY <1>0, <2>1, <2>2, <3>1, SMT DEF Progress
    <3>4. QED
      BY <2>2, <3>2, <3>3
  <2>3. CASE ~(i = g /\ q = r)
    <3>1. step'[i][q] = step[i][q] /\ todo'[i][q] = todo[i][q]
      BY <1>2, <2>3, SMT
    <3>2. Works(i, q)'
      BY <1>0, <2>1, <3>1 DEF Works
    <3>3. Progress(i, q)'
      BY <1>0, <2>1, <3>1, SMT DEF Progress
    <3>4. QED
      BY <3>2, <3>3
  <2>4. QED
    BY <2>2, <2>3
<1>5. QED
  BY <1>1, <1>3, <1>4 DEF Inv

(* Its goroutine writes v under name x, which belongs to the phase, goes   *)
(* on to step s and has t left to do.                                      *)
Writes(g, r, x, v, s, t) ==
    /\ x \in todo[g][r] /\ Write(g, x, v)
    /\ s \in {"patch", "delete", "done", "failed"}
    /\ t \subseteq todo[g][r] /\ todo[g][r] \subseteq t \cup {x}
    /\ s = "done" => t = {}
    /\ s \in {"patch", "delete"} => t # {}
    /\ step' = [step EXCEPT ![g][r] = s] /\ todo' = [todo EXCEPT ![g][r] = t]
    /\ UNCHANGED <<phase, desired, cleanup>>
    /\ \/ phase[g] = "apply" /\ v = desired[g][x] /\ s # "delete"
       \/ phase[g] = "cleanup" /\ v = NoObject /\ s # "patch" /\ step[g][r] = "delete"

(* It applies or deletes its next object, whether or not it hears of it.   *)
LEMMA WriteKeeps ==
    ASSUME Inv, NEW g \in Generations, NEW r \in Resources,
           NEW x, NEW v, NEW s, NEW t, Writes(g, r, x, v, s, t)
    PROVE  Inv'
<1> USE DEF Writes
<1>1. x \in Names
  BY SMT DEF Inv, Shape
<1>2. /\ \A y \in Names : objects'[y] = IF y = x THEN v ELSE objects[y]
      /\ \A i \in Generations : alone'[i] <=> i = g /\ alone[i]
      /\ alone' \in [Generations -> BOOLEAN]
      /\ overlapped' \in BOOLEAN /\ published' \in BOOLEAN
      /\ objects' = [y \in Names |-> objects'[y]]
  BY <1>1 DEF Write, Inv, Shape
<1>3. /\ \A i \in Generations, q \in Resources :
             /\ step'[i][q] = IF i = g /\ q = r THEN s ELSE step[i][q]
             /\ todo'[i][q] = IF i = g /\ q = r THEN t ELSE todo[i][q]
      /\ step' \in [Generations -> [Resources -> {"patch", "create", "again", "list",
                                                  "delete", "done", "failed"}]]
      /\ todo' \in [Generations -> [Resources -> SUBSET Names]]
  BY DEF Inv, Shape
<1>4. Shape'
  BY <1>2, <1>3 DEF Inv, Shape
<1>5. ASSUME NEW i \in Generations PROVE Wants(i)'
  BY DEF Inv, Wants
<1>6. ASSUME NEW i \in Generations PROVE Undisturbed(i)'
  BY <1>2 DEF Write, Inv, Undisturbed, Shape
<1>7. Wants(g) /\ Works(g, r) /\ Progress(g, r)
  BY DEF Inv
<1>8. ASSUME NEW i \in Generations, NEW q \in Resources PROVE Works(i, q)'
  <2>1. CASE i = g /\ q = r
    BY <1>3, <1>7, <2>1, SMT DEF Works
  <2>2. CASE ~(i = g /\ q = r)
    <3>1. step'[i][q] = step[i][q] /\ todo'[i][q] = todo[i][q]
      BY <1>3, <2>2, SMT
    <3>2. Works(i, q)
      BY DEF Inv
    <3>3. QED
      BY <3>1, <3>2 DEF Works
  <2>3. QED
    BY <2>1, <2>2
<1>9. ASSUME NEW q \in Resources PROVE Progress(g, q)'
  <2>0. Progress(g, q) /\ step'[g][q] = (IF q = r THEN s ELSE step[g][q])
        /\ todo'[g][q] = (IF q = r THEN t ELSE todo[g][q]) /\ (alone'[g] <=> alone[g])
    BY <1>2, <1>3, SMT DEF Inv
  <2>1. CASE phase[g] = "apply"
    <3>1. x \in Of(r, DOMAIN desired[g]) /\ v = desired[g][x]
      BY <1>7, <2>1 DEF Works
    <3>2. \A y \in Of(q, DOMAIN desired[g]) \ todo'[g][q] :
             y \in Names /\ (y = x \/ y \in Of(q, DOMAIN desired[g]) \ todo[g][q])
      <4>1. todo[g][q] \subseteq todo'[g][q] \cup {x}
        <5>1. CASE q = r
          BY <2>0, <5>1
        <5>2. CASE q # r
          BY <2>0, <5>2
        <5>3. QED
          BY <5>1, <5>2
      <4>2. QED
        BY <1>7, <4>1 DEF Wants, Of
    <3>3. alone[g] => \A y \in Of(q, DOMAIN desired[g]) \ todo[g][q] : objects[y] = desired[g][y]
      BY <2>0, <2>1 DEF Progress
    <3>4. ASSUME alone[g], NEW y \in Of(q, DOMAIN desired[g]) \ todo'[g][q]
          PROVE  objects'[y] = desired[g][y]
      <4>1. CASE y = x
        BY <1>1, <1>2, <3>1, <4>1
      <4>2. CASE y # x
        BY <1>2, <3>2, <3>3, <3>4, <4>2
      <4>3. QED
        BY <4>1, <4>2
    <3>5. QED
      BY <1>2, <2>0, <2>1, <3>4, SMT DEF Progress
  <2>2. CASE phase[g] = "cleanup"
    <3>1. x \notin DOMAIN desired[g] /\ v = NoObject /\ step[g][r] = "delete"
      BY <1>7, <2>2 DEF Works
    <3>2. alone[g] => \A y \in DOMAIN desired[g] : objects'[y] = desired[g][y]
      BY <1>2, <1>7, <2>0, <2>2, <3>1 DEF Wants, Progress
    <3>3. ASSUME alone[g], step'[g][q] \in {"delete", "done"},
                 NEW y \in Of(q, Names), objects'[y] # NoObject
          PROVE  y \in DOMAIN desired[g] \/ (step'[g][q] = "delete" /\ y \in todo'[g][q])
      <4>1. y # x /\ objects[y] # NoObject /\ y \in Names
        BY <1>2, <3>1, <3>3 DEF Of
      <4>2. CASE q = r
        BY <2>0, <2>2, <3>1, <3>3, <4>1, <4>2, SMT DEF Progress
      <4>3. CASE q # r
        BY <2>0, <2>2, <3>3, <4>1, <4>3 DEF Progress
      <4>4. QED
        BY <4>2, <4>3
    <3>4. QED
      BY <2>0, <2>2, <3>2, <3>3 DEF Progress
  <2>3. QED
    BY <2>1, <2>2
<1>10. ASSUME NEW i \in Generations, NEW q \in Resources PROVE Progress(i, q)'
  BY <1>2, <1>9, SMT DEF Progress
<1>11. NeverEmptied'
  <2> SUFFICES ASSUME published', ~overlapped' PROVE Existing' # {}
    BY DEF NeverEmptied
  <2>1. CASE v # NoObject
    BY <1>1, <1>2, <2>1 DEF Existing
  <2>2. CASE phase[g] = "cleanup" /\ v = NoObject
    <3>1. ~overlapped /\ alone[g]
      BY <2>2 DEF Write, Inv, Undisturbed, Shape
    <3>2. PICK y \in DOMAIN desired[g] : TRUE
      BY <1>7, <2>2 DEF Wants, Works
    <3>3. y \in Names /\ y # x /\ objects[y] # NoObject
      BY <1>7, <2>2, <3>1 DEF Wants, Works, Progress
    <3>4. QED
      BY <1>2, <3>3 DEF Existing
  <2>3. CASE phase[g] = "apply"
    <3>1. v # NoObject
      BY <1>7, <2>3 DEF Wants, Works, Of
    <3>2. QED
      BY <2>1, <3>1
  <2>4. QED
    BY <2>1, <2>2, <2>3
<1>12. QED
  BY <1>4, <1>5, <1>6, <1>8, <1>10, <1>11 DEF Inv

(* A goroutine that writes has an object to write, in the right phase.     *)
LEMMA AtWork ==
    ASSUME Inv, NEW g \in Generations, NEW r \in Resources
    PROVE  /\ step[g][r] \in {"patch", "create", "again"} =>
                phase[g] = "apply" /\ First(todo[g][r]) \in todo[g][r]
           /\ step[g][r] = "delete" =>
                phase[g] = "cleanup" /\ First(todo[g][r]) \in todo[g][r]
           /\ step[g][r] = "list" => phase[g] = "cleanup"
           /\ step[g][r] \notin {"done", "failed"} => phase[g] \in {"apply", "cleanup"}
           /\ todo[g][r] \in SUBSET Names
           /\ todo = [todo EXCEPT ![g][r] = todo[g][r]]
<1>1. /\ Works(g, r) /\ todo[g][r] \in SUBSET Names
      /\ phase[g] \in {"start", "apply", "cleanup", "ok", "failed"}
  <2>1. todo \in [Generations -> [Resources -> SUBSET Names]]
    BY DEF Inv, Shape
  <2>2. phase \in [Generations -> {"start", "apply", "cleanup", "ok", "failed"}]
    BY DEF Inv, Shape
  <2>3. todo[g][r] \in SUBSET Names
    BY <2>1
  <2>4. phase[g] \in {"start", "apply", "cleanup", "ok", "failed"}
    BY <2>2
  <2>5. QED
    BY <2>3, <2>4 DEF Inv
<1>4. todo = [todo EXCEPT ![g][r] = todo[g][r]]
  BY SMT DEF Inv, Shape
<1>2. todo[g][r] # {} => First(todo[g][r]) \in todo[g][r]
  BY <1>1, FirstIsOneOf
<1>3. QED
  BY <1>1, <1>2, <1>4 DEF Works

(* A write that is answered: the goroutine goes on to its next object.     *)
LEMMA AdvanceKeeps ==
    ASSUME Inv, NEW g \in Generations, NEW r \in Resources,
           NEW x, x = First(todo[g][r]), x \in todo[g][r],
           NEW v, Write(g, x, v), NEW k \in {"patch", "delete"}, Advance(g, r, k),
           UNCHANGED <<phase, desired, cleanup>>,
           \/ phase[g] = "apply" /\ v = desired[g][x] /\ k = "patch"
           \/ phase[g] = "cleanup" /\ v = NoObject /\ k = "delete" /\ step[g][r] = "delete"
    PROVE  Inv'
<1> DEFINE t == todo[g][r] \ {x}
           s == IF t = {} THEN "done" ELSE k
<1>1. step' = [step EXCEPT ![g][r] = s] /\ todo' = [todo EXCEPT ![g][r] = t]
  BY DEF Advance
<1>2. Writes(g, r, x, v, s, t)
  BY <1>1 DEF Writes
<1> HIDE DEF t, s
<1>3. QED
  BY <1>2, WriteKeeps

(* The initial state.                                                      *)
LEMMA InitInv == Init => Inv
<1> SUFFICES ASSUME Init PROVE Inv
  OBVIOUS
<1>1. Shape
  BY DEF Init, Shape
<1>2. DOMAIN NoObjects = {}
  BY DEF NoObjects
<1>3. ASSUME NEW g \in Generations PROVE Wants(g) /\ Undisturbed(g)
  BY <1>2 DEF Init, Wants, Undisturbed
<1>4. ASSUME NEW g \in Generations, NEW r \in Resources PROVE Works(g, r) /\ Progress(g, r)
  BY DEF Init, Works, Progress
<1>5. QED
  BY <1>1, <1>3, <1>4 DEF Init, Inv, NeverEmptied

(* Every step.                                                             *)
LEMMA StepInv == Inv /\ [Next]_vars => Inv'
<1> SUFFICES ASSUME Inv, [Next]_vars PROVE Inv'
  OBVIOUS
<1>1. ASSUME NEW g \in Generations, GenerateOutput(g) PROVE Inv'
  <2>1. PICK in \in Inputs :
          /\ desired' = [desired EXCEPT ![g] = BuildNFDObjects(in)]
          /\ cleanup' = [cleanup EXCEPT ![g] = in.cleanup]
          /\ phase' = [phase EXCEPT ![g] = IF Refused(in) THEN "failed" ELSE "apply"]
          /\ todo' = [todo EXCEPT ![g] = [r \in Resources |-> Of(r, DOMAIN BuildNFDObjects(in))]]
          /\ step' = [step EXCEPT ![g] =
                         Begun([r \in Resources |-> Of(r, DOMAIN BuildNFDObjects(in))], "patch")]
    BY <1>1, Zenon DEF GenerateOutput, Set
  <2>2. alone' = [alone EXCEPT ![g] = TRUE] /\ UNCHANGED <<objects, overlapped, published>>
    BY <1>1 DEF GenerateOutput, Set
  <2> DEFINE want == BuildNFDObjects(in)
             first(r) == IF Of(r, DOMAIN want) = {} THEN "done" ELSE "patch"
  <2>3. Begun([r \in Resources |-> Of(r, DOMAIN want)], "patch") = [r \in Resources |-> first(r)]
    BY DEF Begun
  <2>4. /\ DOMAIN want \subseteq Names /\ in.cleanup \in BOOLEAN
        /\ \A x \in DOMAIN want : want[x] # NoObject
        /\ Refused(in) => DOMAIN want = {}
        /\ ~Refused(in) /\ in.cleanup => DOMAIN want # {}
    BY NamesAssumption, InputsAssumption, BuiltAreReal DEF Refused
  <2>5. /\ \A i \in Generations : /\ desired'[i] = IF i = g THEN want ELSE desired[i]
                                  /\ cleanup'[i] = IF i = g THEN in.cleanup ELSE cleanup[i]
                                  /\ phase'[i] = IF i = g THEN IF Refused(in) THEN "failed" ELSE "apply" ELSE phase[i]
                                  /\ alone'[i] = IF i = g THEN TRUE ELSE alone[i]
        /\ desired' = [i \in Generations |-> desired'[i]]
    BY <2>1, <2>2 DEF Inv, Shape
  <2>6. \A i \in Generations, r \in Resources :
          /\ todo'[i][r] = IF i = g THEN Of(r, DOMAIN want) ELSE todo[i][r]
          /\ step'[i][r] = IF i = g THEN first(r) ELSE step[i][r]
    BY <2>1, <2>3 DEF Inv, Shape
  <2> HIDE DEF want
  <2>7. Shape'
    <3>1. todo' \in [Generations -> [Resources -> SUBSET Names]]
      BY <2>1, <2>4 DEF Inv, Shape, Of, want
    <3>2. step' \in [Generations -> [Resources -> {"patch", "create", "again", "list",
                                                  "delete", "done", "failed"}]]
      BY <2>1, <2>3 DEF Inv, Shape, want
    <3>3. QED
      BY <2>1, <2>2, <2>4, <2>5, <3>1, <3>2 DEF Inv, Shape
  <2>8. ASSUME NEW i \in Generations PROVE Wants(i)' /\ Undisturbed(i)'
    <3>1. Wants(i) /\ Undisturbed(i)
      BY DEF Inv
    <3>2. CASE i = g
      <4>1. /\ desired'[i] = want /\ cleanup'[i] = in.cleanup /\ alone'[i] = TRUE
            /\ phase'[i] = IF Refused(in) THEN "failed" ELSE "apply"
        BY <2>5, <3>2
      <4>2. QED
        BY <2>4, <4>1 DEF Wants, Undisturbed
    <3>3. CASE i # g
      <4>1. desired'[i] = desired[i] /\ cleanup'[i] = cleanup[i] /\ alone'[i] = alone[i] /\ phase'[i] = phase[i]
        BY <2>5, <3>3
      <4>2. QED
        BY <2>2, <3>1, <4>1 DEF Wants, Undisturbed
    <3>4. QED
      BY <3>2, <3>3
  <2>9. ASSUME NEW i \in Generations, NEW r \in Resources PROVE Works(i, r)' /\ Progress(i, r)'
    <3>1. CASE i = g
      <4>1. Refused(in) => Of(r, DOMAIN want) = {}
        BY <2>4 DEF Of
      <4>2. /\ desired'[i] = want /\ phase'[i] = IF Refused(in) THEN "failed" ELSE "apply"
            /\ todo'[i][r] = Of(r, DOMAIN want) /\ step'[i][r] = first(r)
        BY <2>5, <2>6, <3>1
      <4>3. Works(i, r)'
        BY <4>1, <4>2 DEF Works
      <4>4. Progress(i, r)'
        BY <4>2 DEF Progress
      <4>5. QED
        BY <4>3, <4>4
    <3>2. CASE i # g
      <4>1. Works(i, r) /\ Progress(i, r)
        BY DEF Inv
      <4>2. /\ desired'[i] = desired[i] /\ cleanup'[i] = cleanup[i] /\ alone'[i] = alone[i] /\ phase'[i] = phase[i]
            /\ todo'[i][r] = todo[i][r] /\ step'[i][r] = step[i][r]
        BY <2>5, <2>6, <3>2
      <4>3. Works(i, r)'
        BY <4>1, <4>2 DEF Works
      <4>4. Progress(i, r)'
        BY <2>2, <4>1, <4>2 DEF Progress
      <4>5. QED
        BY <4>3, <4>4
    <3>3. QED
      BY <3>1, <3>2
  <2>10. QED
    BY <2>2, <2>7, <2>8, <2>9 DEF Inv, NeverEmptied, Existing
<1>2. ASSUME NEW g \in Generations, BuildFails(g) PROVE Inv'
  <2>1. /\ phase[g] = "start" /\ phase' = [phase EXCEPT ![g] = "failed"]
        /\ UNCHANGED <<objects, desired, cleanup, step, todo, alone, overlapped, published>>
    BY <1>2 DEF BuildFails, Set
  <2>2. \A i \in Generations : phase'[i] = IF i = g THEN "failed" ELSE phase[i]
    BY <2>1 DEF Inv, Shape
  <2>3. Shape' /\ NeverEmptied'
    BY <2>1 DEF Inv, Shape, NeverEmptied, Existing
  <2>4. ASSUME NEW i \in Generations PROVE Wants(i)' /\ Undisturbed(i)'
    BY <2>1, <2>2, SMT DEF Inv, Wants, Undisturbed
  <2>5. ASSUME NEW i \in Generations, NEW r \in Resources PROVE Works(i, r)' /\ Progress(i, r)'
    <3>1. Works(i, r) /\ Progress(i, r)
      BY DEF Inv
    <3>2. QED
      BY <2>1, <2>2, <3>1, SMT DEF Works, Progress
  <2>6. QED
    BY <2>3, <2>4, <2>5 DEF Inv
<1>3. ASSUME NEW g \in Generations, Wait(g) PROVE Inv'
  <2>1. /\ phase[g] \in {"apply", "cleanup"}
        /\ \A r \in Resources : step[g][r] \in {"done", "failed"}
        /\ UNCHANGED <<objects, alone, overlapped, published, desired, cleanup, todo>>
    BY <1>3 DEF Wait, quiet
  <2>2. CASE phase' = [phase EXCEPT ![g] = "failed"] /\ step' = step
    <3>1. \A i \in Generations : phase'[i] = IF i = g THEN "failed" ELSE phase[i]
      BY <2>2 DEF Inv, Shape
    <3>2. Shape' /\ NeverEmptied'
      BY <2>1, <2>2 DEF Inv, Shape, NeverEmptied, Existing
    <3>3. ASSUME NEW i \in Generations PROVE Wants(i)' /\ Undisturbed(i)'
      BY <2>1, <3>1 DEF Inv, Wants, Undisturbed
    <3>4. ASSUME NEW i \in Generations, NEW r \in Resources PROVE Works(i, r)' /\ Progress(i, r)'
      <4>1. Works(i, r) /\ Progress(i, r)
        BY DEF Inv
      <4>2. QED
        BY <2>1, <2>2, <3>1, <4>1, SMT DEF Works, Progress
    <3>5. QED
      BY <3>2, <3>3, <3>4 DEF Inv
  <2>3. CASE /\ \A r \in Resources : step[g][r] = "done"
             /\ phase' = [phase EXCEPT ![g] = After(g)]
             /\ step' = [step EXCEPT ![g] = [r \in Resources |->
                                               IF After(g) = "cleanup" THEN "list" ELSE "done"]]
    <3>1. /\ \A i \in Generations : phase'[i] = IF i = g THEN After(g) ELSE phase[i]
          /\ \A i \in Generations, r \in Resources :
                step'[i][r] = IF i = g THEN IF After(g) = "cleanup" THEN "list" ELSE "done" ELSE step[i][r]
          /\ step' \in [Generations -> [Resources -> {"patch", "create", "again", "list",
                                                      "delete", "done", "failed"}]]
      BY <2>3 DEF Inv, Shape
    <3>2. /\ After(g) \in {"cleanup", "ok"}
          /\ After(g) = "cleanup" => phase[g] = "apply" /\ cleanup[g]
          /\ After(g) = "ok" => phase[g] = "cleanup" \/ ~cleanup[g]
      BY <2>1 DEF After, Inv, Shape
    <3>3. Shape' /\ NeverEmptied'
      BY <2>1, <2>3, <3>1, <3>2, SMT DEF Inv, Shape, NeverEmptied, Existing
    <3>4. ASSUME NEW i \in Generations PROVE Wants(i)' /\ Undisturbed(i)'
      BY <2>1, <3>1, <3>2 DEF Inv, Wants, Undisturbed
    <3>5. ASSUME NEW r \in Resources PROVE Works(g, r)'
      <4>1. Works(g, r)
        BY DEF Inv
      <4>2. /\ phase'[g] = After(g) /\ todo'[g] = todo[g] /\ desired'[g] = desired[g]
            /\ step'[g][r] = IF After(g) = "cleanup" THEN "list" ELSE "done"
            /\ cleanup'[g] = cleanup[g] /\ step[g][r] = "done"
        BY <2>1, <2>3, <3>1
      <4>3. After(g) = "cleanup" => todo[g][r] = {} /\ cleanup[g]
        BY <2>3, <3>2, <4>1 DEF Works
      <4>4. QED
        BY <3>2, <4>2, <4>3 DEF Works
    <3>6. alone[g] => \A x \in DOMAIN desired[g] : objects[x] = desired[g][x]
      <4> SUFFICES ASSUME alone[g], NEW x \in DOMAIN desired[g] PROVE objects[x] = desired[g][x]
        OBVIOUS
      <4>1. x.resource \in Resources /\ x \in Of(x.resource, DOMAIN desired[g])
        BY OrderAssumption DEF Inv, Wants, Of
      <4>2. Works(g, x.resource) /\ Progress(g, x.resource)
        BY <4>1 DEF Inv
      <4>3. QED
        BY <2>1, <2>3, <4>1, <4>2 DEF Works, Progress
    <3>7. alone[g] /\ phase[g] = "cleanup" =>
            \A x \in Names : objects[x] # NoObject => x \in DOMAIN desired[g]
      <4> SUFFICES ASSUME alone[g], phase[g] = "cleanup", NEW x \in Names, objects[x] # NoObject
                   PROVE  x \in DOMAIN desired[g]
        OBVIOUS
      <4>1. x.resource \in Resources /\ x \in Of(x.resource, Names)
        BY OrderAssumption DEF Of
      <4>2. Progress(g, x.resource)
        BY <4>1 DEF Inv
      <4>3. QED
        BY <2>3, <4>1, <4>2 DEF Progress
    <3>8. ASSUME NEW r \in Resources PROVE Progress(g, r)'
      BY <2>1, <3>1, <3>2, <3>6, <3>7 DEF Progress
    <3>9. ASSUME NEW i \in Generations \ {g}, NEW r \in Resources PROVE Works(i, r)' /\ Progress(i, r)'
      <4>1. Works(i, r) /\ Progress(i, r)
        BY DEF Inv
      <4>2. phase'[i] = phase[i] /\ step'[i][r] = step[i][r]
        BY <3>1
      <4>3. Works(i, r)'
        BY <2>1, <4>1, <4>2 DEF Works
      <4>4. Progress(i, r)'
        BY <2>1, <4>1, <4>2, SMT DEF Progress
      <4>5. QED
        BY <4>3, <4>4
    <3>10. QED
      BY <3>3, <3>4, <3>5, <3>8, <3>9 DEF Inv
  <2>4. QED
    BY <1>3, <2>2, <2>3 DEF Wait, Set
<1>4. ASSUME NEW g \in Generations, NEW r \in Resources, PatchObject(g, r) PROVE Inv'
  <2>1. /\ step[g][r] \in {"patch", "again"} /\ UNCHANGED <<phase, desired, cleanup>>
        /\ phase[g] = "apply" /\ First(todo[g][r]) \in todo[g][r]
    BY <1>4, AtWork DEF PatchObject
  <2>2. CASE Write(g, First(todo[g][r]), desired[g][First(todo[g][r])]) /\ Advance(g, r, "patch")
    BY <2>1, <2>2, AdvanceKeeps
  <2>3. CASE /\ step' = [step EXCEPT ![g][r] = IF @ = "patch" THEN "create" ELSE "failed"]
             /\ UNCHANGED <<quiet, todo>>
    <3>1. PICK s \in {"create", "failed"} : step' = [step EXCEPT ![g][r] = s]
      BY <2>3
    <3>2. todo' = [todo EXCEPT ![g][r] = todo[g][r]] /\ todo[g][r] \in SUBSET Names
      BY <2>3, AtWork
    <3>3. s \in {"create", "again", "delete", "done", "failed"} /\ s # "delete" /\ s # "done"
          /\ todo[g][r] # {}
      BY <2>1
    <3>4. QED
      <4>1. phase[g] \in {"apply", "cleanup"} /\ phase[g] # "cleanup"
        BY <2>1
      <4>2. UNCHANGED <<quiet, phase, desired, cleanup>>
        BY <2>1, <2>3
      <4>3. QED
        BY <3>1, <3>2, <3>3, <4>1, <4>2, MoveKeeps
  <2>4. QED
    BY <1>4, <2>2, <2>3 DEF PatchObject
<1>5. ASSUME NEW g \in Generations, NEW r \in Resources, CreateObject(g, r) PROVE Inv'
  <2>1. /\ step[g][r] = "create" /\ UNCHANGED <<phase, desired, cleanup>>
        /\ phase[g] = "apply" /\ First(todo[g][r]) \in todo[g][r]
    BY <1>5, AtWork DEF CreateObject
  <2>2. CASE Write(g, First(todo[g][r]), desired[g][First(todo[g][r])]) /\ Advance(g, r, "patch")
    BY <2>1, <2>2, AdvanceKeeps
  <2>3. CASE step' = [step EXCEPT ![g][r] = "again"] /\ UNCHANGED <<quiet, todo>>
    <3>1. todo' = [todo EXCEPT ![g][r] = todo[g][r]] /\ todo[g][r] \in SUBSET Names
      BY <2>3, AtWork
    <3>2. QED
      BY <2>1, <2>3, <3>1, MoveKeeps
  <2>4. QED
    BY <1>5, <2>2, <2>3 DEF CreateObject
<1>6. ASSUME NEW g \in Generations, NEW r \in Resources, ListObjects(g, r) PROVE Inv'
  <2> DEFINE stale == Of(r, Existing) \ DOMAIN desired[g]
             s == IF stale = {} THEN "done" ELSE "delete"
  <2>1. /\ step' = [step EXCEPT ![g][r] = s] /\ todo' = [todo EXCEPT ![g][r] = stale]
        /\ UNCHANGED <<quiet, phase, desired, cleanup>> /\ phase[g] = "cleanup"
    BY <1>6, AtWork DEF ListObjects
  <2>2. /\ stale \in SUBSET Names /\ stale \cap DOMAIN desired[g] = {}
        /\ s \in {"delete", "done"} /\ (s = "delete" => stale # {})
        /\ \A x \in Of(r, Names) : objects[x] # NoObject =>
             x \in DOMAIN desired[g] \/ (s = "delete" /\ x \in stale)
    BY DEF Of, Existing
  <2> HIDE DEF stale, s
  <2>3. QED
    BY <2>1, <2>2, MoveKeeps
<1>7. ASSUME NEW g \in Generations, NEW r \in Resources, DeleteObject(g, r) PROVE Inv'
  <2>1. /\ step[g][r] = "delete" /\ UNCHANGED <<phase, desired, cleanup>>
        /\ phase[g] = "cleanup" /\ First(todo[g][r]) \in todo[g][r]
        /\ Write(g, First(todo[g][r]), NoObject) /\ Advance(g, r, "delete")
    BY <1>7, AtWork DEF DeleteObject
  <2>2. QED
    BY <2>1, AdvanceKeeps
<1>8. ASSUME NEW g \in Generations, NEW r \in Resources, CallFails(g, r) PROVE Inv'
  <2>1. /\ step' = [step EXCEPT ![g][r] = "failed"] /\ phase[g] \in {"apply", "cleanup"}
        /\ UNCHANGED <<quiet, phase, desired, cleanup, todo>>
    BY <1>8, AtWork DEF CallFails
  <2>2. todo' = [todo EXCEPT ![g][r] = todo[g][r]] /\ todo[g][r] \in SUBSET Names
    BY <2>1, AtWork
  <2>3. phase[g] = "cleanup" => todo[g][r] \cap DOMAIN desired[g] = {}
    BY DEF Inv, Works
  <2>4. QED
    BY <2>1, <2>2, <2>3, MoveKeeps
<1>9. ASSUME NEW g \in Generations, NEW r \in Resources, AnswerLost(g, r) PROVE Inv'
  <2> DEFINE x == First(todo[g][r])
  <2>1. /\ step' = [step EXCEPT ![g][r] = "failed"] /\ UNCHANGED <<phase, desired, cleanup>>
        /\ todo' = [todo EXCEPT ![g][r] = todo[g][r]]
    BY <1>9, AtWork DEF AnswerLost
  <2>2. CASE step[g][r] \in {"patch", "again", "create"} /\ Write(g, x, desired[g][x])
    <3>1. Writes(g, r, x, desired[g][x], "failed", todo[g][r])
      BY <2>1, <2>2, AtWork DEF Writes
    <3>2. QED
      BY <3>1, WriteKeeps
  <2>3. CASE step[g][r] = "delete" /\ Write(g, x, NoObject)
    <3>1. Writes(g, r, x, NoObject, "failed", todo[g][r])
      BY <2>1, <2>3, AtWork DEF Writes
    <3>2. QED
      BY <3>1, WriteKeeps
  <2>4. QED
    BY <1>9, <2>2, <2>3 DEF AnswerLost
<1>10. CASE UNCHANGED vars
  <2>1. UNCHANGED <<objects, phase, desired, cleanup, step, todo, alone, overlapped, published>>
    BY <1>10 DEF vars
  <2>2. Shape' /\ NeverEmptied'
    BY <2>1 DEF Inv, Shape, NeverEmptied, Existing
  <2>3. ASSUME NEW i \in Generations PROVE Wants(i)' /\ Undisturbed(i)'
    BY <2>1 DEF Inv, Wants, Undisturbed
  <2>4. ASSUME NEW i \in Generations, NEW r \in Resources PROVE Works(i, r)' /\ Progress(i, r)'
    <3>1. Works(i, r) /\ Progress(i, r)
      BY DEF Inv
    <3>2. QED
      BY <2>1, <3>1 DEF Works, Progress
  <2>5. QED
    BY <2>2, <2>3, <2>4 DEF Inv
<1>11. QED
  BY <1>1, <1>2, <1>3, <1>4, <1>5, <1>6, <1>7, <1>8, <1>9, <1>10 DEF Next

-----------------------------------------------------------------------------
(* A generation that succeeds while no other writes leaves exactly its     *)
(* objects (at least them, without clean-up).                              *)
THEOREM Success == Spec => []SuccessIsExact
<1>1. Inv => SuccessIsExact
  <2>1. \E r : r \in Resources
    BY DEF Resources
  <2>2. ASSUME Inv, NEW g \in Generations, phase[g] = "ok", alone[g]
        PROVE  /\ \A x \in DOMAIN desired[g] : x \in Names /\ desired[g][x] # NoObject /\ objects[x] = desired[g][x]
               /\ cleanup[g] => \A x \in Names : objects[x] # NoObject => x \in DOMAIN desired[g]
    <3>1. PICK r \in Resources : Progress(g, r)
      BY <2>1, <2>2 DEF Inv
    <3>2. Wants(g)
      BY <2>2 DEF Inv
    <3>3. QED
      BY <2>2, <3>1, <3>2 DEF Wants, Progress
  <2>3. QED
    BY <2>2 DEF SuccessIsExact, Existing
<1>2. QED
  BY <1>1, InitInv, StepInv, PTL DEF Spec

(* Unless generations overlap, published objects are never all gone.       *)
THEOREM NotEmptied == Spec => []NeverEmptied
<1>1. Inv => NeverEmptied
  BY DEF Inv
<1>2. QED
  BY <1>1, InitInv, StepInv, PTL DEF Spec

-----------------------------------------------------------------------------
(* A set of objects has a group for every value of its features.           *)
Closed(want) ==
    \A x \in Of("NodeFeature", DOMAIN want), k \in Kinds :
        want[x].elements[k] # None =>
            NodeFeatureGroup(k, want[x].elements[k]) \in DOMAIN want

LEMMA BuiltAreClosed ==
    ASSUME NEW in \in Inputs PROVE Closed(BuildNFDObjects(in))
<1> SUFFICES ASSUME NEW x \in DOMAIN BuildNFDObjects(in), x.resource = "NodeFeature",
                    NEW k \in Kinds, BuildNFDObjects(in)[x].elements[k] # None
             PROVE  NodeFeatureGroup(k, BuildNFDObjects(in)[x].elements[k])
                      \in DOMAIN BuildNFDObjects(in)
  BY DEF Closed, Of
<1>1. \A y \in Groups(in) : y.resource = "NodeFeatureGroup"
  BY SMT DEF Groups, NodeFeatureGroup
<1>2. PICK n \in Featured(in) : x = NodeFeature(n)
  BY <1>1 DEF BuildNFDObjects
<1>3. x.of = n
  BY <1>2, SMT DEF NodeFeature
<1>4. BuildNFDObjects(in)[x].elements = Elements(in, n)
  BY <1>3 DEF BuildNFDObjects
<1>5. n \in DOMAIN in.labels
  BY DEF Featured
<1>6. Elements(in, n)[k] \in Values \cup {None}
  BY <1>5, LabelsAssumption DEF Elements
<1>7. NodeFeatureGroup(k, Elements(in, n)[k]) \in Groups(in)
  <2>1. Elements(in, n)[k] \in Values
    BY <1>4, <1>6
  <2>2. QED
    BY <2>1, SMT DEF Groups
<1>8. QED
  BY <1>4, <1>7 DEF BuildNFDObjects

(* While every generation so far has succeeded or is still applying, and   *)
(* none overlapped, the group of a published value is there or is still to *)
(* be applied.                                                             *)
Calm == ~overlapped /\ \A g \in Generations : phase[g] \notin {"cleanup", "failed"}

Promised ==
    Existing \cup UNION {DOMAIN desired[g] : g \in {i \in Generations : phase[i] = "apply"}}

Grouped ==
    /\ \A g \in Generations : Closed(desired[g])
    /\ Calm => \A x \in Of("NodeFeature", Existing), k \in Kinds :
                  objects[x].elements[k] # None =>
                      NodeFeatureGroup(k, objects[x].elements[k]) \in Promised

(* A step that writes nothing and moves no generation.                     *)
LEMMA QuietKeepsGroups ==
    ASSUME Grouped, UNCHANGED <<objects, phase, desired, overlapped>> PROVE Grouped'
<1>1. Existing' = Existing
  BY DEF Existing
<1>2. Promised' = Promised
  BY <1>1 DEF Promised
<1>3. Calm' => Calm
  BY DEF Calm
<1>4. QED
  BY <1>1, <1>2, <1>3 DEF Grouped

(* A write of the apply phase promises the groups of the value it writes.  *)
LEMMA ApplyKeepsGroups ==
    ASSUME Inv, Grouped, NEW g \in Generations, phase[g] = "apply",
           NEW x \in DOMAIN desired[g], Write(g, x, desired[g][x]),
           UNCHANGED <<phase, desired>>
    PROVE  Grouped'
<1>1. /\ x \in Names /\ desired[g][x] # NoObject
      /\ \A y \in Names : objects'[y] = IF y = x THEN desired[g][x] ELSE objects[y]
      /\ overlapped => overlapped'
  BY DEF Inv, Wants, Shape, Write
<1>2. Existing \subseteq Existing'
  BY <1>1 DEF Existing
<1>3. Calm' => Calm
  BY <1>1 DEF Calm
<1>4. Promised \subseteq Promised'
  BY <1>2 DEF Promised
<1>5. ASSUME Calm', NEW y \in Of("NodeFeature", Existing'), NEW k \in Kinds,
             objects'[y].elements[k] # None
      PROVE  NodeFeatureGroup(k, objects'[y].elements[k]) \in Promised'
  <2>1. y \in Names /\ y.resource = "NodeFeature" /\ objects'[y] # NoObject
    BY <1>5 DEF Of, Existing
  <2>2. CASE y = x
    <3>1. objects'[y] = desired[g][x] /\ x \in Of("NodeFeature", DOMAIN desired[g])
      BY <1>1, <2>1, <2>2 DEF Of
    <3>2. NodeFeatureGroup(k, objects'[y].elements[k]) \in DOMAIN desired[g]
      BY <1>5, <3>1 DEF Grouped, Closed
    <3>3. QED
      BY <3>2 DEF Promised
  <2>3. CASE y # x
    <3>1. objects'[y] = objects[y] /\ y \in Of("NodeFeature", Existing)
      BY <1>1, <2>1, <2>3 DEF Of, Existing
    <3>2. NodeFeatureGroup(k, objects[y].elements[k]) \in Promised
      BY <1>3, <1>5, <3>1 DEF Grouped
    <3>3. QED
      BY <1>4, <3>1, <3>2
  <2>4. QED
    BY <2>2, <2>3
<1>6. QED
  BY <1>5 DEF Grouped

(* When a generation ends in success it has kept its promise; one that     *)
(* cleaned up has left nothing but its own objects.                        *)
LEMMA WaitKeepsGroups ==
    ASSUME Inv, Inv', Grouped, NEW g \in Generations, Wait(g) PROVE Grouped'
<1>1. /\ phase[g] \in {"apply", "cleanup"}
      /\ UNCHANGED <<objects, alone, overlapped, desired, cleanup>>
      /\ \A i \in Generations : i # g => phase'[i] = phase[i]
      /\ phase'[g] \in {"failed", "cleanup", "ok"}
      /\ phase'[g] = "ok" => phase[g] = "cleanup" \/ ~cleanup[g]
  <2>1. /\ phase[g] \in {"apply", "cleanup"}
        /\ UNCHANGED <<objects, alone, overlapped, desired, cleanup>>
    BY DEF Wait, quiet
  <2>2. PICK p \in {"failed", After(g)} : phase' = [phase EXCEPT ![g] = p]
    BY DEF Wait, Set
  <2>3. phase'[g] = p /\ \A i \in Generations : i # g => phase'[i] = phase[i]
    BY <2>2 DEF Inv, Shape
  <2>4. QED
    BY <2>1, <2>2, <2>3 DEF After
<1>2. \A i \in Generations : Closed(desired[i])'
  BY <1>1 DEF Grouped
<1>3. ASSUME Calm', NEW x \in Of("NodeFeature", Existing'), NEW k \in Kinds,
             objects'[x].elements[k] # None
      PROVE  NodeFeatureGroup(k, objects'[x].elements[k]) \in Promised'
  <2>1. phase'[g] = "ok" /\ ~overlapped /\ alone[g]
    BY <1>1, <1>3 DEF Calm, Inv, Undisturbed
  <2>2. /\ x \in Names /\ x.resource = "NodeFeature" /\ objects[x] # NoObject
        /\ x \in Of("NodeFeature", Existing) /\ objects[x].elements[k] # None
    BY <1>1, <1>3 DEF Of, Existing
  <2>3. PICK r \in Resources : Progress(g, r)' /\ Works(g, r)
    BY DEF Resources, Inv
  <2>4. /\ \A y \in DOMAIN desired[g] : objects[y] = desired[g][y]
        /\ cleanup[g] => \A y \in Names : objects[y] # NoObject => y \in DOMAIN desired[g]
    BY <1>1, <2>1, <2>3, SMT DEF Progress
  <2>5. DOMAIN desired[g] \subseteq Existing'
    BY <1>1, <2>4 DEF Inv, Wants, Existing
  <2> DEFINE y == NodeFeatureGroup(k, objects[x].elements[k])
  <2>6. CASE cleanup[g] /\ x \in DOMAIN desired[g]
    <3>1. x \in Of("NodeFeature", DOMAIN desired[g]) /\ objects[x] = desired[g][x]
      BY <2>2, <2>4, <2>6 DEF Of
    <3>2. y \in DOMAIN desired[g]
      BY <2>2, <3>1 DEF Grouped, Closed
    <3>3. QED
      BY <1>1, <2>5, <3>2 DEF Promised
  <2>7. CASE phase[g] = "apply"
    <3>1. Calm
      BY <1>1, <1>3, <2>7 DEF Calm
    <3>2. y \in Promised
      BY <2>2, <3>1 DEF Grouped
    <3> HIDE DEF y
    <3>3. y \in Existing => y \in Existing'
      BY <1>1 DEF Existing
    <3>4. ASSUME NEW i \in Generations, phase[i] = "apply", y \in DOMAIN desired[i]
          PROVE  y \in Promised'
      <4>1. CASE i = g
        BY <2>5, <3>4, <4>1 DEF Promised
      <4>2. CASE i # g
        BY <1>1, <3>4, <4>2 DEF Promised
      <4>3. QED
        BY <4>1, <4>2
    <3>5. y \in Promised'
      BY <3>2, <3>3, <3>4 DEF Promised
    <3>6. QED
      BY <1>1, <3>5 DEF y
  <2>8. phase[g] = "cleanup" => cleanup[g]
    BY <2>3 DEF Works
  <2>9. QED
    BY <1>1, <2>2, <2>4, <2>6, <2>7, <2>8
<1>4. QED
  BY <1>2, <1>3 DEF Grouped

LEMMA StepGrouped ==
    ASSUME Inv, Inv', Grouped, [Next]_vars PROVE Grouped'
<1>1. ASSUME NEW g \in Generations, GenerateOutput(g) PROVE Grouped'
  <2>1. PICK in \in Inputs :
          /\ desired' = [desired EXCEPT ![g] = BuildNFDObjects(in)]
          /\ phase' = [phase EXCEPT ![g] = IF Refused(in) THEN "failed" ELSE "apply"]
    BY <1>1 DEF GenerateOutput, Set
  <2>2. phase[g] = "start" /\ UNCHANGED <<objects, overlapped>>
    BY <1>1 DEF GenerateOutput
  <2>3. /\ desired'[g] = BuildNFDObjects(in)
        /\ phase'[g] = IF Refused(in) THEN "failed" ELSE "apply"
        /\ \A i \in Generations : i # g => desired'[i] = desired[i] /\ phase'[i] = phase[i]
    BY <2>1 DEF Inv, Shape
  <2>4. \A i \in Generations : Closed(desired'[i])
    BY <2>3, BuiltAreClosed DEF Grouped
  <2>5. Calm' => Calm
    BY <2>2, <2>3 DEF Calm
  <2>6. Existing' = Existing /\ Promised \subseteq Promised'
    <3>1. Existing' = Existing
      BY <2>2 DEF Existing
    <3>2. ASSUME NEW i \in Generations, phase[i] = "apply"
          PROVE  phase'[i] = "apply" /\ desired'[i] = desired[i]
      <4>1. i # g
        BY <2>2, <3>2
      <4>2. QED
        BY <2>3, <3>2, <4>1
    <3>3. QED
      BY <3>1, <3>2 DEF Promised
  <2>7. QED
    BY <2>2, <2>4, <2>5, <2>6 DEF Grouped
<1>2. ASSUME NEW g \in Generations, BuildFails(g) PROVE Grouped'
  <2>1. phase'[g] = "failed" /\ desired' = desired
    BY <1>2 DEF BuildFails, Set, Inv, Shape
  <2>2. QED
    BY <2>1 DEF Grouped, Calm
<1>3. ASSUME NEW g \in Generations, NEW r \in Resources, NEW x,
             Write(g, x, NoObject), phase[g] = "cleanup", UNCHANGED <<phase, desired>>
      PROVE  Grouped'
  BY <1>3 DEF Grouped, Calm
<1>4. ASSUME NEW g \in Generations, NEW r \in Resources,
             step[g][r] \in {"patch", "create", "again"},
             Write(g, First(todo[g][r]), desired[g][First(todo[g][r])]),
             UNCHANGED <<phase, desired>>
      PROVE  Grouped'
  <2>1. phase[g] = "apply" /\ First(todo[g][r]) \in todo[g][r]
    BY <1>4, AtWork
  <2>2. todo[g][r] \subseteq DOMAIN desired[g]
    <3>1. Works(g, r)
      BY DEF Inv
    <3>2. QED
      BY <2>1, <3>1 DEF Works, Of
  <2>3. QED
    BY <1>4, <2>1, <2>2, ApplyKeepsGroups
<1>5. ASSUME NEW g \in Generations, NEW r \in Resources, AnswerLost(g, r) PROVE Grouped'
  <2>1. CASE step[g][r] = "delete" /\ Write(g, First(todo[g][r]), NoObject)
    BY <1>3, <1>5, <2>1, AtWork DEF AnswerLost
  <2>2. CASE /\ step[g][r] \in {"patch", "create", "again"}
             /\ Write(g, First(todo[g][r]), desired[g][First(todo[g][r])])
    BY <1>4, <1>5, <2>2 DEF AnswerLost
  <2>3. QED
    BY <1>5, <2>1, <2>2 DEF AnswerLost
<1>6. ASSUME NEW g \in Generations, NEW r \in Resources, PatchObject(g, r) PROVE Grouped'
  BY <1>4, <1>6, QuietKeepsGroups DEF PatchObject, quiet
<1>7. ASSUME NEW g \in Generations, NEW r \in Resources, CreateObject(g, r) PROVE Grouped'
  BY <1>4, <1>7, QuietKeepsGroups DEF CreateObject, quiet
<1>8. ASSUME NEW g \in Generations, NEW r \in Resources,
             ListObjects(g, r) \/ CallFails(g, r)
      PROVE  Grouped'
  BY <1>8, QuietKeepsGroups DEF ListObjects, CallFails, quiet
<1>9. ASSUME NEW g \in Generations, NEW r \in Resources, DeleteObject(g, r) PROVE Grouped'
  BY <1>3, <1>9, AtWork DEF DeleteObject
<1>10. CASE UNCHANGED vars
  BY <1>10, QuietKeepsGroups DEF vars
<1>11. QED
  BY <1>1, <1>2, <1>5, <1>6, <1>7, <1>8, <1>9, <1>10, WaitKeepsGroups DEF Next

(* Unless generations overlap, every value a feature publishes has its     *)
(* group when all generations have succeeded: an overlap is the only way   *)
(* in which clean-up contradicts the comment on buildNFDObjects.           *)
THEOREM GroupedUnlessOverlapped == Spec => [](~overlapped => EveryValueHasGroup)
<1>1. Init => Grouped
  <2> SUFFICES ASSUME Init PROVE Grouped
    OBVIOUS
  <2>1. DOMAIN NoObjects = {} /\ \A g \in Generations : desired[g] = NoObjects
    BY DEF Init, NoObjects
  <2>2. Existing = {}
    BY DEF Init, Existing
  <2>3. QED
    BY <2>1, <2>2 DEF Grouped, Closed, Of
<1>2. Inv /\ Inv' /\ Grouped /\ [Next]_vars => Grouped'
  BY StepGrouped
<1>3. Grouped => (~overlapped => EveryValueHasGroup)
  <2> SUFFICES ASSUME Grouped, ~overlapped, \A g \in Generations : phase[g] = "ok",
                      NEW x \in Of("NodeFeature", Existing), NEW k \in Kinds,
                      objects[x].elements[k] # None
               PROVE  NodeFeatureGroup(k, objects[x].elements[k]) \in Existing
    BY DEF EveryValueHasGroup
  <2>1. Calm
    BY DEF Calm
  <2>2. NodeFeatureGroup(k, objects[x].elements[k]) \in Promised
    BY <2>1 DEF Grouped
  <2>3. QED
    BY <2>2 DEF Promised
<1>4. QED
  BY <1>1, <1>2, <1>3, InitInv, StepInv, PTL DEF Spec
=============================================================================
