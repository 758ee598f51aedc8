---------------------------- MODULE MCK8sLabels -----------------------------
(* The Kubernetes engine for TLC: a node in the selection and one that may *)
(* be moved in and out of it, labels left by an older configuration, and   *)
(* graphs that name both nodes, one or none.                               *)
EXTENDS K8sLabels, TLC

CONSTANTS n1, n2, h1, h2

MCNodes == {n1, n2}
MCSymmetry == Permutations({h1, h2})
MCTierKeys == <<"tier-0", "tier-1">>
MCDefaultLabels == <<>>

(* The first tier is labelled under the key of the source label.           *)
MCSharedLabels == <<"source", "tier-1">>

Label(k, v) == [x \in Keys |-> IF x = k THEN v ELSE IF x = Pool THEN Selected ELSE None]

(* Labels of an earlier generation, by default keys, in and outside the    *)
(* pool.                                                                   *)
MCOldLabels == {Label("tier-0", "s1"), [Label("tier-0", "s1") EXCEPT ![Pool] = "other"]}

(* All identified nodes; node n2 by name; no resolution.                   *)
MCRequests == {[resolve |-> TRUE, names |-> {}], [resolve |-> TRUE, names |-> {n2}],
               [resolve |-> FALSE, names |-> {}]}

Domain(n, d, s) == [node |-> n, domain |-> d, sub |-> s]
Empties == [n \in {} |-> <<>>]

MCGraphs ==
    {[tiers |-> TRUE, paths |-> [n \in MCNodes |-> <<"s1", "t">>],
      domains |-> {Domain(n1, "d1", "p")}],
     [tiers |-> TRUE, paths |-> [n \in {n1} |-> <<"s2">>], domains |-> {}],
     [tiers |-> FALSE, paths |-> Empties, domains |-> {}],
     [tiers |-> FALSE, paths |-> Empties,
      domains |-> {Domain(n2, "d1", None), Domain(n2, "d2", None)}]}

MCWrites == {<<Source, "x">>, <<Pool, "other">>, <<Pool, Selected>>}
=============================================================================
