---------------------------- MODULE MCNfdObjects ----------------------------
(* The NFD engine for TLC: two generations, whose topologies agree on some *)
(* objects, differ in others, or are empty, with clean-up or without.      *)
EXTENDS NfdObjects, TLC

CONSTANTS n1, n2, g1, g2

MCNodes == {n1, n2}
MCSymmetry == Permutations({g1, g2})
MCOrder ==
    <<NodeFeature(n1), NodeFeature(n2),
      NodeFeatureGroup(Domain, "d1"), NodeFeatureGroup(Domain, "d2"),
      NodeFeatureGroup(SubDomain, "p")>>

Labels(d, s) == [k \in Kinds |-> IF k = Domain THEN d ELSE s]
NoSource == [n \in MCNodes |-> None]
Input(l, s, c) == [labels |-> l, source |-> s, cleanup |-> c]

MCInputs ==
    {Input([n \in {n1} |-> Labels("d1", "p")], NoSource, c) : c \in BOOLEAN} \cup
    {Input([n \in MCNodes |-> Labels(IF n = n1 THEN "d2" ELSE None, None)],
           NoSource, TRUE),
     Input([n \in MCNodes |-> Labels("d1", "p")],
           [n \in MCNodes |-> IF n = n2 THEN "d1" ELSE None], TRUE)} \cup
    {Input([n \in {n2} |-> Labels(None, None)], NoSource, c) : c \in BOOLEAN}
=============================================================================
