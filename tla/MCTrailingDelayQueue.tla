------------------------ MODULE MCTrailingDelayQueue ------------------------
(* Instances of TrailingDelayQueue for TLC.                                *)
EXTENDS TrailingDelayQueue

CONSTANTS r1, r2, r3, hA, hB

(* r1 and r2 differ only in nodes or credentials, which the hash ignores.  *)
MCItems == {r1, r2, r3}
MCHashes == {hA, hB}
MCHashOf == [i \in MCItems |-> IF i = r3 THEN hB ELSE hA]
=============================================================================
