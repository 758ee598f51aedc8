------------------------- MODULE MCTokenCredential --------------------------
(* The credential for TLC.                                                 *)
EXTENDS TokenCredential

(* A key that is dead when its answer arrives, one time unit after it was  *)
(* minted, and one that is not.  With the three ways to learn its deadline *)
(* there are keys that outlive the refresh window, by their deadline, ones *)
(* that do not, and ones that die before it.                               *)
MCLives == {-1, 3}
=============================================================================
