--------------------------- MODULE MCTouchBridge ---------------------------
(* Instances of TouchBridge for TLC.                                       *)
EXTENDS TouchBridge, TLC

(* Keys are interchangeable.                                               *)
Symmetry == Permutations(NavKeys)
=============================================================================
