------------------------- MODULE MCEngineLifecycle -------------------------
(* An instance of EngineLifecycle for TLC.                                 *)
EXTENDS EngineLifecycle, TLC

(* Activities are interchangeable, and so are slots.                       *)
Symmetry == Permutations(Activities) \cup Permutations(Slots)
=============================================================================
