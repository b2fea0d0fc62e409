-------------------------- MODULE MCGuestLifecycle --------------------------
(* Instances of GuestLifecycle for TLC.                                    *)
EXTENDS GuestLifecycle, TLC

(* The activities are interchangeable: sound for the runs that check       *)
(* invariants only.                                                        *)
Symmetry == Permutations(Activities)
=============================================================================
