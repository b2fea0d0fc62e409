---------------------------- MODULE MCGsiImport ----------------------------
(* Instances of GsiImport for TLC: two imports of one kind are not alike,  *)
(* and one run has a liveness property, so there is no symmetry set.       *)
EXTENDS GsiImport
=============================================================================
