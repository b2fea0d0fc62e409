--------------------------- MODULE MCSparseImage ---------------------------
(* Instances of SparseImage for TLC.                                       *)
EXTENDS SparseImage
=============================================================================
