----------------------------- MODULE MCQemuPipe -----------------------------
(* Instances of QemuPipe for TLC.                                          *)
EXTENDS QemuPipe, TLC

(* Connections, sessions and descriptors are interchangeable: sound for    *)
(* the runs that check invariants only.                                    *)
Symmetry == Permutations(Conns) \cup Permutations(Sessions) \cup Permutations(Fds)
=============================================================================
