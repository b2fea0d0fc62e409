--------------------------- MODULE MCSeccompTrap ---------------------------
(* Instances of SeccompTrap for TLC.                                       *)
EXTENDS SeccompTrap

From(numbers, paths) == [nr : numbers, path : paths, dir : {"cwd"}]

(* Every call with every path.                                             *)
AllCalls == From(Numbers, Paths)

(* The calls that need the VFS router, or a trap of their own.             *)
RouterCalls == From({"openat", "faccessat"}, {"relative", "below"})
=============================================================================
