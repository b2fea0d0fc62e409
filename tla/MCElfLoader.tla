---------------------------- MODULE MCElfLoader ----------------------------
(* An instance of ElfLoader for TLC: programs that differ in how their     *)
(* segments lie in the pages, in the interpreter, and in what is on the    *)
(* stack.                                                                  *)
EXTENDS ElfLoader

File(type, segments, length, phdrAt) ==
  [type |-> type, segments |-> segments, entry |-> 1, length |-> length, phdrAt |-> phdrAt]
Seg(v, m, o, f, flags) == [vaddr |-> v, memsz |-> m, offset |-> o, filesz |-> f, flags |-> flags]

(* Text is read from the start of the file, data from behind it.           *)
Texts == {Seg(v, m, 0, f, {"R", "X"}) : v \in 0..2, m \in 1..3, f \in 0..3}
Datas == {Seg(v, m, 3, f, {"R", "W"}) : v \in 2..6, m \in 1..3, f \in 0..3}
Sound(s) == s.filesz <= s.memsz

Small == File("dyn", <<Seg(0, 2, 0, 2, {"R", "X"})>>, 8, None)
Linker == File("dyn", <<Seg(1, 2, 0, 2, {"R", "X"}), Seg(4, 2, 2, 1, {"R", "W"})>>, 8, None)
Program(bin, interp, args, env) == [bin |-> bin, interp |-> interp, args |-> args, env |-> env]

Layouts ==
  {Program(File("dyn", <<t, d>>, 5, None), None, 1, 0) :
     t \in {s \in Texts : Sound(s)}, d \in {s \in Datas : Sound(s)}}
Interpreted ==
  {Program(Small, interp, 1, 1) :
     interp \in {Missing, Linker, File("dyn", <<>>, 0, None)}}
Stacks ==
  {Program(bin, None, args, env) :
     args \in 0..3, env \in 0..2,
     bin \in {Small, File("dyn", Small.segments, 8, 1),
              File("exec", <<Seg(4, 2, 0, 2, {"R", "X"})>>, 8, None)}}

MCPrograms == Layouts \cup Interpreted \cup Stacks
=============================================================================
