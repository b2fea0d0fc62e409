----------------------------- MODULE ElfLoader -----------------------------
(***************************************************************************)
(* ElfLoader::execute (core/elf_loader.cpp): a program and its interpreter *)
(* are mapped into the running process and entered with a new stack, where *)
(* the kernel's execve would have started afresh.  The process is that of  *)
(* the loader, or of a guest whose execve is trapped: its other threads    *)
(* map and unmap memory of their own meanwhile, and go on after a failure. *)
(*                                                                         *)
(* Memory is counted in words of 8 bytes, PageSize of them to a page.  A   *)
(* file is [type, segments, entry, length], a segment                      *)
(* [vaddr, memsz, offset, filesz, flags], and phdrAt is the address the    *)
(* headers have by PT_PHDR, or None.                                       *)
(***************************************************************************)
EXTENDS Integers, Sequences, SequencesExt, FiniteSets

CONSTANTS Programs,  (* [bin, interp, args, env] to execute                *)
          None,      (* no interpreter needed, no PT_PHDR, nothing mapped  *)
          Missing,   (* the interpreter is not found at any place          *)
          LastPage,  (* bound: the memory of the process                   *)
          PageSize, Slack,   (* 4: pages reserved beyond what is needed    *)
          Phoff,     (* where the files have their program headers         *)
          MaxOthers  (* bound: the pages of other threads                  *)

ASSUME ElfLoaderAssumption ==
  /\ LastPage \in Nat /\ Slack \in Nat /\ PageSize \in Nat \ {0} /\ PageSize % 2 = 0
  /\ Phoff \in Nat

(* A file has an ELF header, and what execute reads without a test is as   *)
(* the format has it: no segment has more in the file than in memory.      *)
SegmentRecord ==
  [vaddr : Nat, memsz : Nat, offset : Nat, filesz : Nat, flags : SUBSET {"R", "W", "X"}]
IsImage(file) ==
  /\ file.type \in {"dyn", "exec"} /\ file.entry \in Nat /\ file.length \in Nat
  /\ file.segments \in Seq(SegmentRecord) /\ (file.phdrAt # None => file.phdrAt \in Nat)
  /\ \A j \in 1..Len(file.segments) : file.segments[j].filesz <= file.segments[j].memsz

ASSUME ProgramsAssumption ==
  \A p \in Programs :
    /\ IsImage(p.bin) /\ (p.interp \in {None, Missing} \/ IsImage(p.interp))
    /\ p.args \in Nat /\ p.env \in Nat

VARIABLES program,   (* the arguments of execute, fixed                    *)
          pc,        (* open, map, interp, mapInterp, stack or how it ended*)
          seg,       (* the segment mapped next                            *)
          map,       (* per page: who mapped it and its protection         *)
          data,      (* per word: what is there                            *)
          base, interpBase,
          stack,     (* the words from the stack pointer up                *)
          others,    (* the pages other threads rely on                    *)
          ignored    (* a mapping of the interpreter failed unnoticed      *)

loadVars == <<program, pc, seg, map, data, base, interpBase, stack, others, ignored>>

Pages == 0..LastPage
Words == 0..((LastPage + 1) * PageSize - 1)
Zero  == <<"zero", 0>>
Owners == {"other", "reserved", "bin", "interp", "stack"}
Owned(owner, prot) == [owner |-> owner, prot |-> prot]

ASSUME NoneAssumption ==
  \A owner \in Owners : \A prot \in SUBSET {"R", "W", "X"} : None # Owned(owner, prot)

LoadInit ==
  /\ program \in Programs
  /\ pc = "open" /\ seg = 1 /\ base = 0 /\ interpBase = 0
  /\ others = {0}
  /\ map = [p \in Pages |-> IF p = 0 THEN Owned("other", {}) ELSE None]
  /\ data = [w \in Words |-> Zero]
  /\ stack = <<>> /\ ignored = FALSE

-----------------------------------------------------------------------------
PagesUp(words) == (words + PageSize - 1) \div PageSize
PageOf(word) == word \div PageSize

(* mmap without MAP_FIXED: n free pages, wherever the kernel finds them;   *)
(* the first and the last possible place stand for all.                    *)
Mmap(n) ==
  LET free == {p \in Pages : p + n - 1 \in Pages /\ \A q \in p..(p + n - 1) : map[q] = None}
  IN  IF free = {} THEN {} ELSE {Min(free), Max(free)}
Taken(first, n, owner) ==
  [p \in Pages |-> IF p \in first..(first + n - 1) THEN Owned(owner, {}) ELSE map[p]]

(* The pages between the lowest and the highest address; without any       *)
(* segment, maxVaddr - minVaddr wraps around to 1.                         *)
Span(file) ==
  IF file.segments = <<>> THEN 1
  ELSE LET segments == ToSet(file.segments)
       IN  PagesUp(Max({s.vaddr + s.memsz : s \in segments}) - Min({s.vaddr : s \in segments}))

(* Mutation: only what is needed, if the lowest address is 0, is reserved. *)
ReservedBarely(file) == Span(file)

Reserved(file) == Span(file) + Slack

(* Mutation: the offset of the segment in its first page is forgotten.     *)
SegmentPagesShort(s, at) ==
  PageOf(at + s.vaddr)..(PageOf(at + s.vaddr) + PagesUp(s.memsz) - 1)

(* The pages that are mapped for a segment of a file loaded at an address. *)
SegmentPages(s, at) ==
  PageOf(at + s.vaddr)..
    (PageOf(at + s.vaddr) + PagesUp(s.memsz + ((at + s.vaddr) % PageSize)) - 1)

(* What the i-th word of a segment is: from the file, as far as it goes.   *)
Content(file, name, s, i) ==
  IF i \in 0..(s.filesz - 1) /\ s.offset + i < file.length THEN <<name, s.offset + i>> ELSE Zero

OpenFails == pc = "open" /\ pc' = "failed" /\ UNCHANGED <<seg, map, data, base, interpBase, stack, ignored>>

(* A position independent program gets a place that is kept for it, any    *)
(* other lands where it says.                                              *)
Reserve ==
  /\ pc = "open" /\ pc' = "map"
  /\ IF program.bin.type = "dyn"
     THEN \E p \in Mmap(Reserved(program.bin)) :
            /\ base' = p * PageSize
            /\ map' = Taken(p, Reserved(program.bin), "reserved")
     ELSE base' = 0 /\ UNCHANGED map
  /\ UNCHANGED <<seg, data, interpBase, stack, ignored>>

Loading == IF pc = "map" THEN program.bin ELSE program.interp
LoadingAt == IF pc = "map" THEN base ELSE interpBase
Segment == Loading.segments[seg]
MapsSegment == pc \in {"map", "mapInterp"} /\ seg <= Len(Loading.segments)
Protect(pages, name) ==
  map' = [p \in Pages |-> IF p \in pages THEN Owned(name, Segment.flags) ELSE map[p]]

(* mmap with MAP_FIXED, which maps at least a page or fails, read, clear   *)
(* the rest, mprotect.                                                     *)
MapSegment ==
  LET pages == SegmentPages(Segment, LoadingAt)
      name  == IF pc = "map" THEN "bin" ELSE "interp"
  IN
  /\ MapsSegment /\ pages # {} /\ pages \subseteq Pages
  /\ Protect(pages, name)
  /\ data' = [w \in Words |->
                IF PageOf(w) \notin pages THEN data[w]
                ELSE Content(Loading, name, Segment, w - LoadingAt - Segment.vaddr)]
  /\ seg' = seg + 1
  /\ UNCHANGED <<pc, base, interpBase, stack, ignored>>

(* Only for the program itself a failure is noticed.  In the reserved      *)
(* pages of the interpreter read then fails too, and clearing crashes.     *)
MapSegmentFails ==
  /\ MapsSegment
  /\ IF pc = "map" THEN pc' = "failed" /\ UNCHANGED <<seg, map, ignored>>
     ELSE IF Segment.memsz > Segment.filesz THEN pc' = "crashed" /\ UNCHANGED <<seg, map, ignored>>
     ELSE /\ Protect(SegmentPages(Segment, LoadingAt), "interp")
          /\ ignored' = TRUE /\ seg' = seg + 1 /\ UNCHANGED pc
  /\ UNCHANGED <<data, base, interpBase, stack>>

AllMapped ==
  /\ pc \in {"map", "mapInterp"} /\ seg > Len(Loading.segments)
  /\ pc' = IF pc = "map" /\ program.interp # None THEN "interp" ELSE "stack"
  /\ UNCHANGED <<seg, map, data, base, interpBase, stack, ignored>>

(* No candidate is readable, or the one that was cannot be opened.         *)
NoInterpreter == pc = "interp" /\ pc' = "failed" /\ UNCHANGED <<seg, map, data, base, interpBase, stack, ignored>>

ReserveInterp ==
  /\ pc = "interp" /\ program.interp # Missing
  /\ \E p \in Mmap(Reserved(program.interp)) :
       /\ interpBase' = p * PageSize
       /\ map' = Taken(p, Reserved(program.interp), "reserved")
  /\ pc' = "mapInterp" /\ seg' = 1
  /\ UNCHANGED <<data, base, stack, ignored>>

(* The result of this mmap is not tested: everything that follows goes     *)
(* to an address that is nowhere.                                          *)
ReserveInterpFails ==
  /\ pc = "interp" /\ program.interp # Missing
  /\ pc' = "crashed"
  /\ UNCHANGED <<seg, map, data, base, interpBase, stack, ignored>>

-----------------------------------------------------------------------------
(* The stack.  Pushing puts a word in front of the others; a string is one *)
(* word, and an address is counted from the top, which is that of a page.  *)
Pushed(words, old) == Reverse(words) \o old
Strings(what, n) == [k \in 1..n |-> <<what, k>>]
Address(n) == <<"string at", n>>
Number(n) == <<"number", n>>
Key(name) == <<"key", name>>

phdrLoadedAddr ==
  IF program.bin.phdrAt # None /\ base + program.bin.phdrAt # 0 THEN base + program.bin.phdrAt
  ELSE base + Phoff

(* Mutation: what is pushed first is taken to be found first.              *)
PointersInOrder(first, n) == [k \in 1..n |-> Address(first + k)]

(* The addresses of n strings, pushed after the first few words, from the  *)
(* last to the first.                                                      *)
Pointers(first, n) == Reverse([k \in 1..n |-> Address(first + k)])

(* The entries of the auxiliary vector that are not the same for every     *)
(* program, in the order they are pushed, the value before the key.        *)
Auxv ==
  << Number(0), Key("NULL"), Address(1), Key("PLATFORM"),
     Address(4), Key("EXECFN"), Address(3), Key("RANDOM"),
     Number(base + program.bin.entry), Key("ENTRY"), Number(interpBase), Key("BASE"),
     Number(phdrLoadedAddr), Key("PHDR") >>

BuiltStack ==
  LET strings == Pushed(<<<<"platform", 1>>, <<"random", 2>>, <<"random", 1>>, <<"execfn", 1>>>>
                          \o Strings("env", program.env) \o Strings("arg", program.args), <<>>)
      aligned == IF Len(strings) % 2 = 0 THEN strings ELSE Pushed(<<<<"pad", 1>>>>, strings)
      vectors == Pushed(Auxv \o <<Number(0)>> \o Pointers(4, program.env)
                          \o <<Number(0)>> \o Pointers(4 + program.env, program.args), aligned)
  IN  Pushed(<<Number(program.args)>>, vectors)

BuildStack ==
  /\ pc = "stack" /\ pc' = "jumped"
  /\ \E p \in Mmap(1) : map' = Taken(p, 1, "stack")
  /\ stack' = BuiltStack
  /\ UNCHANGED <<seg, data, base, interpBase, ignored>>

(* mmap of the place for the program or for the stack.                     *)
MmapFails ==
  /\ pc = "stack" \/ (pc = "open" /\ program.bin.type = "dyn")
  /\ pc' = "failed"
  /\ UNCHANGED <<seg, map, data, base, interpBase, stack, ignored>>

(* Other threads of the process.                                           *)
OtherThread ==
  /\ pc \notin {"failed", "crashed", "jumped"}
  /\ \/ \E p \in Mmap(1) : /\ Cardinality(others) < MaxOthers /\ others' = others \cup {p}
                           /\ map' = Taken(p, 1, "other")
     \/ \E p \in others \ {0} : /\ others' = others \ {p}
                                /\ map' = [map EXCEPT ![p] = None]
  /\ UNCHANGED <<pc, seg, data, base, interpBase, stack, ignored>>

Ended == pc \in {"failed", "crashed", "jumped"} /\ UNCHANGED loadVars

Load ==
  \/ OpenFails \/ Reserve \/ MapSegment \/ MapSegmentFails \/ AllMapped
  \/ NoInterpreter \/ ReserveInterp \/ ReserveInterpFails \/ BuildStack \/ MmapFails

LoadNext ==
  \/ Load /\ UNCHANGED <<program, others>>
  \/ OtherThread /\ UNCHANGED program
  \/ Ended

LoadSpec == LoadInit /\ [][LoadNext]_loadVars

-----------------------------------------------------------------------------
(* A page is nobody's or belongs to one of those who map memory, a word    *)
(* comes from one of the images.                                           *)
LoadTypeOK ==
  /\ seg \in Nat \ {0} /\ base \in Words /\ interpBase \in Words
  /\ pc \in {"open", "map", "interp", "mapInterp", "stack", "jumped", "failed", "crashed"}
  /\ \A p \in Pages : map[p] # None =>
       map[p].owner \in Owners /\ map[p].prot \subseteq {"R", "W", "X"}
  /\ \A w \in Words : data[w][1] \in {"zero", "bin", "interp"} /\ data[w][2] \in Nat
  /\ others \subseteq Pages /\ ignored \in BOOLEAN

Files == {program.bin} \cup (IF program.interp \in {None, Missing} THEN {} ELSE {program.interp})

(* What page-aligned programs are like: position independent, the lowest   *)
(* segment in the first pages, no two segments in one page.                *)
Usual ==
  \A file \in Files :
    /\ file.type = "dyn"
    /\ file.segments # <<>> => Min({s.vaddr : s \in ToSet(file.segments)}) <= Slack * PageSize
    /\ \A j, k \in 1..Len(file.segments) :
         j # k => SegmentPages(file.segments[j], 0) \cap SegmentPages(file.segments[k], 0) = {}

InPlace(file, name, at) ==
  \A s \in ToSet(file.segments) : \A i \in 0..(s.memsz - 1) :
    /\ data[at + s.vaddr + i] = Content(file, name, s, i)
    /\ map[PageOf(at + s.vaddr + i)] = Owned(name, s.flags)

(* When the program is entered, every word of every segment is where the   *)
(* headers say, with its protection, in the program and its interpreter,   *)
(* wherever segments begin and end in their pages: no mapping replaced or  *)
(* protected what an earlier one had put there.                            *)
SegmentsAreInPlace ==
  pc = "jumped" /\ Usual /\ ~ignored =>
    /\ InPlace(program.bin, "bin", base)
    /\ program.interp # None => InPlace(program.interp, "interp", interpBase)

(* MAP_FIXED replaces what is there: yet whatever other threads map while  *)
(* the program is loaded, they keep it, and so does the program that goes  *)
(* on when loading fails.                                                  *)
OthersKeepTheirs ==
  /\ LoadTypeOK
  /\ Usual => \A p \in others : map[p] = Owned("other", {})

(* A segment has the headers where the file says that they are.            *)
HeadersMapped(file) ==
  LET at == IF file.phdrAt # None THEN file.phdrAt ELSE Phoff
  IN  \E s \in ToSet(file.segments) :
        at - s.vaddr \in 0..(s.memsz - 1) /\ Content(file, "bin", s, at - s.vaddr) = <<"bin", Phoff>>

(* The stack reads, from the stack pointer up, as the ABI has it: argc,    *)
(* argv and envp each in order and ended by 0, then pairs of key and value *)
(* up to AT_NULL; addresses lead to the strings they are for, AT_ENTRY and *)
(* AT_BASE into the images, AT_PHDR to the headers if they are mapped.     *)
StackReadsBack ==
  LET argc     == program.args
      At(a)    == stack[Len(stack) - a[2] + 1]
      auxv     == argc + program.env + 3
      pairs    == {k \in 1..Len(stack) : k > auxv /\ (k - auxv) % 2 = 1 /\ k < Len(stack)}
      end      == Min({k \in pairs : stack[k] = Key("NULL")})
      Value(name) == stack[1 + CHOOSE k \in pairs : k < end /\ stack[k] = Key(name)]
      headers  == Value("PHDR")[2]
  IN pc = "jumped" =>
       /\ stack[1] = Number(argc)
       /\ \A k \in 1..argc : At(stack[1 + k]) = <<"arg", k>>
       /\ stack[argc + 2] = Number(0)
       /\ \A k \in 1..program.env : At(stack[argc + 2 + k]) = <<"env", k>>
       /\ stack[auxv] = Number(0)
       /\ At(Value("PLATFORM")) = <<"platform", 1>> /\ At(Value("EXECFN")) = <<"execfn", 1>>
       /\ At(Value("RANDOM")) = <<"random", 1>>
       /\ Value("BASE") = Number(interpBase) /\ Value("ENTRY") = Number(base + program.bin.entry)
       /\ (Usual /\ HeadersMapped(program.bin)) => data[headers] = <<"bin", Phoff>>

(* "Align stack pointer to 16 bytes" (elf_loader.cpp:364): the program is  *)
(* entered with a stack pointer that is a multiple of two words.           *)
StackIsAligned == pc = "jumped" => Len(stack) % 2 = 0
=============================================================================
