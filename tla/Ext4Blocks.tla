----------------------------- MODULE Ext4Blocks -----------------------------
(***************************************************************************)
(* How Ext4Extractor reads the data of a file (readExtentBlocks and        *)
(* readInodeData in storage/ext4_extractor.cpp), and what ext4 means the   *)
(* data to be.  A file is a row of blocks; a block of data is known by its *)
(* number in the image, and 0 is a block of zeros.                         *)
(*                                                                         *)
(* A file has a size in blocks and a form.  "extents": a tree of nodes; a  *)
(* leaf has extents [block, len, start, written], an inner node children,  *)
(* one of which may be NoNode (it lies behind the end of the image).       *)
(* "pointers": the block numbers the inode and its indirect blocks list,   *)
(* in the order of the file, 0 for a hole.  "inline": the same, counted in *)
(* units of the 60 bytes the inode itself has room for.                    *)
(***************************************************************************)
EXTENDS Naturals, Sequences, SequencesExt

CONSTANTS Nodes, RootNode, NoNode, (* the nodes of an extent tree           *)
          MaxExtentDepth,          (* 5: deeper nodes are not read          *)
          Reach,    (* the pointers in i_block, one indirect and one double *)
                    (* indirect block; a triple indirect one is not read    *)
          Present   (* the blocks the image is long enough to have          *)

ASSUME Ext4BlocksAssumption ==
  /\ RootNode \in Nodes /\ NoNode \notin Nodes
  /\ MaxExtentDepth \in Nat /\ Reach \in Nat
  /\ Present \subseteq Nat \ {0}

ExtentRecord == [block : Nat, len : Nat, start : Nat, written : BOOLEAN]
IsNode(node) ==
  /\ node.valid \in BOOLEAN
  /\ node.valid => /\ node.leaf \in BOOLEAN
                   /\ IF node.leaf THEN node.extents \in Seq(ExtentRecord)
                      ELSE node.children \in Seq(Nodes \cup {NoNode})
IsFile(file) ==
  /\ file.large \in BOOLEAN /\ file.size \in Nat
  /\ \/ file.form = "extents" /\ \A n \in Nodes : IsNode(file.tree[n])
     \/ file.form \in {"pointers", "inline"} /\ file.pointers \in Seq(Nat)

(* readExtentBlocks: the extents of all leaves, in the order of the walk;  *)
(* a node that is invalid, missing or too deep counts for nothing.         *)
Extents(tree) ==
  LET Below[d \in 0..(MaxExtentDepth + 1)] ==
        [n \in Nodes |->
           IF d > MaxExtentDepth \/ ~tree[n].valid THEN <<>>
           ELSE IF tree[n].leaf THEN tree[n].extents
           ELSE FlattenSeq([i \in 1..Len(tree[n].children) |->
                  IF tree[n].children[i] = NoNode THEN <<>>
                  ELSE Below[d + 1][tree[n].children[i]]])]
  IN  Below[0][RootNode]

(* The first n elements of a sequence, or all of it.                       *)
Take(s, n) == IF n < Len(s) THEN SubSeq(s, 1, n) ELSE s

(* What can be read of a row of blocks: an unreadable one is left out, or  *)
(* ends the row if it is read no further.                                  *)
Readable(row, further) ==
  LET Read[n \in 0..Len(row)] ==
        IF n = 0 THEN <<>>
        ELSE IF row[n] \in Present /\ (further \/ Len(Read[n - 1]) = n - 1)
        THEN Append(Read[n - 1], row[n]) ELSE Read[n - 1]
  IN  Read[Len(row)]

(* Mutation: the blocks of an extent are counted from 1.                   *)
BlocksFromOne(extent, large) == [j \in 1..extent.len |-> extent.start + j]

(* The blocks of an extent that are read: an unreadable one ends the       *)
(* extent, but where a large file is streamed it is only left out.         *)
BlocksOf(extent, large) ==
  IF extent.start = 0 THEN <<>>
  ELSE Readable([j \in 1..extent.len |-> extent.start + j - 1], large)

(* The blocks that are read one after the other, wherever in the file they *)
(* belong.                                                                 *)
Blocks(file) ==
  CASE file.form = "extents" ->
         LET extents == Extents(file.tree)
         IN  FlattenSeq([i \in 1..Len(extents) |-> BlocksOf(extents[i], file.large)])
    [] file.form = "pointers" -> Readable(Take(file.pointers, Reach), TRUE)
    [] file.form = "inline" -> Take(file.pointers, 1)

(* What readInodeData returns: something was read.                         *)
DataIsRead(file) == file.size = 0 \/ Blocks(file) # <<>>

(* What it fills the buffer with, and what the loop for files above 64 MB  *)
(* writes, which reads extents only and stops with the last one.           *)
Data(file) ==
  LET blocks == Blocks(file) IN
  IF ~file.large
  THEN [k \in 1..file.size |-> IF k <= Len(blocks) THEN blocks[k] ELSE 0]
  ELSE IF file.form = "extents" THEN Take(blocks, file.size) ELSE <<>>

-----------------------------------------------------------------------------
(* What the file is, by the meaning of the format.                         *)

(* The written extent for a block of the file says where it is; a block    *)
(* without one reads as zeros.                                             *)
Meaning(file) ==
  IF file.form = "extents"
  THEN LET written == {e \in ToSet(Extents(file.tree)) : e.written} IN
       [k \in 1..file.size |->
          LET cover == {e \in written : e.block < k /\ k <= e.block + e.len}
          IN  IF cover = {} THEN 0
              ELSE LET e == CHOOSE e \in cover : TRUE IN e.start + (k - 1 - e.block)]
  ELSE [k \in 1..file.size |-> IF k <= Len(file.pointers) THEN file.pointers[k] ELSE 0]

(* Extents are listed in the order of the file and do not overlap: true of *)
(* every file system that is not damaged.                                  *)
InOrder(file) ==
  file.form = "extents" =>
    LET x == Extents(file.tree)
    IN  \A i, j \in 1..Len(x) : i < j => x[i].block + x[i].len <= x[j].block

(* How far a file is read at all: inline data past the inode's own room,   *)
(* what only a triple indirect block lists, and large files without        *)
(* extents are not.                                                        *)
Limit(file) ==
  CASE file.form = "inline"   -> 1
    [] file.form = "pointers" -> IF file.large THEN 0 ELSE Reach
    [] OTHER                  -> file.size

(* The first k blocks of a file are there, without a hole.                 *)
Gapless(meaning, k) == \A j \in 1..k : meaning[j] \in Present
=============================================================================
