-------------------------- MODULE MCExt4Extractor --------------------------
(* An instance of Ext4Extractor for TLC: images that differ in their       *)
(* directories, and images that differ in how the data of one file is laid *)
(* out.                                                                    *)
EXTENDS Ext4Extractor

CONSTANTS root, i, j, n1, n2, n3

Pointers(large, size, pointers) ==
  [form |-> "pointers", large |-> large, size |-> size, pointers |-> pointers]
Inline(size) == [form |-> "inline", large |-> FALSE, size |-> size, pointers |-> <<1, 2>>]
Mapped(large, size, tree) ==
  [form |-> "extents", large |-> large, size |-> size, tree |-> tree]

Dir(readable, dataRead, entries) ==
  [kind |-> "dir", readable |-> readable, dataRead |-> dataRead, entries |-> entries]
Leaf(kind, readable, file) == [kind |-> kind, readable |-> readable, file |-> file]

UpTo(S, n) == UNION {[1..k -> S] : k \in 0..n}

(* Every shape of the directories: the root has up to two entries, i is a  *)
(* directory as well, with cycles, and j a file.                           *)
Rows == UpTo(Inodes \cup {Skipped, Bad}, 2)
Small == Pointers(FALSE, 1, <<1>>)
Plain == Pointers(FALSE, 2, <<1, 2>>)
Empty == Pointers(FALSE, 0, <<>>)
Image(r, d, f) == [x \in Inodes |-> CASE x = Root -> r [] x = i -> d [] x = j -> f]
Shapes ==
  {Image(r, d, Leaf("file", TRUE, Small)) :
     r \in {Dir(TRUE, TRUE, row) : row \in Rows} \cup {Dir(FALSE, TRUE, <<>>)},
     d \in {Dir(TRUE, read, row) : read \in BOOLEAN, row \in Rows}}

(* Every kind of j, at two places of the tree.                             *)
Leaves ==
  {Leaf(kind, TRUE, file) : kind \in {"file", "link"},
                            file \in {Plain, Empty, Pointers(FALSE, 1, <<9>>)}}
    \cup {Leaf("other", TRUE, Plain), Leaf("file", FALSE, Plain),
          Leaf("file", TRUE, Pointers(TRUE, 2, <<1, 2>>))}
Kinds ==
  {Image(Dir(TRUE, TRUE, <<i, j>>), Dir(TRUE, TRUE, <<x, j>>), f) :
     x \in {i, j, Skipped, Bad}, f \in Leaves}

(* One file of three blocks: extents in one leaf, or two leaves below an   *)
(* inner node.                                                             *)
Extent(b, l, s, w) == [block |-> b, len |-> l, start |-> s, written |-> w]
ExtentsFrom(starts) ==
  {Extent(b, l, s, w) : b \in 0..2, l \in 1..2, s \in starts, w \in BOOLEAN}
LeafNode(extents) == [valid |-> TRUE, leaf |-> TRUE, extents |-> extents]
InnerNode(children) == [valid |-> TRUE, leaf |-> FALSE, children |-> children]
Broken == [valid |-> FALSE]
Tree(a, b, c) == [n \in Nodes |-> CASE n = n1 -> a [] n = n2 -> b [] n = n3 -> c]

OneLeaf ==
  {Tree(LeafNode(x), Broken, Broken) :
     x \in {<<>>} \cup {<<a>> : a \in ExtentsFrom({0, 1})}
             \cup {<<a, b>> : a \in ExtentsFrom({1}), b \in ExtentsFrom({4})}}
TwoLeaves ==
  {Tree(InnerNode(c), LeafNode(<<a>>), IF b = NoNode THEN Broken ELSE LeafNode(<<b>>)) :
     c \in UpTo(Nodes \cup {NoNode}, 2), a \in ExtentsFrom({1}),
     b \in ExtentsFrom({4}) \cup {NoNode}}
Files ==
  {Mapped(large, 3, tree) : large \in BOOLEAN, tree \in OneLeaf \cup TwoLeaves}
    \cup {Pointers(large, 3, p) : large \in BOOLEAN, p \in [1..3 -> {0, 1, 5, 9}]}
    \cup {Inline(size) : size \in 1..2}
FileImages ==
  {[x \in Inodes |-> IF x = Root THEN Dir(TRUE, TRUE, <<i>>) ELSE Leaf("file", TRUE, f)] :
     f \in Files}

MCImages == Shapes \cup Kinds \cup FileImages
=============================================================================
