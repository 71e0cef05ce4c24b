------------------------------- MODULE MCExt4 -------------------------------
(* A disk of blocks of two sectors: the superblock in block 1, descriptors *)
(* of two groups in block 2, their inode tables in blocks 3 and 4, the     *)
(* root directory in blocks 5 and 6, the file "a" in blocks 9, 7 and 8,    *)
(* which its inode maps itself, and "b" in block 11 by way of a leaf in    *)
(* block 10; the second block of "b" is a hole.                            *)
EXTENDS Ext4, TLC

Leaf(es) == [magic |-> TRUE, depth |-> 0, entries |-> es]
Index(es) == [magic |-> TRUE, depth |-> 1, entries |-> es]
Extent(block, len, start) == [block |-> block, len |-> len, start |-> start, hi |-> FALSE]

NoNode == [magic |-> FALSE, depth |-> 0, entries |-> <<>>]
Unused == [size |-> 0, high |-> FALSE, node |-> NoNode]
File(size, node) == [size |-> size, high |-> FALSE, node |-> node]

MCBlank ==
  [super |-> 0 - 13, gd |-> <<[lo |-> 0, hi |-> FALSE]>>, inodes |-> <<Unused, Unused>>,
   node |-> NoNode, dirents |-> <<>>]

Table(lo) == [MCBlank EXCEPT !.gd = <<[lo |-> lo, hi |-> FALSE]>>]
Inodes(i, j) == [MCBlank EXCEPT !.inodes = <<i, j>>]
Dir(es) == [MCBlank EXCEPT !.dirents = es]
Entry(name, inode) == [name |-> name, inode |-> inode, rec_len |-> 1]

MCSector == 0 .. 23

MCDisk ==
  [s \in MCSector |->
    CASE s = 2  -> [MCBlank EXCEPT !.super = 0]
      [] s = 4  -> Table(3)
      [] s = 5  -> Table(4)
      [] s = 6  -> Inodes(Unused, File(4, Leaf(<<Extent(0, 2, 5)>>)))
      [] s = 7  -> Inodes(File(5, Leaf(<<Extent(0, 1, 9), Extent(1, 2, 7)>>)), Unused)
      [] s = 9  -> Inodes(Unused, File(4, Index(<<Extent(0, 0, 10), Extent(2, 0, 9)>>)))
      [] s = 10 -> Dir(<<Entry(".", 2), Entry("..", 2)>>)
      [] s = 11 -> Dir(<<Entry("old", 0), Entry("a", 3)>>)
      [] s = 12 -> Dir(<<Entry("b", 8), Entry("c", 7)>>)
      [] s = 13 -> Dir(<<[Entry("", 0) EXCEPT !.rec_len = 0], Entry("d", 7)>>)
      [] s = 20 -> [MCBlank EXCEPT !.node = Leaf(<<Extent(0, 1, 11)>>)]
      [] OTHER -> MCBlank]

MCFiles == "a" :> <<18, 19, 14, 15, 16>> @@ "b" :> <<22, 23, NoSector, NoSector>>

MCRootNames == <<"a", "b", "c">>
=============================================================================
