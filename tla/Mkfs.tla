-------------------------------- MODULE Mkfs -------------------------------
(***************************************************************************)
(* The inodes, blocks and directory entries of the disk (fs.h), and the    *)
(* image that mkfs.c makes: the disk that the kernel first finds.          *)
(***************************************************************************)
EXTENDS Integers, Sequences, SequencesExt, FiniteSets

CONSTANTS
  Inums,      \* inode numbers 1 .. sb.ninodes - 1
  Blocks,     \* data blocks
  NDIRECT,    \* fs.h: direct blocks of an inode
  NDIRENT,    \* entries of a block: BSIZE / sizeof(struct dirent)
  ImageFiles, \* the arguments of mkfs: names and blocks of files
  NULL        \* no inode, no block, no process

ROOTINO == 1

EmptyEntry == [name |-> NULL, inum |-> 0]
Dirent(name, i) == [name |-> name, inum |-> i]
FreeInode == [type |-> "0", nlink |-> 0, addrs |-> <<>>, ind |-> NULL]

(* m.ino, m.data: the inodes and the blocks; m.freeinode, m.freeblock: the *)
(* first ones not in use.                                                  *)
Zeroed == [ino |-> [i \in Inums |-> FreeInode], data |-> [b \in Blocks |-> <<>>],
           freeinode |-> 1, freeblock |-> 1]

(* ialloc() *)
MkIalloc(m, type) ==
  [m EXCEPT !.ino[m.freeinode] = [FreeInode EXCEPT !.type = type, !.nlink = 1],
            !.freeinode = @ + 1]

(* iappend() of one block to inode i, after an indirect block if it is the *)
(* first that needs it.                                                    *)
MkIappend(m, i) ==
  LET n == m.ino[i]
      b == IF Len(n.addrs) < NDIRECT \/ n.ind # NULL THEN m.freeblock ELSE m.freeblock + 1
  IN [m EXCEPT !.ino[i].ind = IF b = m.freeblock THEN @ ELSE m.freeblock,
               !.ino[i].addrs = Append(@, b),
               !.freeblock = b + 1]

(* iappend() of an entry to the root, which fits in one block. *)
MkDirent(m, name, i) ==
  LET t == IF m.ino[ROOTINO].addrs = <<>> THEN MkIappend(m, ROOTINO) ELSE m
  IN [t EXCEPT !.data[t.ino[ROOTINO].addrs[1]] = Append(@, Dirent(name, i))]

(* One argument of main(). *)
MkFile(m, f) ==
  LET i == m.freeinode
      entered == MkDirent(MkIalloc(m, "FILE"), f.name, i)
      appended[n \in 0 .. f.blocks] == IF n = 0 THEN entered ELSE MkIappend(appended[n - 1], i)
  IN appended[f.blocks]

(* main(): the root, the files, and the root's size rounded up to a block. *)
Image ==
  LET root == MkDirent(MkDirent(MkIalloc(Zeroed, "DIR"), ".", ROOTINO), "..", ROOTINO)
      full == FoldLeft(MkFile, root, ImageFiles)
  IN [full EXCEPT !.data[1] = @ \o [k \in 1 .. NDIRENT - Len(@) |-> EmptyEntry]]

(* balloc(freeblock): the bitmap. *)
ImageUsed == 1 .. Image.freeblock - 1
============================================================================
