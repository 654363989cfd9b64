--------------------------------- MODULE Fs ---------------------------------
(***************************************************************************)
(* The file system of fs.c: inodes on the disk and in the inode cache,     *)
(* their blocks, directories and path lookup.                              *)
(*                                                                         *)
(* A directory fits in one block, which has 32 entries, and writei() of a  *)
(* file writes one block.  What the disk holds is seen through the log and *)
(* the buffer cache (modules Log, Bcache), so an update of an inode, of    *)
(* the bitmap or of a block is atomic.  There is one device; the icache    *)
(* entry of an inode is named by its number.                               *)
(***************************************************************************)
EXTENDS Mkfs, FiniteSetsExt

CONSTANTS
  Procs,      \* processes
  Names,      \* names of directory entries, "." and ".." included
  MAXFILE,    \* fs.h: blocks of the largest file
  NINODE      \* param.h: entries of the inode cache

ASSUME FsAssumption ==
  /\ Inums = 1 .. Cardinality(Inums) /\ ROOTINO \in Inums
  /\ Blocks = 1 .. Cardinality(Blocks)
  /\ ImageUsed \subseteq Blocks
  /\ {".", ".."} \subseteq Names /\ Cardinality(Names) <= NDIRENT
  /\ NDIRECT \in 1 .. MAXFILE
  /\ NINODE \in Nat

VARIABLES
  dinode,     \* the inodes on the disk
  used,       \* the bitmap: the data blocks in use
  data,       \* contents of the data blocks: of files <<>>, of directories the entries
  inode,      \* the copies of the inodes in the inode cache
  valid,      \* ip->valid
  ref,        \* ip->ref; the cache entry is free when it is 0
  lock,       \* who has ip->lock
  pc,         \* where each process is
  loc,        \* the local variables of the call it is in
  puts,       \* the inodes it has to iput() before it goes on
  putpc,      \* where it is in iput()
  panicked    \* what some CPU called panic() for, or "no"

fsVars == <<dinode, used, data, inode, valid, ref, lock, pc, loc, puts, putpc, panicked>>

(* The blocks of an inode, its indirect block included. *)
BlocksOf(n) == Range(n.addrs) \cup ({n.ind} \ {NULL})

NoCall == [call |-> NULL, path |-> <<>>, parent |-> FALSE, next |-> "user",
           name |-> NULL, ip |-> NULL, dp |-> NULL]

FsInit ==
  /\ dinode = Image.ino /\ data = Image.data
  /\ used = ImageUsed
  /\ inode = [i \in Inums |-> FreeInode]
  /\ valid = [i \in Inums |-> FALSE]
  /\ lock = [i \in Inums |-> NULL]
  /\ pc = [p \in Procs |-> "user"]
  /\ loc = [p \in Procs |-> NoCall]
  /\ puts = [p \in Procs |-> <<>>]
  /\ putpc = [p \in Procs |-> "lock"]
  /\ panicked = "no"

(* p is at l, with nothing left to iput(). *)
At(p, l) == panicked = "no" /\ pc[p] = l /\ puts[p] = <<>>
Goto(p, l) == pc' = [pc EXCEPT ![p] = l]

(* panic(): the machine stops. *)
PanicIf(cond, why) == panicked' = IF cond THEN why ELSE "no"
Panic(why) ==
  /\ panicked' = why
  /\ UNCHANGED <<dinode, used, data, inode, valid, ref, lock, pc, loc, puts, putpc>>

----------------------------------------------------------------------------
(* Updates of the inode cache and of the disk, as functions on             *)
(*   s.ino, s.data, s.used, s.new (the last block of balloc()) and s.ok    *)
(* (no call of balloc() has panicked).                                     *)

Disk == [ino |-> inode, data |-> data, used |-> used, new |-> NULL, ok |-> TRUE]

(* Inode i as ilock() leaves it. *)
Loaded(i) == IF valid[i] THEN inode[i] ELSE dinode[i]
Load(s, i) == [s EXCEPT !.ino[i] = Loaded(i)]

(* balloc(): the first free block, zeroed. *)
Balloc(s) ==
  IF s.used = Blocks THEN [s EXCEPT !.ok = FALSE]
  ELSE LET b == Min(Blocks \ s.used)
       IN [s EXCEPT !.used = @ \cup {b}, !.data[b] = <<>>, !.new = b]

(* bmap() of the first block after the end of i, with the indirect block   *)
(* if it is the first one that needs it.                                   *)
BmapAppend(s, i) ==
  LET n == s.ino[i]
      t == Balloc(s)
      u == IF Len(n.addrs) < NDIRECT \/ n.ind # NULL THEN t
           ELSE [Balloc(t) EXCEPT !.ino[i].ind = t.new]
  IN [u EXCEPT !.ino[i].addrs = Append(@, u.new)]

(* The entries of directory i, and the slot of the one called name; 0 if   *)
(* there is none.                                                          *)
Entries(s, i) == IF s.ino[i].addrs = <<>> THEN <<>> ELSE s.data[s.ino[i].addrs[1]]
Dirlookup(s, i, name) ==
  SelectInSeq(Entries(s, i), LAMBDA e : e.inum # 0 /\ e.name = name)

(* writei() of the entries of directory i. *)
WriteEntries(s, i, es) ==
  LET t == IF s.ino[i].addrs = <<>> THEN BmapAppend(s, i) ELSE s
  IN IF t.ok THEN [t EXCEPT !.data[t.ino[i].addrs[1]] = es] ELSE t

(* dirlink() after it found that the name is new: the first empty entry,   *)
(* or a new one at the end.                                                *)
Dirlink(s, i, name, j) ==
  LET es == Entries(s, i)
      empty == SelectInSeq(es, LAMBDA e : e.inum = 0)
  IN WriteEntries(s, i, IF empty # 0 THEN [es EXCEPT ![empty] = Dirent(name, j)]
                                     ELSE Append(es, Dirent(name, j)))

(* Variant: the indirect block is forgotten. *)
ItruncDirect(s, i) ==
  LET freed == Range(s.ino[i].addrs)
  IN [s EXCEPT !.used = @ \ freed, !.ino[i].addrs = <<>>, !.ino[i].ind = NULL,
               !.data = [b \in Blocks |-> IF b \in freed THEN <<>> ELSE @[b]]]

(* itrunc(); what a free block holds is never read. *)
Itrunc(s, i) ==
  LET freed == BlocksOf(s.ino[i])
  IN [s EXCEPT !.used = @ \ freed, !.ino[i].addrs = <<>>, !.ino[i].ind = NULL,
               !.data = [b \in Blocks |-> IF b \in freed THEN <<>> ELSE @[b]]]

(* The disk and the inode cache become s; iupdate() has copied the inodes  *)
(* of set I to the disk, and those of set L are loaded.                    *)
Become(s, L, I) ==
  /\ inode' = s.ino /\ data' = s.data /\ used' = s.used
  /\ dinode' = [i \in Inums |-> IF i \in I THEN s.ino[i] ELSE dinode[i]]
  /\ valid' = [i \in Inums |-> valid[i] \/ i \in L]

----------------------------------------------------------------------------
(* iget() and idup(), for each inode of the sequence is: the entry is      *)
(* created if the inode is not cached.                                     *)
Count(is, i) == Cardinality({k \in DOMAIN is : is[k] = i})
Iget(is) == ref' = [i \in Inums |-> ref[i] + Count(is, i)]

(* iget(i) finds no entry and panics. *)
IcacheFull(i) == ref[i] = 0 /\ Cardinality({j \in Inums : ref[j] > 0}) >= NINODE


(* iput(p's first inode) takes the lock; an inode nobody names and nobody  *)
(* else refers to will be freed.                                           *)
IputLock(p) ==
  /\ panicked = "no" /\ puts[p] # <<>> /\ putpc[p] = "lock"
  /\ LET i == Head(puts[p]) IN
     /\ lock[i] = NULL
     /\ IF valid[i] /\ inode[i].nlink = 0 /\ ref[i] = 1
          THEN /\ lock' = [lock EXCEPT ![i] = p]
               /\ putpc' = [putpc EXCEPT ![p] = "free"]
          ELSE /\ putpc' = [putpc EXCEPT ![p] = "ref"]
               /\ UNCHANGED lock
  /\ UNCHANGED <<dinode, used, data, inode, valid, ref, pc, loc, puts, panicked>>

(* itrunc(ip), ip->type = 0, iupdate(ip); bfree() of a free block panics. *)
IputFree(p) ==
  /\ panicked = "no" /\ puts[p] # <<>> /\ putpc[p] = "free"
  /\ LET i == Head(puts[p]) IN
     IF BlocksOf(inode[i]) \subseteq used
       THEN /\ Become([Itrunc(Disk, i) EXCEPT !.ino[i].type = "0"], {}, {i})
            /\ putpc' = [putpc EXCEPT ![p] = "unlock"]
            /\ UNCHANGED <<ref, lock, pc, loc, puts, panicked>>
       ELSE Panic("freeing free block")

(* ip->valid = 0, and the lock is released. *)
IputUnlock(p) ==
  /\ panicked = "no" /\ puts[p] # <<>> /\ putpc[p] = "unlock"
  /\ LET i == Head(puts[p]) IN
     /\ valid' = [valid EXCEPT ![i] = FALSE]
     /\ inode' = [inode EXCEPT ![i] = FreeInode]
     /\ lock' = [lock EXCEPT ![i] = NULL]
  /\ putpc' = [putpc EXCEPT ![p] = "ref"]
  /\ UNCHANGED <<dinode, used, data, ref, pc, loc, puts, panicked>>

(* ip->ref--; the copy of an inode whose entry is free is never used. *)
IputRef(p) ==
  /\ panicked = "no" /\ puts[p] # <<>> /\ putpc[p] = "ref"
  /\ LET i == Head(puts[p]) IN
     /\ ref' = [ref EXCEPT ![i] = @ - 1]
     /\ valid' = [valid EXCEPT ![i] = @ /\ ref[i] > 1]
     /\ inode' = [inode EXCEPT ![i] = IF ref[i] > 1 THEN @ ELSE FreeInode]
  /\ puts' = [puts EXCEPT ![p] = Tail(@)]
  /\ putpc' = [putpc EXCEPT ![p] = "lock"]
  /\ UNCHANGED <<dinode, used, data, lock, pc, loc, panicked>>

Iput(p) == IputLock(p) \/ IputFree(p) \/ IputUnlock(p) \/ IputRef(p)

----------------------------------------------------------------------------
(* namex() starts: loc.next is where the call goes on, with loc.ip the     *)
(* inode it found and loc.name the last element, or with loc.ip = NULL.    *)
StartNamex(p, call, start, path, parent, next, ip) ==
  /\ Iget(<<start>>)
  /\ loc' = [loc EXCEPT ![p] = [NoCall EXCEPT !.call = call, !.path = path, !.parent = parent,
                                              !.next = next, !.ip = start, !.dp = ip]]
  /\ Goto(p, "namex")

NamexReturn(p, i, name) ==
  /\ loc' = [loc EXCEPT ![p].ip = i, ![p].path = <<>>, ![p].name = name]
  /\ Goto(p, loc[p].next)

(* The path ends. *)
NamexEnd(p) ==
  /\ At(p, "namex") /\ loc[p].path = <<>>
  /\ IF loc[p].parent
       THEN NamexReturn(p, NULL, NULL) /\ puts' = [puts EXCEPT ![p] = <<loc[p].ip>>]
       ELSE NamexReturn(p, loc[p].ip, NULL) /\ UNCHANGED puts
  /\ UNCHANGED <<dinode, used, data, inode, valid, ref, lock, putpc, panicked>>

(* One round of the loop, in which ip is locked and unlocked: it is not a  *)
(* directory, or the parent, or does not have the name, or it does.        *)
NamexElem(p) ==
  /\ At(p, "namex") /\ loc[p].path # <<>>
  /\ LET i == loc[p].ip
         s == Load(Disk, i)
         name == Head(loc[p].path)
         isdir == s.ino[i].type = "DIR"
         last == loc[p].parent /\ Len(loc[p].path) = 1
         slot == IF isdir THEN Dirlookup(s, i, name) ELSE 0
     IN /\ lock[i] = NULL
        /\ inode' = s.ino /\ valid' = [valid EXCEPT ![i] = TRUE]
        /\ \/ /\ isdir /\ last
              /\ NamexReturn(p, i, name)
              /\ UNCHANGED <<ref, puts, panicked>>
           \/ /\ slot = 0 /\ ~(isdir /\ last)
              /\ NamexReturn(p, NULL, NULL)
              /\ puts' = [puts EXCEPT ![p] = <<i>>]
              /\ PanicIf(s.ino[i].type = "0", "ilock: no type")
              /\ UNCHANGED ref
           \/ /\ slot # 0 /\ ~last
              /\ LET j == Entries(s, i)[slot].inum IN
                 /\ Iget(<<j>>)
                 /\ PanicIf(IcacheFull(j), "iget: no inodes")
                 /\ loc' = [loc EXCEPT ![p].ip = j, ![p].path = Tail(@)]
              /\ puts' = [puts EXCEPT ![p] = <<i>>]
              /\ UNCHANGED pc
  /\ UNCHANGED <<dinode, used, data, lock, putpc>>

Namex(p) == NamexEnd(p) \/ NamexElem(p)
============================================================================
