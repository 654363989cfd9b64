------------------------------ MODULE Sysfile ------------------------------
(***************************************************************************)
(* The file system calls of sysfile.c, the file table of file.c, the       *)
(* per-process swap files of fs.c, and what fork() and exit() do with      *)
(* files, over module Fs.                                                  *)
(*                                                                         *)
(* Between two acquisitions of an inode's lock, of icache.lock, or of a    *)
(* block of the disk that another process may change, a call is one step.  *)
(***************************************************************************)
EXTENDS Fs

CONSTANTS
  InitProc,   \* the process that runs first; it has no swap file
  Files,      \* ftable.file: 1 .. NFILE
  Fds,        \* 0 .. NOFILE - 1
  SwapName,   \* "/.swap<pid>" of each process
  Programs,   \* what the processes may run: for each one a sequence of calls
  MemoryFor   \* what fork() finds: {TRUE}, or {TRUE, FALSE} if memory may run out

ASSUME SysfileAssumption ==
  /\ InitProc \in Procs
  /\ Files = 1 .. Cardinality(Files)
  /\ SwapName \in [Procs -> Names]
  /\ MemoryFor \subseteq BOOLEAN

VARIABLES
  file,       \* ftable.file: ref, ip, off, mode
  ofile,      \* p->ofile
  cwd,        \* p->cwd
  swapFile,   \* p->swapFile
  state,      \* UNUSED, EMBRYO or LIVE
  prog        \* the calls the program of p has yet to make

procVars == <<file, ofile, cwd, swapFile, state, prog>>
vars == <<fsVars, procVars>>

NoFile == [ref |-> 0, ip |-> NULL, off |-> 0, mode |-> "NONE"]

Init ==
  /\ FsInit
  /\ ref = [i \in Inums |-> IF i = ROOTINO THEN 1 ELSE 0]
  /\ file = [f \in Files |-> NoFile]
  /\ ofile = [p \in Procs |-> [fd \in Fds |-> NULL]]
  /\ cwd = [p \in Procs |-> IF p = InitProc THEN ROOTINO ELSE NULL]
  /\ swapFile = [p \in Procs |-> NULL]
  /\ state = [p \in Procs |-> IF p = InitProc THEN "LIVE" ELSE "UNUSED"]
  /\ prog \in Programs

(* p makes the next call, which is c. *)
Calls(p, c) ==
  /\ At(p, "user") /\ state[p] = "LIVE" /\ prog[p] # <<>> /\ c = Head(prog[p])
  /\ prog' = [prog EXCEPT ![p] = Tail(@)]

(* The call of p is over. *)
Return(p) == Goto(p, "user") /\ loc' = [loc EXCEPT ![p] = NoCall]
IsCall(p, op) == loc[p].call # NULL /\ loc[p].call.op = op
Puts(p, is) == puts' = [puts EXCEPT ![p] = is]
Unlock(i) == lock' = [lock EXCEPT ![i] = NULL]

(* filealloc() and fdalloc(): the first free entry, if there is one. *)
FreeFiles == {f \in Files : file[f].ref = 0}
FreeFds(p) == {fd \in Fds : ofile[p][fd] = NULL}

(* The file of an open() or of a swap file. *)
NewFile(i, mode) == [ref |-> 1, ip |-> i, off |-> 0, mode |-> mode]

(* fileclose(f): the last reference gives up the inode. *)
Fileclose(f) ==
  file' = [file EXCEPT ![f] = IF @.ref > 1 THEN [@ EXCEPT !.ref = @ - 1] ELSE NoFile]
FileclosePuts(f) == IF file[f].ref > 1 THEN <<>> ELSE <<file[f].ip>>

Start(p, path) == IF path.abs THEN ROOTINO ELSE cwd[p]

(* The calls that look up a path: open(), mkdir(), mknod(), link(),        *)
(* unlink() and chdir().                                                   *)
PathCall(p, c) ==
  /\ Calls(p, c)
  /\ c.op \in {"open", "creat", "mkdir", "mknod", "link", "unlink", "chdir"}
  /\ StartNamex(p, c, Start(p, c.path), c.path.elems,
                c.op \in {"creat", "mkdir", "mknod", "unlink"},
                CASE c.op = "open" -> "open"
                  [] c.op \in {"creat", "mkdir", "mknod"} -> "create"
                  [] c.op \in {"link", "unlink", "chdir"} -> c.op,
                NULL)
  /\ UNCHANGED <<dinode, used, data, inode, valid, lock, puts, putpc, panicked,
                 file, ofile, cwd, swapFile, state>>

----------------------------------------------------------------------------
(* create() *)

(* The type of the inode it makes. *)
Type(p) == CASE loc[p].call.op = "mkdir" -> "DIR"
             [] loc[p].call.op = "mknod" -> "DEV"
             [] OTHER -> "FILE"

(* It fails, or has the inode locked in loc.ip, and goes on at "created". *)
Created(p, i) == loc' = [loc EXCEPT ![p].ip = i, ![p].dp = NULL] /\ Goto(p, "created")

(* There is no parent, or the parent is locked and the name looked up. *)
CreateLookup(p) ==
  /\ At(p, "create")
  /\ LET i == loc[p].ip
         s == Load(Disk, i)
         slot == Dirlookup(s, i, loc[p].name)
     IN IF i = NULL
          THEN /\ Created(p, NULL)
               /\ UNCHANGED <<inode, valid, ref, lock, puts, panicked>>
          ELSE /\ lock[i] = NULL
               /\ inode' = s.ino /\ valid' = [valid EXCEPT ![i] = TRUE]
               /\ IF slot # 0
                    THEN LET j == Entries(s, i)[slot].inum IN
                         /\ Iget(<<j>>)
                         /\ PanicIf(IcacheFull(j), "iget: no inodes")
                         /\ loc' = [loc EXCEPT ![p].ip = j]
                         /\ Puts(p, <<i>>)
                         /\ Goto(p, "create_old")
                         /\ UNCHANGED lock
                    ELSE /\ lock' = [lock EXCEPT ![i] = p]
                         /\ PanicIf(s.ino[i].type = "0", "ilock: no type")
                         /\ loc' = [loc EXCEPT ![p].ip = NULL, ![p].dp = i]
                         /\ Goto(p, "create_ialloc")
                         /\ UNCHANGED <<ref, puts>>
  /\ UNCHANGED <<dinode, used, data, putpc, procVars>>

(* The name exists: open(O_CREATE) takes a file, the others fail. *)
CreateOld(p) ==
  /\ At(p, "create_old")
  /\ LET i == loc[p].ip
         s == Load(Disk, i)
     IN /\ lock[i] = NULL
        /\ inode' = s.ino /\ valid' = [valid EXCEPT ![i] = TRUE]
        /\ PanicIf(s.ino[i].type = "0", "ilock: no type")
        /\ IF Type(p) = "FILE" /\ s.ino[i].type = "FILE"
             THEN lock' = [lock EXCEPT ![i] = p] /\ Created(p, i) /\ UNCHANGED puts
             ELSE Puts(p, <<i>>) /\ Created(p, NULL) /\ UNCHANGED lock
  /\ UNCHANGED <<dinode, used, data, ref, putpc, procVars>>

(* ialloc() marks a free inode on the disk ... *)
CreateIalloc(p) ==
  /\ At(p, "create_ialloc")
  /\ LET free == {i \in Inums : dinode[i].type = "0"}
         i == Min(free)
     IN IF free = {} THEN Panic("ialloc: no inodes")
        ELSE /\ dinode' = [dinode EXCEPT ![i] = [FreeInode EXCEPT !.type = Type(p)]]
             /\ loc' = [loc EXCEPT ![p].path = <<i>>]
             /\ Goto(p, "create_iget")
             /\ UNCHANGED <<used, data, inode, valid, ref, lock, puts, putpc, panicked>>
  /\ UNCHANGED procVars

(* ... and then finds its cache entry. *)
CreateIget(p) ==
  /\ At(p, "create_iget")
  /\ LET i == Head(loc[p].path) IN
     /\ Iget(<<i>>)
     /\ PanicIf(IcacheFull(i), "iget: no inodes")
     /\ loc' = [loc EXCEPT ![p].path = <<>>, ![p].ip = i]
  /\ Goto(p, "create_new")
  /\ UNCHANGED <<dinode, used, data, inode, valid, lock, puts, putpc, procVars>>

(* The new inode gets its link count and, if it is a directory, its dots;  *)
(* the parent gets the entry.                                              *)
CreateNew(p) ==
  /\ At(p, "create_new")
  /\ LET i == loc[p].ip
         dp == loc[p].dp
         s1 == [Load(Disk, i) EXCEPT !.ino[i].nlink = 1]
         s2 == Dirlink(Dirlink([s1 EXCEPT !.ino[dp].nlink = @ + 1], i, ".", i), i, "..", dp)
         s == Dirlink(IF Type(p) = "DIR" THEN s2 ELSE s1, dp, loc[p].name, i)
     IN /\ lock[i] = NULL
        /\ IF s.ok /\ Loaded(i).type # "0"
             THEN /\ Become(s, {i}, {i, dp})
                  /\ lock' = [lock EXCEPT ![i] = p, ![dp] = NULL]
                  /\ Puts(p, <<dp>>)
                  /\ Created(p, i)
                  /\ UNCHANGED <<ref, putpc, panicked>>
             ELSE Panic(CASE ~s.ok -> "balloc: out of blocks"
                          [] OTHER -> "ilock: no type")
  /\ UNCHANGED procVars

(* mkdir() and mknod() *)
MkDone(p) ==
  /\ At(p, "created") /\ (IsCall(p, "mkdir") \/ IsCall(p, "mknod"))
  /\ LET i == loc[p].ip IN
     IF i = NULL THEN UNCHANGED <<lock, puts>> ELSE Unlock(i) /\ Puts(p, <<i>>)
  /\ Return(p)
  /\ UNCHANGED <<dinode, used, data, inode, valid, ref, putpc, panicked, procVars>>

Create(p) ==
  CreateLookup(p) \/ CreateOld(p) \/ CreateIalloc(p) \/ CreateIget(p) \/ CreateNew(p)

----------------------------------------------------------------------------
(* open() without O_CREATE locks what namei() found. *)
OpenIlock(p) ==
  /\ At(p, "open")
  /\ LET i == loc[p].ip
         s == Load(Disk, i)
     IN IF i = NULL
          THEN Return(p) /\ UNCHANGED <<inode, valid, lock, puts, panicked>>
          ELSE /\ lock[i] = NULL
               /\ inode' = s.ino /\ valid' = [valid EXCEPT ![i] = TRUE]
               /\ PanicIf(s.ino[i].type = "0", "ilock: no type")
               /\ IF s.ino[i].type = "DIR" /\ loc[p].call.mode # "RDONLY"
                    THEN Puts(p, <<i>>) /\ Return(p) /\ UNCHANGED lock
                    ELSE /\ lock' = [lock EXCEPT ![i] = p]
                         /\ Goto(p, "created")
                         /\ UNCHANGED <<loc, puts>>
  /\ UNCHANGED <<dinode, used, data, ref, putpc, procVars>>

(* The rest of open(): a file, a descriptor, and the lock is released. *)
OpenFile(p) ==
  /\ At(p, "created") /\ (IsCall(p, "open") \/ IsCall(p, "creat"))
  /\ LET i == loc[p].ip IN
     IF i = NULL THEN UNCHANGED <<lock, puts, file, ofile>>
     ELSE /\ Unlock(i)
          /\ IF FreeFiles # {} /\ FreeFds(p) # {}
               THEN /\ file' = [file EXCEPT ![Min(FreeFiles)] = NewFile(i, loc[p].call.mode)]
                    /\ ofile' = [ofile EXCEPT ![p][Min(FreeFds(p))] = Min(FreeFiles)]
                    /\ UNCHANGED puts
               ELSE Puts(p, <<i>>) /\ UNCHANGED <<file, ofile>>
  /\ Return(p)
  /\ UNCHANGED <<dinode, used, data, inode, valid, ref, putpc, panicked, cwd, swapFile, state,
                 prog>>

(* close() *)
Close(p, c) ==
  /\ Calls(p, c) /\ c.op = "close" /\ ofile[p][c.fd] # NULL
  /\ Fileclose(ofile[p][c.fd])
  /\ Puts(p, FileclosePuts(ofile[p][c.fd]))
  /\ ofile' = [ofile EXCEPT ![p][c.fd] = NULL]
  /\ UNCHANGED <<dinode, used, data, inode, valid, ref, lock, pc, loc, putpc, panicked,
                 cwd, swapFile, state>>

(* dup() *)
Dup(p, c) ==
  /\ Calls(p, c) /\ c.op = "dup" /\ ofile[p][c.fd] # NULL /\ FreeFds(p) # {}
  /\ ofile' = [ofile EXCEPT ![p][Min(FreeFds(p))] = ofile[p][c.fd]]
  /\ file' = [file EXCEPT ![ofile[p][c.fd]].ref = @ + 1]
  /\ UNCHANGED <<fsVars, cwd, swapFile, state>>

(* read() of one block at the file's offset. *)
Read(p, c) ==
  /\ Calls(p, c) /\ c.op = "read" /\ ofile[p][c.fd] # NULL
  /\ LET f == ofile[p][c.fd]
         i == file[f].ip
         s == Load(Disk, i)
     IN /\ lock[i] = NULL
        /\ PanicIf(s.ino[i].type = "0", "ilock: no type")
        /\ Become(s, {i}, {})
        /\ file' = [file EXCEPT ![f].off = IF @ < Len(s.ino[i].addrs) THEN @ + 1 ELSE @]
  /\ UNCHANGED <<ref, lock, pc, loc, puts, putpc, ofile, cwd, swapFile, state>>

(* write() of one block at the file's offset, into a new block at the end  *)
(* of the file; it fails at MAXFILE.                                       *)
Write(p, c) ==
  /\ Calls(p, c) /\ c.op = "write" /\ ofile[p][c.fd] # NULL
  /\ LET f == ofile[p][c.fd]
         i == file[f].ip
         t == Load(Disk, i)
         s == IF file[f].off = Len(t.ino[i].addrs) THEN BmapAppend(t, i) ELSE t
     IN /\ file[f].mode = "RDWR" /\ lock[i] = NULL
        /\ IF file[f].off = MAXFILE /\ t.ino[i].type # "0" THEN UNCHANGED <<fsVars, file>>
           ELSE /\ IF s.ok /\ t.ino[i].type # "0"
                     THEN /\ Become(s, {i}, {i})
                          /\ UNCHANGED <<ref, lock, pc, loc, puts, putpc, panicked>>
                     ELSE Panic(IF s.ok THEN "ilock: no type" ELSE "balloc: out of blocks")
                /\ file' = [file EXCEPT ![f].off = @ + 1]
  /\ UNCHANGED <<ofile, cwd, swapFile, state>>

(* A call fails at once: its descriptor is not open, there is no other, or *)
(* the file is open for reading.                                           *)
CallFails(p, c) ==
  /\ Calls(p, c) /\ c.op \in {"close", "dup", "read", "write"}
  /\ ofile[p][c.fd] # NULL =>
       \/ c.op = "dup" /\ FreeFds(p) = {}
       \/ c.op = "write" /\ file[ofile[p][c.fd]].mode = "RDONLY"
  /\ UNCHANGED <<fsVars, file, ofile, cwd, swapFile, state>>

----------------------------------------------------------------------------
(* Variant: without iupdate(). *)
LinkIncVolatile(p) ==
  /\ At(p, "link")
  /\ LET i == loc[p].ip
         s == Load(Disk, i)
         new == loc[p].call.new
     IN IF i = NULL
          THEN /\ Return(p)
               /\ UNCHANGED <<dinode, used, data, inode, valid, ref, puts, panicked>>
          ELSE /\ lock[i] = NULL
               /\ PanicIf(s.ino[i].type = "0", "ilock: no type")
               /\ IF s.ino[i].type = "DIR"
                    THEN Become(s, {i}, {}) /\ Puts(p, <<i>>) /\ Return(p) /\ UNCHANGED ref
                    ELSE /\ Become([s EXCEPT !.ino[i].nlink = @ + 1], {i}, {})
                         /\ StartNamex(p, loc[p].call, Start(p, new), new.elems, TRUE,
                                       "link_dir", i)
                         /\ UNCHANGED puts
  /\ UNCHANGED <<lock, putpc, procVars>>

(* link() raises the link count first, then looks up the new name. *)
LinkInc(p) ==
  /\ At(p, "link")
  /\ LET i == loc[p].ip
         s == Load(Disk, i)
         new == loc[p].call.new
     IN IF i = NULL
          THEN /\ Return(p)
               /\ UNCHANGED <<dinode, used, data, inode, valid, ref, puts, panicked>>
          ELSE /\ lock[i] = NULL
               /\ PanicIf(s.ino[i].type = "0", "ilock: no type")
               /\ IF s.ino[i].type = "DIR"
                    THEN Become(s, {i}, {}) /\ Puts(p, <<i>>) /\ Return(p) /\ UNCHANGED ref
                    ELSE /\ Become([s EXCEPT !.ino[i].nlink = @ + 1], {i}, {i})
                         /\ StartNamex(p, loc[p].call, Start(p, new), new.elems, TRUE,
                                       "link_dir", i)
                         /\ UNCHANGED puts
  /\ UNCHANGED <<lock, putpc, procVars>>

(* Then it adds the entry to the parent, or fails because the name exists: *)
(* dirlink() calls iput() for what it found, with the parent locked.       *)
LinkDir(p) ==
  /\ At(p, "link_dir")
  /\ LET dp == loc[p].ip
         i == loc[p].dp
         s == Load(Disk, dp)
         slot == Dirlookup(s, dp, loc[p].name)
         t == Dirlink(s, dp, loc[p].name, i)
     IN \/ /\ dp = NULL
           /\ Goto(p, "link_bad")
           /\ UNCHANGED <<dinode, used, data, inode, valid, ref, lock, loc, puts, putpc, panicked>>
        \/ /\ dp # NULL /\ lock[dp] = NULL /\ slot # 0
           /\ Become(s, {dp}, {})
           /\ LET j == Entries(s, dp)[slot].inum IN
              /\ Iget(<<j>>)
              /\ PanicIf(IcacheFull(j), "iget: no inodes")
              /\ Puts(p, <<j>>)
           /\ lock' = [lock EXCEPT ![dp] = p]
           /\ Goto(p, "link_exists")
           /\ UNCHANGED <<loc, putpc>>
        \/ /\ dp # NULL /\ lock[dp] = NULL /\ slot = 0
           /\ IF t.ok /\ s.ino[dp].type # "0"
                THEN /\ Become(t, {dp}, {dp})
                     /\ Puts(p, <<dp, i>>)
                     /\ Return(p)
                     /\ UNCHANGED <<ref, lock, putpc, panicked>>
                ELSE Panic(IF t.ok THEN "ilock: no type" ELSE "balloc: out of blocks")
  /\ UNCHANGED procVars

(* Variant: the parent is only unlocked. *)
LinkExistsLeaky(p) ==
  /\ At(p, "link_exists")
  /\ Unlock(loc[p].ip)
  /\ loc' = [loc EXCEPT ![p].ip = NULL]
  /\ Goto(p, "link_bad")
  /\ UNCHANGED <<dinode, used, data, inode, valid, ref, puts, putpc, panicked, procVars>>

LinkExists(p) ==
  /\ At(p, "link_exists")
  /\ Unlock(loc[p].ip)
  /\ Puts(p, <<loc[p].ip>>)
  /\ loc' = [loc EXCEPT ![p].ip = NULL]
  /\ Goto(p, "link_bad")
  /\ UNCHANGED <<dinode, used, data, inode, valid, ref, putpc, panicked, procVars>>

(* The link count goes down again. *)
LinkBad(p) ==
  /\ At(p, "link_bad")
  /\ LET i == loc[p].dp IN
     /\ lock[i] = NULL
     /\ PanicIf(Loaded(i).type = "0", "ilock: no type")
     /\ Become([Load(Disk, i) EXCEPT !.ino[i].nlink = @ - 1], {i}, {i})
     /\ Puts(p, <<i>>)
  /\ Return(p)
  /\ UNCHANGED <<ref, lock, putpc, procVars>>

Link(p) == LinkInc(p) \/ LinkDir(p) \/ LinkExists(p) \/ LinkBad(p)

----------------------------------------------------------------------------
(* The end of unlink(), and of removeSwapFile() in exit(), which panics    *)
(* when it failed.                                                         *)
Unlinked(p, ok) ==
  IF IsCall(p, "exit")
    THEN /\ Goto(p, "exit_cwd") /\ loc' = [loc EXCEPT ![p].ip = NULL, ![p].dp = NULL]
         /\ PanicIf(~ok, "exit: removeSwapFile failed")
    ELSE Return(p) /\ UNCHANGED panicked

(* unlink() locks the parent and looks up the name. *)
UnlinkLookup(p) ==
  /\ At(p, "unlink")
  /\ LET dp == loc[p].ip
         s == Load(Disk, dp)
         slot == Dirlookup(s, dp, loc[p].name)
     IN \/ /\ dp = NULL
           /\ Unlinked(p, FALSE)
           /\ UNCHANGED <<inode, valid, ref, lock, puts>>
        \/ /\ dp # NULL /\ lock[dp] = NULL
           /\ loc[p].name \in {".", ".."} \/ slot = 0
           /\ IF s.ino[dp].type = "0" THEN Panic("ilock: no type")
              ELSE /\ inode' = s.ino /\ valid' = [valid EXCEPT ![dp] = TRUE]
                   /\ Puts(p, <<dp>>)
                   /\ Unlinked(p, FALSE)
                   /\ UNCHANGED <<ref, lock>>
        \/ /\ dp # NULL /\ lock[dp] = NULL
           /\ loc[p].name \notin {".", ".."} /\ slot # 0
           /\ inode' = s.ino /\ valid' = [valid EXCEPT ![dp] = TRUE]
           /\ LET i == Entries(s, dp)[slot].inum IN
              /\ Iget(<<i>>)
              /\ PanicIf(IcacheFull(i), "iget: no inodes")
              /\ loc' = [loc EXCEPT ![p].dp = dp, ![p].ip = i, ![p].path = <<slot>>]
           /\ lock' = [lock EXCEPT ![dp] = p]
           /\ Goto(p, "unlink_ip")
           /\ UNCHANGED puts
  /\ UNCHANGED <<dinode, used, data, putpc, procVars>>

(* isdirempty() *)
Isdirempty(s, i) == \A k \in DOMAIN Entries(s, i) : k > 2 => Entries(s, i)[k].inum = 0

(* It locks the inode and clears the entry. *)
UnlinkEntry(p) ==
  /\ At(p, "unlink_ip")
  /\ LET dp == loc[p].dp
         i == loc[p].ip
         s == Load(Disk, i)
         t == WriteEntries(s, dp, [Entries(s, dp) EXCEPT ![Head(loc[p].path)] = EmptyEntry])
         u == IF s.ino[i].type = "DIR" THEN [t EXCEPT !.ino[dp].nlink = @ - 1] ELSE t
     IN /\ lock[i] = NULL
        /\ IF s.ino[i].type = "0" THEN Panic("ilock: no type")
           ELSE IF s.ino[i].nlink < 1 THEN Panic("unlink: nlink < 1")
           ELSE /\ IF s.ino[i].type = "DIR" /\ ~Isdirempty(s, i)
                     THEN /\ Become(s, {i}, {})
                          /\ loc' = [loc EXCEPT ![p].ip = NULL]
                          /\ Puts(p, <<i>>)
                          /\ Goto(p, "unlink_bad")
                          /\ UNCHANGED lock
                     ELSE /\ Become(u, {i}, {dp})
                          /\ lock' = [lock EXCEPT ![dp] = NULL, ![i] = p]
                          /\ loc' = [loc EXCEPT ![p].dp = NULL, ![p].path = <<>>]
                          /\ Puts(p, <<dp>>)
                          /\ Goto(p, "unlink_nlink")
                /\ UNCHANGED <<ref, putpc, panicked>>
  /\ UNCHANGED procVars

UnlinkBad(p) ==
  /\ At(p, "unlink_bad")
  /\ Unlock(loc[p].dp)
  /\ Puts(p, <<loc[p].dp>>)
  /\ Unlinked(p, FALSE)
  /\ UNCHANGED <<dinode, used, data, inode, valid, ref, putpc, procVars>>

(* The parent is released before the link count goes down. *)
UnlinkNlink(p) ==
  /\ At(p, "unlink_nlink")
  /\ LET i == loc[p].ip IN
     /\ Become([Disk EXCEPT !.ino[i].nlink = @ - 1], {}, {i})
     /\ Unlock(i)
     /\ Puts(p, <<i>>)
  /\ Unlinked(p, TRUE)
  /\ UNCHANGED <<ref, putpc, procVars>>

Unlink(p) == UnlinkLookup(p) \/ UnlinkEntry(p) \/ UnlinkBad(p) \/ UnlinkNlink(p)

(* chdir() *)
Chdir(p) ==
  /\ At(p, "chdir")
  /\ LET i == loc[p].ip
         s == Load(Disk, i)
     IN IF i = NULL THEN UNCHANGED <<inode, valid, puts, panicked, cwd>>
        ELSE /\ lock[i] = NULL
             /\ inode' = s.ino /\ valid' = [valid EXCEPT ![i] = TRUE]
             /\ PanicIf(s.ino[i].type = "0", "ilock: no type")
             /\ IF s.ino[i].type = "DIR"
                  THEN Puts(p, <<cwd[p]>>) /\ cwd' = [cwd EXCEPT ![p] = i]
                  ELSE Puts(p, <<i>>) /\ UNCHANGED cwd
  /\ Return(p)
  /\ UNCHANGED <<dinode, used, data, ref, lock, putpc, file, ofile, swapFile, state, prog>>

----------------------------------------------------------------------------
(* fork(): allocproc() creates the swap file of the new process. *)
Fork(p, c, q) ==
  /\ Calls(p, c) /\ c.op = "fork" /\ state[q] = "UNUSED"
  /\ state' = [state EXCEPT ![q] = "EMBRYO"]
  /\ swapFile' = [swapFile EXCEPT ![q] = NULL]
  /\ StartNamex(p, [op |-> "fork", child |-> q], ROOTINO, <<SwapName[q]>>, TRUE, "create", NULL)
  /\ UNCHANGED <<dinode, used, data, inode, valid, lock, puts, putpc, panicked,
                 file, ofile, cwd>>

(* createSwapFile() after create(): iunlock(0) and a full table panic. *)
SwapFile(p) ==
  /\ At(p, "created") /\ IsCall(p, "fork")
  /\ LET i == loc[p].ip IN
     IF i = NULL \/ FreeFiles = {}
       THEN Panic(IF i = NULL THEN "iunlock" ELSE "no slot for files on /store")
            /\ UNCHANGED <<file, swapFile>>
       ELSE /\ Unlock(i)
            /\ file' = [file EXCEPT ![Min(FreeFiles)] = NewFile(i, "RDWR")]
            /\ swapFile' = [swapFile EXCEPT ![loc[p].call.child] = Min(FreeFiles)]
            /\ loc' = [loc EXCEPT ![p].ip = NULL]
            /\ Goto(p, "fork_dup")
            /\ UNCHANGED <<dinode, used, data, inode, valid, ref, puts, putpc, panicked>>
  /\ UNCHANGED <<ofile, cwd, state, prog>>

(* The rest of fork(): without memory the child is given up; else it gets  *)
(* the open files and the current directory.                               *)
ForkDup(p) ==
  /\ At(p, "fork_dup")
  /\ LET q == loc[p].call.child IN
     \E ok \in MemoryFor :
       IF ok
         THEN /\ state' = [state EXCEPT ![q] = "LIVE"]
              /\ ofile' = [ofile EXCEPT ![q] = ofile[p]]
              /\ file' = [f \in Files |->
                   [file[f] EXCEPT !.ref = @ + Cardinality({fd \in Fds : ofile[p][fd] = f})]]
              /\ cwd' = [cwd EXCEPT ![q] = cwd[p]]
              /\ Iget(<<cwd[p]>>)
         ELSE /\ state' = [state EXCEPT ![q] = "UNUSED"]
              /\ UNCHANGED <<ofile, file, cwd, ref>>
  /\ Return(p)
  /\ UNCHANGED <<dinode, used, data, inode, valid, lock, puts, putpc, panicked, swapFile, prog>>

Exit(p, c) ==
  /\ Calls(p, c) /\ c.op = "exit" /\ p # InitProc
  /\ Goto(p, "exit")
  /\ UNCHANGED <<dinode, used, data, inode, valid, ref, lock, loc, puts, putpc, panicked,
                 file, ofile, cwd, swapFile, state>>

(* exit() closes the open files one by one ... *)
ExitClose(p) ==
  /\ At(p, "exit")
  /\ \E fd \in Fds :
       /\ ofile[p][fd] # NULL /\ \A fd2 \in Fds : ofile[p][fd2] # NULL => fd <= fd2
       /\ Fileclose(ofile[p][fd])
       /\ Puts(p, FileclosePuts(ofile[p][fd]))
       /\ ofile' = [ofile EXCEPT ![p][fd] = NULL]
  /\ UNCHANGED <<dinode, used, data, inode, valid, ref, lock, pc, loc, putpc, panicked,
                 cwd, swapFile, state, prog>>

(* ... then removeSwapFile() closes the swap file and unlinks it ... *)
ExitSwap(p) ==
  /\ At(p, "exit") /\ \A fd \in Fds : ofile[p][fd] = NULL
  /\ Fileclose(swapFile[p])
  /\ Puts(p, FileclosePuts(swapFile[p]))
  /\ swapFile' = [swapFile EXCEPT ![p] = NULL]
  /\ StartNamex(p, [op |-> "exit"], ROOTINO, <<SwapName[p]>>, TRUE, "unlink", NULL)
  /\ UNCHANGED <<dinode, used, data, inode, valid, lock, putpc, panicked, ofile, cwd, state, prog>>

(* ... and the current directory is given up; wait() frees the process. *)
ExitCwd(p) ==
  /\ At(p, "exit_cwd")
  /\ IF cwd[p] # NULL
       THEN /\ Puts(p, <<cwd[p]>>)
            /\ cwd' = [cwd EXCEPT ![p] = NULL]
            /\ UNCHANGED <<pc, loc, state>>
       ELSE /\ Return(p)
            /\ state' = [state EXCEPT ![p] = "UNUSED"]
            /\ UNCHANGED <<puts, cwd>>
  /\ UNCHANGED <<dinode, used, data, inode, valid, ref, lock, putpc, panicked, file, ofile,
                 swapFile, prog>>

----------------------------------------------------------------------------
Call(p, c) ==
  \/ PathCall(p, c) \/ Close(p, c) \/ Dup(p, c) \/ Read(p, c) \/ Write(p, c) \/ CallFails(p, c)
  \/ Exit(p, c)
  \/ \E q \in Procs : Fork(p, c, q)

Next ==
  \E p \in Procs :
    \/ (Iput(p) \/ Namex(p)) /\ UNCHANGED procVars
    \/ Create(p) \/ MkDone(p) \/ OpenIlock(p) \/ OpenFile(p) \/ Link(p) \/ Unlink(p) \/ Chdir(p)
    \/ SwapFile(p) \/ ForkDup(p) \/ ExitClose(p) \/ ExitSwap(p) \/ ExitCwd(p)
    \/ prog[p] # <<>> /\ Call(p, Head(prog[p]))

Spec == Init /\ [][Next]_vars

----------------------------------------------------------------------------
(* What refers to inode i, and to file f: pointers of processes, the      *)
(* inodes they have yet to iput(), and files.                              *)
Holders(i) ==
  LET In(v) == Cardinality({p \in Procs : v[p] = i})
  IN In(cwd) + In([p \in Procs |-> loc[p].ip]) + In([p \in Procs |-> loc[p].dp])
       + Cardinality({h \in Procs \X (1 .. 2) :
                        h[2] <= Len(puts[h[1]]) /\ puts[h[1]][h[2]] = i})
       + Cardinality({f \in Files : file[f].ref > 0 /\ file[f].ip = i})
FileHolders(f) ==
  Cardinality({h \in Procs \X Fds : ofile[h[1]][h[2]] = f})
    + Cardinality({p \in Procs : state[p] # "UNUSED" /\ swapFile[p] = f})

(* fs.c:125-130: ip->ref counts the pointers to the entry, and f->ref      *)
(* (file.c) those to the file: no path through a call, its failures        *)
(* included, loses a reference or drops one twice.                         *)
RefsExact ==
  /\ \A i \in Inums : ref[i] = Holders(i)
  /\ \A f \in Files : file[f].ref = FileHolders(f)

(* The bitmap marks exactly the blocks of the allocated inodes, no block   *)
(* belongs to two of them, a free inode has none, and the copy of an inode *)
(* that nobody has locked is the one on the disk (iupdate()).              *)
DiskConsistent ==
  /\ used = UNION {BlocksOf(dinode[i]) : i \in Inums}
  /\ \A i, j \in Inums : i # j => BlocksOf(dinode[i]) \cap BlocksOf(dinode[j]) = {}
  /\ \A i \in Inums : dinode[i].type = "0" => BlocksOf(dinode[i]) = {}
  /\ \A i \in Inums : valid[i] /\ lock[i] = NULL => inode[i] = dinode[i]

(* The entries of directory d on the disk, and those of all directories    *)
(* that can be reached from the root; "." does not count.                  *)
OnDisk(d) ==
  IF dinode[d].type = "DIR"
    THEN LET es == UNION {Range(data[b]) : b \in Range(dinode[d].addrs)}
         IN {<<d, e>> : e \in es \ {EmptyEntry}}
    ELSE {}
Reach[n \in 0 .. Cardinality(Inums)] ==
  IF n = 0 THEN OnDisk(ROOTINO)
  ELSE LET r == Reach[n - 1] IN UNION {OnDisk(l[2].inum) : l \in r}
Links == {l \in Reach[Cardinality(Inums)] : l[2].name # "."}

(* fs.h:33: nlink counts the names of an inode.  A name always leads to an *)
(* allocated inode, which is not freed while a name is left: link() counts *)
(* before it writes the entry, unlink() after.                             *)
NamesResolve ==
  LET links == Links
  IN \A i \in Inums : LET n == Cardinality({l \in links : l[2].inum = i})
                       IN n <= dinode[i].nlink /\ (n > 0 => dinode[i].type # "0")

(* With no call in progress and no open file the count is exact.           *)
LinksExact ==
  (\A p \in Procs : At(p, "user")) =>
    LET links == Links
    IN \A i \in Inums : dinode[i].type # "0" /\ ref[i] = 0 =>
         dinode[i].nlink = Cardinality({l \in links : l[2].inum = i})

(* The locks the next step of p waits for. *)
Wants(p) ==
  CASE puts[p] # <<>> -> IF putpc[p] = "lock" THEN {Head(puts[p])} ELSE {}
    [] puts[p] = <<>> /\ pc[p] \in {"open", "create", "create_old", "create_new", "link",
         "link_dir", "unlink", "unlink_ip", "chdir"} -> {loc[p].ip} \ {NULL}
    [] puts[p] = <<>> /\ pc[p] = "namex" /\ loc[p].path # <<>> -> {loc[p].ip}
    [] puts[p] = <<>> /\ pc[p] = "link_bad" -> {loc[p].dp}
    [] OTHER -> {}

(* No set of processes wait for locks that they hold themselves: parents   *)
(* are locked before their children, and lookups keep one lock at a time.  *)
NoDeadlock ==
  \A S \in SUBSET Procs \ {{}} : \E p \in S : \A i \in Wants(p) : lock[i] \notin S

============================================================================
