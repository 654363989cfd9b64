----------------------------- MODULE MCSysfile -----------------------------
(* Sysfile for TLC: a file /a, a directory /d and a file /d/a, beside a    *)
(* file /e of the image, which has an indirect block.                      *)
EXTENDS Sysfile

CONSTANTS p1, p2

Abs(elems) == [abs |-> TRUE, elems |-> elems]
Rel(elems) == [abs |-> FALSE, elems |-> elems]
Creat(path) == [op |-> "creat", path |-> path, mode |-> "RDWR"]
Open(path) == [op |-> "open", path |-> path, mode |-> "RDWR"]
OpenRead(path) == [op |-> "open", path |-> path, mode |-> "RDONLY"]
Named(op, path) == [op |-> op, path |-> path]
LinkCall(old, new) == [op |-> "link", path |-> old, new |-> new]
On(op, fd) == [op |-> op, fd |-> fd]
Plain(op) == [op |-> op]

MCImageFiles == <<[name |-> "e", blocks |-> 2]>>
MCNames == {".", "..", "a", "b", "d", "e", "s1", "s2"}
MCSwapName == [p \in Procs |-> IF p = p1 THEN "s1" ELSE "s2"]

A == Abs(<<"a">>)
B == Abs(<<"b">>)
D == Abs(<<"d">>)
E == Abs(<<"e">>)
DA == Abs(<<"d", "a">>)
Near == Rel(<<"a">>)

(* The programs of two processes: the first makes its calls before, forks, *)
(* and goes on with one of the sequences of first; the second makes one of *)
(* second and exits.                                                       *)
Pairs(before, first, second) ==
  {(p1 :> before \o <<Plain("fork")>> \o x) @@ (p2 :> Append(y, Plain("exit"))) :
     x \in first, y \in second}

(* Names: files and directories that come, go and are entered. *)
Names1 == {Creat(A), Named("unlink", A), LinkCall(A, DA), Named("unlink", D), Creat(DA),
           Named("chdir", D)}
Names2 == Names1 \cup {Creat(Near), Named("mkdir", DA)}
(* Files: two processes share /a, open twice, and write it. *)
Shared == <<Creat(A), On("write", 0)>>
Uses == {On("read", 0), On("write", 0), On("dup", 0), On("close", 0), Named("unlink", A)}
(* Calls that fail, or are rare. *)
Odd == {Named("mknod", B), Named("chdir", A), Open(D), OpenRead(D), LinkCall(D, B), LinkCall(A, D),
        Named("unlink", Abs(<<"d", ".">>)), Named("mkdir", Abs(<<>>)), LinkCall(A, Abs(<<"b", "a">>)),
        Open(DA), Named("chdir", B), Named("unlink", Abs(<<"a", "b">>)), LinkCall(B, A),
        Open(E), Named("unlink", E)}

MCPrograms ==
  Pairs(<<Named("mkdir", D)>>, {<<x, y>> : x \in Names1, y \in Names1}, {<<z>> : z \in Names2})
    \cup Pairs(Shared, {<<x, y>> : x \in Uses, y \in Uses}, {<<x, y>> : x \in Uses, y \in Uses})
    \cup Pairs(<<Named("mkdir", D), Creat(A)>>, {<<x>> : x \in Odd}, {<<Named("unlink", A)>>})
(* One process creates /a while the other removes it. *)
MCRace == Pairs(<<>>, {<<Creat(A)>>}, {<<Named("unlink", A)>>})
(* link("/a", "/d/.") *)
MCDot == Pairs(<<Named("mkdir", D), Creat(A)>>, {<<LinkCall(A, Abs(<<"d", ".">>))>>}, {<<>>})
============================================================================
