------------------------------ MODULE MCNandFs ------------------------------
(* Small instances of NandFs for TLC. *)
EXTENDS NandFs, TLC

Path(d, b) == [dir |-> d, base |-> b]

Dir(name, sibling) ==
    [attr |-> 2, name |-> name, first |-> Nil, sibling |-> sibling, size |-> 0, uid |-> 0]
Root == [Dir("/", Nil) EXCEPT !.first = 1]

\* "/d", empty, and room for the files of a run.  The last cluster belongs to
\* the superclusters, as on every NAND.
OneDir == [n \in Node |-> CASE n = 0 -> Root [] n = 1 -> Dir("d", Nil) [] OTHER -> ZeroNode]
\* "/d" and "/e".
TwoDirs == [n \in Node |-> CASE n = 0 -> Root [] n = 1 -> Dir("d", 2)
                             [] n = 2 -> Dir("e", Nil) [] OTHER -> ZeroNode]
\* "/d" and a file "/b" of one unit in cluster 0.  Objects directly under "/"
\* are never removed or created by the code, so "/b" stays.
Neighbour == [n \in Node |->
    CASE n = 0 -> Root [] n = 1 -> Dir("d", 2)
      [] n = 2 -> [attr |-> 1, name |-> "b", first |-> 0, sibling |-> Nil, size |-> 1, uid |-> 0]
      [] OTHER -> ZeroNode]
NeighbourFat == [c \in Cluster |-> IF c = NC - 1 THEN RESV ELSE IF c = 0 THEN EOC ELSE FREE]

EmptyFat == [c \in Cluster |-> IF c = NC - 1 THEN RESV ELSE FREE]

FileAndNeighbour == {Path(<<"d">>, "a"), Path(<<>>, "b")}
TwoFiles == {Path(<<"d">>, "a"), Path(<<"d">>, "b")}
TreePaths == {Path(<<"d">>, "a"), Path(<<"d">>, "b"), Path(<<"e">>, "a"), Path(<<"e">>, "b"),
              Path(<<>>, "a"), Path(<<"d", "a">>, "a")}

\* No operation depends on the contents of the clusters; a run that checks
\* nothing about them need not tell them apart.
MCView == <<files, fat, rootok, used_fds, fd_array, handle, wild>>

\* The kernel's handles are interchangeable.
MCSymmetry == Permutations(Handles)

FileOps == {"mknod", "unlink", "truncate", "open", "release", "read", "write"}
=============================================================================
