------------------------------- MODULE NandFs -------------------------------
(***************************************************************************)
(* The file system wiinandfuse serves from the SFFS in memory: the node    *)
(* tree (SFFS.files), the cluster table (SFFS.cluster_table), the open     *)
(* file slots (used_fds, fd_array) and the data clusters, under the FUSE   *)
(* operations that change them, one operation at a time.                   *)
(*                                                                         *)
(* A cluster is U units long.  A request lies within one cluster: libfuse  *)
(* 2 without big_writes passes writes of at most one page.  Where the code *)
(* indexes one of its tables out of range the model stops (wild): what the *)
(* program does from there on is not described.                            *)
(***************************************************************************)
EXTENDS Integers, Sequences, FiniteSets

CONSTANTS
    NN,         \* entries of SFFS.files (6143)
    NC,         \* entries of SFFS.cluster_table (32768)
    U,          \* units of data in a cluster
    NFD,        \* open file slots (32)
    Handles,    \* files the kernel may hold open
    Names,      \* path components
    Paths,      \* paths the operations are called with
    Vals,       \* values a unit of data can have; 0 is one
    Uids,       \* owners, for fs_chown
    MaxSize,    \* bound on file sizes, in units
    Ops,        \* operations the clients use
    Polite,     \* clients never make holes in files, remove only empty directories
                \* and keep to RenameAllowed and TruncateAllowed
    write_enable,
    InitFiles, InitFat   \* metadata found on the NAND

\* Values of a 16 bit node or cluster number that are no index.
Nil    == -1    \* 0xffff
EOC    == -2    \* 0xfffb, the last cluster of a file
FREE   == -3    \* 0xfffe
RESV   == -4    \* 0xfffc, 0xfffd: superclusters, boot, bad blocks
ENOSPC == -5    \* -ENOSPC stored as a cluster number
Lost   == -6    \* read from beyond the cluster table

Node    == 0 .. NN - 1
Cluster == 0 .. NC - 1
Slot    == 0 .. NFD - 1
FatValue == 0 .. NC \cup {EOC, FREE, RESV, ENOSPC}
\* first_child and first_cluster share their bytes.
Link == 0 .. (NN + NC) \cup {Nil, EOC, ENOSPC}
Type == {0, 1, 2}      \* attr & 3: free, file, directory

NodeRecord ==
    [attr : Type, name : Names \cup {"", "/"}, first : Link,
     sibling : Node \cup {Nil}, size : 0 .. MaxSize, uid : Uids]
\* A slot that outlives its file walks through freed and reallocated clusters.
SlotRecord ==
    [node : Node, first : Link, cur : Link \cup {FREE, RESV}, size : 0 .. MaxSize,
     index : Int]

AllOps == {"mknod", "mkdir", "unlink", "rmdir", "rename", "chown", "truncate",
           "open", "release", "read", "write"}

ASSUME NandFsConstants ==
    /\ NN \in Nat /\ NN > 1
    /\ NC \in Nat /\ NC > 0
    /\ U \in Nat /\ U > 0
    /\ NFD \in Nat /\ NFD > 0
    /\ MaxSize \in Nat
    /\ Paths \subseteq [dir : Seq(Names), base : Names]
    /\ 0 \in Vals /\ 0 \in Uids
    /\ Ops \subseteq AllOps
    /\ Polite \in BOOLEAN /\ write_enable \in BOOLEAN
    /\ InitFiles \in [Node -> NodeRecord]
    /\ InitFat \in [Cluster -> FatValue]

VARIABLES
    files,      \* SFFS.files
    fat,        \* SFFS.cluster_table
    rootok,     \* the name of files[0] is "/"
    data,       \* data clusters: contents, and what their HMAC binds
    used_fds, fd_array,
    handle,     \* the kernel's open files: slot number (fi->fh) and file
    content,    \* history: what each file was written to hold
    wild        \* a table was indexed out of range

vars == <<files, fat, rootok, data, used_fds, fd_array, handle, content, wild>>

ZeroNode == [attr |-> 0, name |-> "", first |-> 0, sibling |-> 0, size |-> 0, uid |-> 0]
ZeroSlot == [node |-> 0, first |-> 0, cur |-> 0, size |-> 0, index |-> 0]
NoHandle == [fh |-> -1, node |-> 0]
NoMac    == [node |-> -1, name |-> "", uid |-> 0, index |-> 0]

Files == {n \in Node : files[n].attr = 1}

-----------------------------------------------------------------------------
(* nandfs_open, on a table of nodes fs *)

\* The first member of S on the sibling list that starts at start, or {}.
FirstOf(fs, start, S) ==
    LET walk[k \in 0 .. NN] ==
            IF k = 0 THEN start
            ELSE IF walk[k-1] \in Node THEN fs[walk[k-1]].sibling ELSE Nil
    IN  {n \in S : \E k \in 0 .. NN :
            walk[k] = n /\ \A j \in 0 .. k - 1 : walk[j] \notin S}

Named(fs, name, type) == {n \in Node : fs[n].name = name /\ fs[n].attr = type}

\* The head of the list of children of the directory dir.  A directory
\* without children is never entered; the search goes on behind it.
ChildList(fs, dir) ==
    LET head[i \in 0 .. Len(dir)] ==
            IF i = 0 THEN fs[0].first
            ELSE LET d == FirstOf(fs, head[i-1],
                                  {n \in Named(fs, dir[i], 2) : fs[n].first # Nil})
                 IN  IF d = {} THEN Nil ELSE fs[CHOOSE n \in d : TRUE].first
    IN  head[Len(dir)]

\* The node of a path and a type, as a singleton, or {} for -1.
nandfs_open(fs, path, type) ==
    IF rootok
    THEN FirstOf(fs, ChildList(fs, path.dir), Named(fs, path.base, type))
    ELSE {}

\* nandfs_open of the parent path.  For an object directly under "/" that
\* path is the empty string, which is never found.
OpenParent(fs, path) ==
    LET l == Len(path.dir)
    IN  IF l = 0 THEN {}
        ELSE nandfs_open(fs, [dir |-> SubSeq(path.dir, 1, l - 1), base |-> path.dir[l]], 2)

-----------------------------------------------------------------------------
(* The cluster table *)

\* Mutant: the cluster is not marked as taken.
UnmarkedAllocate(f) ==
    {[c |-> i, fat |-> f, full |-> FALSE] :
        i \in {i \in Cluster : f[i] = FREE /\ \A j \in 0 .. i - 1 : f[j] # FREE}}
LowestFree(f) == {i \in Cluster : f[i] = FREE /\ \A j \in 0 .. i - 1 : f[j] # FREE}
\* nandfs_allocatecluster on the table f, as a singleton: the number returned,
\* the table, and whether the search ran off the end of the table, in which
\* case 0xfffb lands on the name of files[0].
nandfs_allocatecluster(f) ==
    {[c |-> i, fat |-> [f EXCEPT ![i] = EOC], full |-> FALSE] :
        i \in LowestFree(f) \ {NC - 1}}
    \cup {[c |-> ENOSPC, fat |-> f, full |-> FALSE] : i \in LowestFree(f) \cap {NC - 1}}
    \cup {[c |-> NC, fat |-> f, full |-> TRUE] : x \in {y \in {0} : LowestFree(f) = {}}}

\* The cluster k links after first.
Hop(first, k) ==
    LET walk[i \in 0 .. k] ==
            IF i = 0 THEN first
            ELSE IF walk[i-1] \in Cluster THEN fat[walk[i-1]] ELSE Lost
    IN  walk[k]

\* The clusters linked from first.
Chain(first) ==
    {c \in Cluster : \A T \in SUBSET Cluster :
        /\ first \in Cluster => first \in T
        /\ \A t \in T : fat[t] \in Cluster => fat[t] \in T
        => c \in T}

\* Mutant: the walk stops before the last cluster.
FreedButLast(first) ==
    [c \in Cluster |-> IF c \in Chain(first) /\ fat[c] # EOC THEN FREE ELSE fat[c]]
\* Mutant: clusters are freed with 0xffff, the mark of an empty file.
FreedAsNil(first) == [c \in Cluster |-> IF c \in Chain(first) THEN Nil ELSE fat[c]]
\* The table after nandfs_unlink has walked the chain from first and freed it.
Freed(first) == [c \in Cluster |-> IF c \in Chain(first) THEN FREE ELSE fat[c]]

\* Mutant: a file without clusters is not recognised.
WalkEndsInEOC(first, Ends) ==
    first = EOC \/ \E c \in Chain(first) : fat[c] = EOC
\* A walk from first meets a value of Ends without leaving the table.
WalkEnds(first, Ends) ==
    first \in Ends \/ \E c \in Chain(first) : fat[c] \in Ends

-----------------------------------------------------------------------------

GoWild ==
    /\ wild' = TRUE
    /\ UNCHANGED <<files, fat, rootok, data, used_fds, fd_array, handle, content>>

(* nandfs_create for mknod and mkdir *)

\* nandfs_findemptynode: -ENOSPC for the last node, NN when there is none.
EmptyNode ==
    {i \in Node : files[i].attr = 0 /\ \A j \in 0 .. i - 1 : files[j].attr # 0}

\* fs after node n is put at the end of the children of directory d.
LinkChild(fs, d, n) ==
    IF fs[d].first = Nil THEN [fs EXCEPT ![d].first = n]
    ELSE LET last == FirstOf(fs, fs[d].first, {m \in Node : fs[m].sibling = Nil})
         IN  [m \in Node |-> IF m \in last THEN [fs[m] EXCEPT !.sibling = n] ELSE fs[m]]

NewNode(path, type) ==
    [attr |-> type, name |-> path.base, first |-> Nil, sibling |-> Nil,
     size |-> 0, uid |-> 0]

nandfs_create(path, type) ==
    /\ write_enable
    /\ nandfs_open(files, path, type) = {}
    /\ \E d \in OpenParent(files, path) :
        IF EmptyNode \subseteq {NN - 1}
        THEN GoWild
        ELSE \E n \in EmptyNode :
            /\ files' = LinkChild([files EXCEPT ![n] = NewNode(path, type)], d, n)
            /\ content' = [content EXCEPT ![n] = <<>>]
            /\ UNCHANGED <<fat, rootok, data, used_fds, fd_array, handle, wild>>

fs_mknod(path) == nandfs_create(path, 1)
fs_mkdir(path) == nandfs_create(path, 2)

-----------------------------------------------------------------------------
(* nandfs_unlink *)

\* Mutant: the first child is taken off whichever child is removed.
UnlinkFirstChild(fs, d, n) == [fs EXCEPT ![d].first = fs[n].sibling]
\* fs after node n is taken off the children of directory d: the entry that
\* leads to n, or the last one if none does, gets n's successor.
UnlinkChild(fs, d, n) ==
    LET next == fs[n].sibling
        pred == FirstOf(fs, fs[d].first, {m \in Node : fs[m].sibling \in {n, Nil}})
    IN  IF fs[d].first = Nil THEN fs
        ELSE IF fs[d].first = n THEN [fs EXCEPT ![d].first = next]
        ELSE [m \in Node |-> IF m \in pred THEN [fs[m] EXCEPT !.sibling = next] ELSE fs[m]]

\* Only the parent is looked at for -ENOTEMPTY.
nandfs_unlink(path, type, n) ==
    /\ write_enable
    /\ n \in nandfs_open(files, path, type)
    /\ \E d \in OpenParent(files, path) :
        /\ type = 2 => files[d].first # Nil
        /\ IF type = 1 /\ ~WalkEnds(files[n].first, {EOC, Nil})
           THEN GoWild
           ELSE /\ files' = [UnlinkChild(files, d, n) EXCEPT ![n] = ZeroNode]
                /\ fat' = IF type = 1 THEN Freed(files[n].first) ELSE fat
                /\ content' = [content EXCEPT ![n] = <<>>]
                /\ UNCHANGED <<rootok, data, used_fds, fd_array, handle, wild>>

OpenNodes == {handle[h].node : h \in {g \in Handles : handle[g] # NoHandle}}

\* libfuse turns the removal of an open file into a rename.
fs_unlink(path) == \E n \in Node \ OpenNodes : nandfs_unlink(path, 1, n)

fs_rmdir(path) ==
    \E n \in Node :
        /\ Polite => files[n].first = Nil
        /\ nandfs_unlink(path, 2, n)

-----------------------------------------------------------------------------
(* fs_rename: files only; the new name is in place before anything is checked *)

\* What fs_rename makes of the nodes when it moves a file to another
\* directory: unlink with clear = 1 by the old path, then create.
Moved(fs, path, newpath) ==
    LET src == nandfs_open(fs, path, 1)
        dir == OpenParent(fs, path)
        out == {[UnlinkChild(fs, d, n) EXCEPT ![n].sibling = Nil] : d \in dir, n \in src}
    IN  IF src = {} \/ dir = {} THEN {fs}
        ELSE UNION {IF \/ nandfs_open(fs2, newpath, 1) # {}
                       \/ OpenParent(fs2, newpath) = {}
                    THEN {fs2}
                    ELSE {LinkChild(fs2, e, n) : e \in OpenParent(fs2, newpath), n \in src}
                    : fs2 \in out}

\* A client that only renames to a free name, and moves without renaming.
RenameAllowed(path, newpath) ==
    /\ \A type \in {1, 2} : nandfs_open(files, newpath, type) = {}
    /\ OpenParent(files, newpath) # {}
    /\ path.dir = newpath.dir \/ path.base = newpath.base

fs_rename(path, newpath) ==
    /\ write_enable
    /\ Polite => RenameAllowed(path, newpath)
    /\ \E n \in nandfs_open(files, path, 1) :
        LET fs == [files EXCEPT ![n].name = newpath.base]
        IN  IF path.dir = newpath.dir THEN files' = fs
            ELSE files' \in Moved(fs, path, newpath)
    /\ UNCHANGED <<fat, rootok, data, used_fds, fd_array, handle, content, wild>>

\* With -p: the uid part.
fs_chown(path, uid) ==
    /\ write_enable
    /\ LET f == nandfs_open(files, path, 1)
       IN  \E n \in IF f # {} THEN f ELSE nandfs_open(files, path, 2) :
              files' = [files EXCEPT ![n].uid = uid]
    /\ UNCHANGED <<fat, rootok, data, used_fds, fd_array, handle, content, wild>>

-----------------------------------------------------------------------------
(* Open files *)

\* The kernel opens h; fs_open takes the lowest free slot and copies the
\* first cluster and the size of the node into it.
fs_open(h, path) ==
    /\ handle[h] = NoHandle
    /\ used_fds # Slot
    /\ \E n \in nandfs_open(files, path, 1), i \in Slot \ used_fds :
        /\ \A j \in 0 .. i - 1 : j \in used_fds
        /\ used_fds' = used_fds \cup {i}
        /\ fd_array' = [fd_array EXCEPT ![i] =
              [node |-> n, first |-> files[n].first, cur |-> files[n].first,
               size |-> files[n].size, index |-> 0]]
        /\ handle' = [handle EXCEPT ![h] = [fh |-> i, node |-> n]]
    /\ UNCHANGED <<files, fat, rootok, data, content, wild>>

\* "used_fds &= ~1<<fh" keeps only the bits above fh.
BitsKept(fh) == {i \in used_fds : i > fh}

fs_release(h) ==
    /\ handle[h] # NoHandle
    /\ LET fh == handle[h].fh
       IN  IF fh \in used_fds
           THEN /\ used_fds' = BitsKept(fh)
                /\ fd_array' = [fd_array EXCEPT ![fh] = ZeroSlot]
           ELSE UNCHANGED <<used_fds, fd_array>>
    /\ handle' = [handle EXCEPT ![h] = NoHandle]
    /\ UNCHANGED <<files, fat, rootok, data, content, wild>>

\* Mutants: nandfs_seek leaves cur_cluster, or cluster_index, as it was.
SeekCurKept(fd, off)   == fd.cur
SeekIndexKept(fd, off) == IF off > fd.size THEN fd.index ELSE fd.index + (off \div U)
\* nandfs_seek: beyond the size the slot remembers, the current cluster stays.
SeekCur(fd, off)   == IF off > fd.size THEN fd.cur ELSE Hop(fd.first, off \div U)
SeekIndex(fd, off) == IF off > fd.size THEN fd.index ELSE off \div U

\* nandfs_read moves through the file and stops at its end, or at an I/O, ECC
\* or HMAC error in some cluster k before that.  Behind the remembered size the
\* length to read wraps around.
fs_read(h, off, len) ==
    /\ handle[h].fh \in used_fds
    /\ off < files[handle[h].node].size
    /\ LET fh == handle[h].fh
           fd == fd_array[fh]
           stop == IF off + len > fd.size THEN fd.size ELSE off + len
       IN  IF off > fd.size
           THEN IF fd.cur = Nil THEN UNCHANGED vars ELSE GoWild
           ELSE \E k \in off \div U .. stop \div U :
                IF Hop(fd.first, k) = Lost THEN GoWild
                ELSE /\ fd_array' = [fd_array EXCEPT ![fh].cur = Hop(fd.first, k),
                                                     ![fh].index = k]
                     /\ UNCHANGED <<files, fat, rootok, data, used_fds, handle,
                                    content, wild>>

\* What the HMAC of a data cluster binds (fs_hmac_data).
MacFor(n, index) == [node |-> n, name |-> files[n].name, uid |-> files[n].uid, index |-> index]

\* The clients' view of a file after len units of v were written at off.
Overwritten(s, off, len, v) ==
    [p \in 1 .. (IF off + len > Len(s) THEN off + len ELSE Len(s)) |->
        IF p > off /\ p <= off + len THEN v ELSE IF p <= Len(s) THEN s[p] ELSE 0]

\* The cluster nandfs_write starts with, as nandfs_allocatecluster returns it:
\* an empty file gets its first cluster here.
NeedsFirst(fd, cur) == cur = fd.first /\ cur = Nil
FirstCluster(fd, cur) ==
    IF NeedsFirst(fd, cur) THEN nandfs_allocatecluster(fat)
    ELSE {[c |-> cur, fat |-> fat, full |-> FALSE]}

\* The cluster that follows a.c once a.c has been filled: the last cluster of a
\* chain gets a successor at once.
NextCluster(a) ==
    IF a.fat[a.c] = EOC
    THEN {[c |-> b.c, fat |-> [b.fat EXCEPT ![a.c] = b.c], full |-> b.full] :
            b \in nandfs_allocatecluster(a.fat)}
    ELSE {[c |-> a.fat[a.c], fat |-> a.fat, full |-> FALSE]}

\* fs_write and nandfs_write: len units of v at off, within one cluster.  The
\* cluster is read, changed and written back; the read may fail (-EIO), and
\* with -e the code goes on in a cluster beyond the table, outside the NAND.
fs_write(h, off, len, v, eio) ==
    /\ handle[h].fh \in used_fds
    /\ Polite => off <= files[handle[h].node].size
    /\ LET fh    == handle[h].fh
           fd    == fd_array[fh]
           cur   == SeekCur(fd, off)
           index == SeekIndex(fd, off)
           fills == (off % U) + len = U
           size  == IF off + len > fd.size THEN off + len ELSE fd.size
       IN  IF cur = Lost THEN GoWild
           ELSE \E a \in FirstCluster(fd, cur) :
              LET first == IF NeedsFirst(fd, cur) THEN a.c ELSE fd.first
                  node  == [files[fd.node] EXCEPT
                              !.first = IF NeedsFirst(fd, cur) THEN a.c ELSE @]
              IN  \/ /\ eio
                     /\ files' = [files EXCEPT ![fd.node] = node]
                     /\ fat' = a.fat /\ rootok' = (rootok /\ ~a.full)
                     /\ fd_array' = [fd_array EXCEPT ![fh] =
                          [fd EXCEPT !.first = first, !.cur = a.c, !.index = index]]
                     /\ UNCHANGED <<data, used_fds, handle, content, wild>>
                  \/ /\ ~eio /\ fills /\ a.c \notin Cluster
                     /\ GoWild
                  \/ /\ ~eio /\ (fills => a.c \in Cluster)
                     /\ \E b \in IF fills THEN NextCluster(a) ELSE {a} :
                        /\ fat' = b.fat /\ rootok' = (rootok /\ ~a.full /\ ~b.full)
                        /\ fd_array' = [fd_array EXCEPT ![fh] =
                             [fd EXCEPT !.first = first, !.cur = b.c, !.size = size,
                                        !.index = IF fills THEN index + 1 ELSE index]]
                     /\ files' = [files EXCEPT ![fd.node] =
                          [node EXCEPT !.size = IF off + len > fd.size THEN size ELSE @]]
                     /\ data' = IF a.c \in Cluster
                          THEN [data EXCEPT ![a.c] =
                                 [val |-> [u \in 0 .. U - 1 |->
                                     IF u >= off % U /\ u < (off % U) + len THEN v ELSE @.val[u]],
                                  mac |-> MacFor(fd.node, index)]]
                          ELSE data
                     /\ content' = [content EXCEPT ![handle[h].node] =
                                        Overwritten(@, off, len, v)]
                     /\ UNCHANGED <<used_fds, handle, wild>>

-----------------------------------------------------------------------------
(* fs_truncate *)

ClustersFor(size) == (size + U - 1) \div U

\* nandfs_allocatecluster called num times takes the num lowest free clusters.
\* Every number it returns goes to cluster_table[0xfffb], which is no entry of
\* the table but overlaps the uid of node 2047, a node this model leaves out.
LowestN(f, num) ==
    {i \in Cluster : f[i] = FREE /\ Cardinality({j \in 0 .. i : f[j] = FREE}) <= num}
Drained(f, num) ==
    [i \in Cluster |->
        IF i \in LowestN(f, num) \ {NC - 1} THEN EOC ELSE f[i]]
DrainsAll(f, num) == f[NC - 1] # FREE /\ num > Cardinality({i \in Cluster : f[i] = FREE})

\* The table between the two loops of fs_truncate.  Shrinking frees all but the
\* first clusters and leaves the last one kept linked to the freed ones.
CutFat(first, oldclusters, newclusters) ==
    IF newclusters > oldclusters THEN fat
    ELSE LET kept == {Hop(first, k) : k \in 0 .. newclusters - 1}
         IN  [c \in Cluster |-> IF c \in Chain(first) \ kept THEN FREE ELSE fat[c]]

Resized(s, size) == [p \in 1 .. size |-> IF p <= Len(s) THEN s[p] ELSE 0]

\* A client that only shortens files nobody has open, by less than a cluster.
TruncateAllowed(n, size) ==
    /\ n \notin OpenNodes
    /\ size # 0 /\ size < files[n].size
    /\ ClustersFor(size) = ClustersFor(files[n].size)

\* Growing and shrinking both end with allocating as many clusters as the
\* counts differ by; no cluster is linked to the file.
fs_truncate(path, size) ==
    /\ write_enable
    /\ \E n \in nandfs_open(files, path, 1) :
        LET first == files[n].first
            oldclusters == ClustersFor(files[n].size)
            newclusters == ClustersFor(size)
            num == IF newclusters > oldclusters THEN newclusters - oldclusters
                                                ELSE oldclusters - newclusters
            cut == CutFat(first, oldclusters, newclusters)
            sizeonly == (oldclusters = newclusters /\ size # 0) \/ first = Nil
        IN  /\ size # files[n].size
            /\ Polite => TruncateAllowed(n, size)
            /\ IF ~sizeonly /\ ~WalkEnds(first, {EOC})
               THEN GoWild
               ELSE /\ files' = [files EXCEPT ![n].size = size]
                    /\ content' = [content EXCEPT ![n] = Resized(@, size)]
                    /\ fat' = IF sizeonly THEN fat ELSE Drained(cut, num)
                    /\ rootok' = (rootok /\ (sizeonly \/ ~DrainsAll(cut, num)))
                    /\ UNCHANGED <<data, used_fds, fd_array, handle, wild>>

-----------------------------------------------------------------------------

\* The HMAC of a cluster as the Wii wrote it.
FoundMac(c) ==
    IF \E n \in Files, k \in 0 .. NC : Hop(files[n].first, k) = c
    THEN CHOOSE m \in {MacFor(n, k) : n \in Files, k \in 0 .. NC} :
            Hop(files[m.node].first, m.index) = c
    ELSE NoMac

Init ==
    /\ files = InitFiles /\ fat = InitFat /\ rootok = TRUE
    /\ data = [c \in Cluster |-> [val |-> [u \in 0 .. U - 1 |-> 0], mac |-> FoundMac(c)]]
    /\ used_fds = {} /\ fd_array = [i \in Slot |-> ZeroSlot]
    /\ handle = [h \in Handles |-> NoHandle]
    /\ content = [n \in Node |->
                    [p \in 1 .. (IF files[n].attr = 1 THEN files[n].size ELSE 0) |-> 0]]
    /\ wild = FALSE

Requests == {r \in [off : 0 .. MaxSize - 1, len : 1 .. U] :
                (r.off % U) + r.len <= U /\ r.off + r.len <= MaxSize}

\* A client operation by a path, by two, or on an open file.
PathStep(path) ==
    \/ "mknod"    \in Ops /\ fs_mknod(path)
    \/ "mkdir"    \in Ops /\ fs_mkdir(path)
    \/ "unlink"   \in Ops /\ fs_unlink(path)
    \/ "rmdir"    \in Ops /\ fs_rmdir(path)
    \/ "rename"   \in Ops /\ \E newpath \in Paths \ {path} : fs_rename(path, newpath)
    \/ "chown"    \in Ops /\ \E uid \in Uids : fs_chown(path, uid)
    \/ "truncate" \in Ops /\ \E size \in 0 .. MaxSize : fs_truncate(path, size)

HandleStep(h) ==
    \/ "open"    \in Ops /\ \E path \in Paths : fs_open(h, path)
    \/ "release" \in Ops /\ fs_release(h)
    \/ "read"    \in Ops /\ \E off \in 0 .. MaxSize - 1, len \in 1 .. MaxSize :
                               fs_read(h, off, len)
    \/ "write"   \in Ops /\ \E r \in Requests, v \in Vals \ {0}, eio \in BOOLEAN :
                               fs_write(h, r.off, r.len, v, eio)

Next ==
    \/ ~wild /\ \E path \in Paths : PathStep(path)
    \/ ~wild /\ \E h \in Handles : HandleStep(h)

Spec == Init /\ [][Next]_vars

-----------------------------------------------------------------------------
(* Properties *)

\* Every table entry, link and slot stays a value its 16 or 32 bits are used for.
TypeOK ==
    /\ files \in [Node -> NodeRecord]
    /\ fat \in [Cluster -> FatValue]
    /\ rootok \in BOOLEAN
    /\ data \in [Cluster -> [val : [0 .. U - 1 -> Vals],
                             mac : [node : Node \cup {-1}, name : Names \cup {"", "/"},
                                    uid : Uids, index : Int]]]
    /\ used_fds \subseteq Slot
    /\ fd_array \in [Slot -> SlotRecord]
    /\ handle \in [Handles -> [fh : Slot \cup {-1}, node : Node]]
    /\ content \in [Node -> Seq(Vals)]
    /\ wild \in BOOLEAN

\* A table f and nodes fs in which no two files share a cluster: every linked
\* cluster is in use and linked from one place, and the first cluster of a file
\* is in use and linked from nowhere.
InUse(f, c) == c \in Cluster => f[c] \notin {FREE, RESV}
LinksOK(f) ==
    /\ \A c \in Cluster : InUse(f, f[c])
    /\ \A c, d \in Cluster : f[c] = f[d] /\ f[c] \in Cluster => c = d
FirstsOK(fs, f) ==
    \A n \in Node : fs[n].attr = 1 /\ fs[n].first \in Cluster =>
        /\ InUse(f, fs[n].first)
        /\ \A c \in Cluster : f[c] # fs[n].first
        /\ \A m \in Node : fs[m].attr = 1 /\ fs[m].first = fs[n].first => m = n

\* No two files share a cluster, and no cluster of a file is free or reserved:
\* whatever the order of creations, removals, renames and of writes through
\* open files with stale copies, nandfs_write and nandfs_unlink keep the chains
\* apart.
FatOK == LinksOK(fat) /\ FirstsOK(files, fat)

\* Through a single open file, and without holes, truncation and renames, a
\* file holds what was written to it: walking its chain from the node gives
\* every unit the clients wrote, in order ...
Holds(n) ==
    /\ files[n].size = Len(content[n])
    /\ \A p \in 1 .. files[n].size :
          LET c == Hop(files[n].first, (p - 1) \div U)
          IN  c \in Cluster /\ data[c].val[(p - 1) % U] = content[n][p]

\* ... and under the HMAC that nandfs_read computes for that place, so that -v
\* does not refuse it.
Verifies(n) ==
    \A p \in 1 .. files[n].size :
        LET k == (p - 1) \div U
            c == Hop(files[n].first, k)
        IN  c \in Cluster => data[c].mac = MacFor(n, k)

\* What is read back from every file is what was written to it, and verifies.
ReadsBack == \A n \in Files : Holds(n) /\ Verifies(n)

\* Every cluster in use belongs to a file: unlink gives back all clusters of a
\* file, the one nandfs_write allocates ahead included.
NoLeak ==
    {c \in Cluster : fat[c] \notin {FREE, RESV}}
        \subseteq UNION {Chain(files[n].first) : n \in Files}

\* Every node in use is a child of exactly one directory, and a directory does
\* not list two objects of a type under one name: the sibling lists survive any
\* order of creations, removals and renames across directories.
ChildrenOf(d) == {n \in Node : FirstOf(files, files[d].first, {n}) # {}}
Dirs == {d \in Node : files[d].attr = 2}
TreeOK ==
    /\ \A n \in Node \ {0} : files[n].attr # 0 =>
          \E d \in Dirs \ {n} : n \in ChildrenOf(d)
    /\ \A d \in Dirs : \A n \in ChildrenOf(d) :
          /\ files[n].attr # 0 /\ n # 0
          /\ \A e \in Dirs \ {d} : n \notin ChildrenOf(e)
          /\ \A m \in ChildrenOf(d) \ {n} :
                files[m].name = files[n].name => files[m].attr # files[n].attr

\* The tables are only indexed within their bounds.
InBounds == ~wild
=============================================================================
