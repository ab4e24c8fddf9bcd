----------------------------- MODULE NandFsProof -----------------------------
(***************************************************************************)
(* Proofs about the file system, for any number of nodes, clusters, slots  *)
(* and clients.  The types hold, and open slots name files, for every      *)
(* client.  That files share no cluster holds for clients that know no     *)
(* manners (Polite FALSE) as long as they do not truncate, and with        *)
(* truncation within a cluster.  That the nodes form a tree holds for      *)
(* polite clients with any number of open files.  That no cluster leaks,   *)
(* that files read back what was written, and that the tables are only     *)
(* indexed within their bounds while space is left, is proved for files    *)
(* that are open one at a time.                                            *)
(***************************************************************************)
EXTENDS NandFs, Sums, FiniteSetTheorems, TLAPS

Table == [Cluster -> FatValue]
NodeTable == [Node -> NodeRecord]

\* The inductive invariant: FatOK, and the types it is stated over.
FatInv == files \in NodeTable /\ fat \in Table /\ FatOK

\* The table and the nodes found on the NAND are consistent.
InitConsistent == LinksOK(InitFat) /\ FirstsOK(InitFiles, InitFat)

-----------------------------------------------------------------------------
(* Tables *)

\* nandfs_allocatecluster takes a free cluster and marks it, or changes nothing.
LEMMA Allocate ==
    ASSUME NEW f \in Table, NEW a \in nandfs_allocatecluster(f)
    PROVE  /\ a.fat \in Table
           /\ a.c \in Cluster \cup {ENOSPC, NC}
           /\ a.c \in Cluster => f[a.c] = FREE /\ a.fat = [f EXCEPT ![a.c] = EOC]
           /\ a.c \notin Cluster => a.fat = f
<1>1. NC \notin Cluster /\ ENOSPC \notin Cluster /\ EOC \in FatValue
    BY NandFsConstants DEF Cluster, ENOSPC, FatValue
<1>2. CASE \E i \in LowestFree(f) \ {NC - 1} :
                a = [c |-> i, fat |-> [f EXCEPT ![i] = EOC], full |-> FALSE]
    BY <1>1, <1>2 DEF LowestFree, Table
<1>3. CASE a = [c |-> ENOSPC, fat |-> f, full |-> FALSE]
    BY <1>1, <1>3
<1>4. CASE a = [c |-> NC, fat |-> f, full |-> TRUE]
    BY <1>1, <1>4
<1> QED BY <1>2, <1>3, <1>4 DEF nandfs_allocatecluster

\* Marking a free cluster keeps a table consistent, and nothing leads to it.
LEMMA MarkFresh ==
    ASSUME NEW fs \in NodeTable, NEW f \in Table, LinksOK(f), FirstsOK(fs, f),
           NEW c \in Cluster, f[c] = FREE,
           NEW g, g = [f EXCEPT ![c] = EOC]
    PROVE  /\ LinksOK(g) /\ FirstsOK(fs, g)
           /\ g[c] = EOC
           /\ \A d \in Cluster : g[d] # c
           /\ \A n \in Node : fs[n].attr = 1 => fs[n].first # c
<1>1. \A d \in Cluster : f[d] # c
    BY DEF LinksOK, InUse
<1>2. \A n \in Node : fs[n].attr = 1 => fs[n].first # c
    BY DEF FirstsOK, InUse
<1>3. g \in Table /\ g[c] = EOC /\ \A d \in Cluster \ {c} : g[d] = f[d]
    BY NandFsConstants DEF Table, FatValue
<1>4. EOC \notin Cluster /\ EOC \notin {FREE, RESV}
    BY NandFsConstants DEF Cluster, EOC, FREE, RESV
<1>5. \A d \in Cluster : g[d] # c
    BY <1>1, <1>3, <1>4
<1>6. \A d \in Cluster : InUse(f, d) => InUse(g, d)
    BY <1>3, <1>4 DEF InUse
<1>7. LinksOK(g)
    <2>1. ASSUME NEW d \in Cluster PROVE InUse(g, g[d])
        BY <1>3, <1>4, <1>6 DEF LinksOK, InUse
    <2>2. ASSUME NEW d \in Cluster, NEW e \in Cluster, g[d] = g[e], g[d] \in Cluster
          PROVE  d = e
        BY <2>2, <1>3, <1>4 DEF LinksOK
    <2> QED BY <2>1, <2>2 DEF LinksOK
<1>8. FirstsOK(fs, g)
    <2> SUFFICES ASSUME NEW n \in Node, fs[n].attr = 1, fs[n].first \in Cluster
                 PROVE  /\ InUse(g, fs[n].first)
                        /\ \A d \in Cluster : g[d] # fs[n].first
                        /\ \A m \in Node : fs[m].attr = 1 /\ fs[m].first = fs[n].first => m = n
        BY DEF FirstsOK
    <2>1. InUse(g, fs[n].first)
        BY <1>6 DEF FirstsOK
    <2>2. \A d \in Cluster : g[d] # fs[n].first
        BY <1>3, <1>4 DEF FirstsOK
    <2> QED BY <2>1, <2>2 DEF FirstsOK
<1> QED BY <1>2, <1>3, <1>5, <1>7, <1>8

\* Replacing an end of chain by a number outside the table, or by a cluster in
\* use to which nothing leads, keeps a table consistent.
LEMMA Extend ==
    ASSUME NEW fs \in NodeTable, NEW f \in Table, LinksOK(f), FirstsOK(fs, f),
           NEW c \in Cluster, f[c] = EOC,
           NEW x \in FatValue, x \notin {FREE, RESV},
           x \in Cluster =>
                /\ f[x] \notin {FREE, RESV}
                /\ \A d \in Cluster : f[d] # x
                /\ \A n \in Node : fs[n].attr = 1 => fs[n].first # x,
           NEW g, g = [f EXCEPT ![c] = x]
    PROVE  g \in Table /\ LinksOK(g) /\ FirstsOK(fs, g)
<1>1. g \in Table /\ g[c] = x /\ \A d \in Cluster \ {c} : g[d] = f[d]
    BY DEF Table
<1>2. \A d \in Cluster : f[d] \notin {FREE, RESV} => g[d] \notin {FREE, RESV}
    BY <1>1
<1>3. LinksOK(g)
    <2>1. ASSUME NEW d \in Cluster PROVE InUse(g, g[d])
        BY <1>1, <1>2 DEF LinksOK, InUse
    <2>2. ASSUME NEW d \in Cluster, NEW e \in Cluster, g[d] = g[e], g[d] \in Cluster
          PROVE  d = e
        BY <2>2, <1>1 DEF LinksOK
    <2> QED BY <2>1, <2>2 DEF LinksOK
<1>4. FirstsOK(fs, g)
    BY <1>1, <1>2 DEF FirstsOK, InUse
<1> QED BY <1>1, <1>3, <1>4

\* Nodes whose files start where they did, or nowhere, stay consistent.
LEMMA SameFirsts ==
    ASSUME NEW fs \in NodeTable, NEW f \in Table, FirstsOK(fs, f),
           NEW gs \in NodeTable,
           \A n \in Node : gs[n].attr = 1 /\ gs[n].first \in Cluster =>
               fs[n].attr = 1 /\ gs[n].first = fs[n].first
    PROVE  FirstsOK(gs, f)
BY DEF FirstsOK

-----------------------------------------------------------------------------
(* Chains *)

\* A chain holds its first cluster.
LEMMA ChainHead ==
    ASSUME NEW first \in Cluster PROVE first \in Chain(first)
BY DEF Chain

\* A chain stays in the table.
LEMMA ChainInCluster ==
    ASSUME NEW first PROVE Chain(first) \subseteq Cluster
BY DEF Chain

\* A chain holds nothing but what follows from its first cluster.
LEMMA ChainMinimal ==
    ASSUME NEW first, NEW T \in SUBSET Cluster,
           first \in Cluster => first \in T,
           \A t \in T : fat[t] \in Cluster => fat[t] \in T
    PROVE  Chain(first) \subseteq T
BY DEF Chain

\* A chain holds what its clusters link to.
LEMMA ChainClosed ==
    ASSUME NEW first, NEW c \in Chain(first), fat[c] \in Cluster
    PROVE  fat[c] \in Chain(first)
BY DEF Chain

\* A file without clusters has no chain.
LEMMA ChainNone ==
    ASSUME NEW first, first \notin Cluster PROVE Chain(first) = {}
<1>1. {} \in SUBSET Cluster
    OBVIOUS
<1>2. Chain(first) \subseteq {}
    BY <1>1, ChainMinimal
<1> QED BY <1>2

\* Every cluster of a chain but the first is linked from another of them.
LEMMA ChainPredecessor ==
    ASSUME NEW first, NEW c \in Chain(first), c # first
    PROVE  \E d \in Chain(first) : fat[d] = c
<1> SUFFICES ASSUME \A d \in Chain(first) : fat[d] # c PROVE FALSE
    OBVIOUS
<1> DEFINE T == Chain(first) \ {c}
<1>1. T \in SUBSET Cluster
    BY ChainInCluster
<1>2. first \in Cluster => first \in T
    BY ChainHead
<1>3. \A t \in T : fat[t] \in Cluster => fat[t] \in T
    BY ChainClosed
<1>4. Chain(first) \subseteq T
    <2> HIDE DEF T
    <2> QED BY <1>1, <1>2, <1>3, ChainMinimal
<1> QED BY <1>4

\* Freeing the chain of a file whose node is given up keeps the rest apart.
LEMMA FreeChain ==
    ASSUME FatInv, NEW n \in Node, files[n].attr = 1,
           NEW gs \in NodeTable, gs[n].attr = 0,
           \A m \in Node \ {n} : gs[m].attr = 1 =>
               files[m].attr = 1 /\ gs[m].first = files[m].first
    PROVE  /\ Freed(files[n].first) \in Table
           /\ LinksOK(Freed(files[n].first)) /\ FirstsOK(gs, Freed(files[n].first))
<1> DEFINE first == files[n].first
           C == Chain(first)
           g == Freed(first)
<1>1. /\ g \in Table
      /\ \A c \in Cluster : g[c] = IF c \in C THEN FREE ELSE fat[c]
    BY DEF FatInv, Table, Freed, FatValue
<1>2. FREE \notin Cluster
    BY NandFsConstants DEF FREE, Cluster
<1>3. ASSUME NEW c \in Cluster, c \notin C, fat[c] \in Cluster PROVE fat[c] \notin C
    <2>1. fat[c] # first
        BY <1>3 DEF FatInv, FatOK, FirstsOK
    <2>2. fat[c] \in C => \E d \in C : fat[d] = fat[c]
        BY <2>1, ChainPredecessor
    <2> QED BY <1>3, <2>2, ChainInCluster DEF FatInv, FatOK, LinksOK
<1>4. ASSUME NEW m \in Node \ {n}, gs[m].attr = 1, gs[m].first \in Cluster
      PROVE  gs[m].first \notin C
    <2>1. files[m].attr = 1 /\ gs[m].first = files[m].first
        BY <1>4
    <2>2. files[m].first # first
        <3>1. CASE first \in Cluster
            BY <2>1, <3>1, <1>4 DEF FatInv, FatOK, FirstsOK
        <3>2. CASE first \notin Cluster
            BY <2>1, <3>2, <1>4
        <3> QED BY <3>1, <3>2
    <2>3. \A c \in Cluster : fat[c] # files[m].first
        BY <2>1, <1>4 DEF FatInv, FatOK, FirstsOK
    <2> QED BY <2>1, <2>2, <2>3, ChainPredecessor, ChainInCluster
<1> HIDE DEF g, C, first
<1>5. LinksOK(g)
    <2>1. ASSUME NEW c \in Cluster PROVE InUse(g, g[c])
        BY <1>1, <1>2, <1>3 DEF FatInv, FatOK, LinksOK, InUse
    <2>2. ASSUME NEW c \in Cluster, NEW d \in Cluster, g[c] = g[d], g[c] \in Cluster
          PROVE  c = d
        BY <2>2, <1>1, <1>2 DEF FatInv, FatOK, LinksOK
    <2> QED BY <2>1, <2>2 DEF LinksOK
<1>6. FirstsOK(gs, g)
    <2> SUFFICES ASSUME NEW m \in Node, gs[m].attr = 1, gs[m].first \in Cluster
                 PROVE  /\ InUse(g, gs[m].first)
                        /\ \A c \in Cluster : g[c] # gs[m].first
                        /\ \A k \in Node : gs[k].attr = 1 /\ gs[k].first = gs[m].first => k = m
        BY DEF FirstsOK
    <2>1. m # n /\ files[m].attr = 1 /\ gs[m].first = files[m].first
        OBVIOUS
    <2>2. InUse(g, gs[m].first)
        BY <2>1, <1>1, <1>4 DEF FatInv, FatOK, FirstsOK, InUse
    <2>3. \A c \in Cluster : g[c] # gs[m].first
        BY <2>1, <1>1, <1>2 DEF FatInv, FatOK, FirstsOK
    <2>4. ASSUME NEW k \in Node, gs[k].attr = 1, gs[k].first = gs[m].first PROVE k = m
        <3>1. k # n /\ files[k].attr = 1 /\ files[k].first = files[m].first
            BY <2>1, <2>4
        <3> QED BY <2>1, <3>1 DEF FatInv, FatOK, FirstsOK
    <2> QED BY <2>2, <2>3, <2>4
<1> QED BY <1>1, <1>5, <1>6 DEF g, first

-----------------------------------------------------------------------------
(* Nodes *)

\* A search on a sibling list finds what it looks for.
LEMMA FirstOfMember ==
    ASSUME NEW fs, NEW start, NEW S PROVE FirstOf(fs, start, S) \subseteq S
BY DEF FirstOf

\* What nandfs_open finds is a node of the type asked for.
LEMMA OpenFinds ==
    ASSUME NEW fs, NEW path, NEW type, NEW n \in nandfs_open(fs, path, type)
    PROVE  n \in Node /\ fs[n].attr = type
<1>1. n \in Named(fs, path.base, type)
    BY FirstOfMember DEF nandfs_open
<1> QED BY <1>1 DEF Named

\* The parent of a path is a directory.
LEMMA ParentFinds ==
    ASSUME NEW fs, NEW path, NEW d \in OpenParent(fs, path)
    PROVE  d \in Node /\ fs[d].attr = 2
BY OpenFinds DEF OpenParent

\* Two tables of nodes agree on where every file starts.
SameFiles(fs, gs) ==
    /\ gs \in NodeTable
    /\ \A n \in Node : gs[n].attr = fs[n].attr
    /\ \A n \in Node : gs[n].attr = 1 => gs[n].first = fs[n].first

\* Changing one field of a node record.
LEMMA RecordFields ==
    ASSUME NEW r \in NodeRecord
    PROVE  /\ \A x \in Link : /\ [r EXCEPT !.first = x] \in NodeRecord
                             /\ [r EXCEPT !.first = x].attr = r.attr
                             /\ [r EXCEPT !.first = x].first = x
           /\ \A x \in Node \cup {Nil} : /\ [r EXCEPT !.sibling = x] \in NodeRecord
                                        /\ [r EXCEPT !.sibling = x].attr = r.attr
                                        /\ [r EXCEPT !.sibling = x].first = r.first
           /\ \A x \in 0 .. MaxSize : /\ [r EXCEPT !.size = x] \in NodeRecord
                                     /\ [r EXCEPT !.size = x].attr = r.attr
                                     /\ [r EXCEPT !.size = x].first = r.first
           /\ \A x \in Names : /\ [r EXCEPT !.name = x] \in NodeRecord
                              /\ [r EXCEPT !.name = x].attr = r.attr
                              /\ [r EXCEPT !.name = x].first = r.first
           /\ \A x \in Uids : /\ [r EXCEPT !.uid = x] \in NodeRecord
                             /\ [r EXCEPT !.uid = x].attr = r.attr
                             /\ [r EXCEPT !.uid = x].first = r.first
BY DEF NodeRecord

\* A change of one node that keeps its type and, for a file, its start.
LEMMA ChangeNode ==
    ASSUME NEW fs \in NodeTable, NEW n \in Node, NEW r \in NodeRecord,
           r.attr = fs[n].attr, r.attr = 1 => r.first = fs[n].first
    PROVE  SameFiles(fs, [fs EXCEPT ![n] = r])
BY DEF SameFiles, NodeTable

\* The sibling lists change, the files do not.
LEMMA LinkChildFiles ==
    ASSUME NEW fs \in NodeTable, NEW d \in Node, fs[d].attr = 2, NEW n \in Node
    PROVE  SameFiles(fs, LinkChild(fs, d, n))
<1>1. n \in Link
    BY NandFsConstants DEF Link, Node
<1>2. CASE fs[d].first = Nil
    <2>1. LinkChild(fs, d, n) = [fs EXCEPT ![d] = [fs[d] EXCEPT !.first = n]]
        BY <1>2 DEF LinkChild
    <2> DEFINE r == [fs[d] EXCEPT !.first = n]
    <2>2. r \in NodeRecord /\ r.attr = 2
        BY <1>1, RecordFields DEF NodeTable
    <2> HIDE DEF r
    <2>3. SameFiles(fs, [fs EXCEPT ![d] = r])
        BY <2>2, ChangeNode
    <2> QED BY <2>1, <2>3 DEF r
<1>3. CASE fs[d].first # Nil
    <2>1. PICK last : LinkChild(fs, d, n) =
              [m \in Node |-> IF m \in last THEN [fs[m] EXCEPT !.sibling = n] ELSE fs[m]]
        BY <1>3 DEF LinkChild
    <2>2. \A m \in Node : /\ [fs[m] EXCEPT !.sibling = n] \in NodeRecord
                          /\ [fs[m] EXCEPT !.sibling = n].attr = fs[m].attr
                          /\ [fs[m] EXCEPT !.sibling = n].first = fs[m].first
        BY RecordFields DEF NodeTable
    <2> QED BY <2>1, <2>2 DEF SameFiles, NodeTable
<1> QED BY <1>2, <1>3

\* Taking a child off its directory changes no file.
LEMMA UnlinkChildFiles ==
    ASSUME NEW fs \in NodeTable, NEW d \in Node, fs[d].attr = 2, NEW n \in Node
    PROVE  SameFiles(fs, UnlinkChild(fs, d, n))
<1> DEFINE next == fs[n].sibling
<1>1. next \in Node \cup {Nil} /\ next \in Link
    <2>1. fs[n] \in NodeRecord
        BY DEF NodeTable
    <2>2. fs[n].sibling \in Node \cup {Nil}
        BY <2>1 DEF NodeRecord
    <2>3. Node \cup {Nil} \subseteq Link
        BY NandFsConstants DEF Link, Node
    <2> QED BY <2>2, <2>3
<1>2. CASE fs[d].first = Nil
    BY <1>2 DEF UnlinkChild, SameFiles
<1>3. CASE fs[d].first # Nil /\ fs[d].first = n
    <2>1. UnlinkChild(fs, d, n) = [fs EXCEPT ![d] = [fs[d] EXCEPT !.first = next]]
        BY <1>3 DEF UnlinkChild
    <2> DEFINE r == [fs[d] EXCEPT !.first = next]
    <2>2. r \in NodeRecord /\ r.attr = 2
        BY <1>1, RecordFields DEF NodeTable
    <2> HIDE DEF next, r
    <2>3. SameFiles(fs, [fs EXCEPT ![d] = r])
        BY <2>2, ChangeNode
    <2> QED BY <2>1, <2>3 DEF r
<1>4. CASE fs[d].first # Nil /\ fs[d].first # n
    <2>1. PICK pred : UnlinkChild(fs, d, n) =
              [m \in Node |-> IF m \in pred THEN [fs[m] EXCEPT !.sibling = next] ELSE fs[m]]
        BY <1>4 DEF UnlinkChild
    <2> HIDE DEF next
    <2>2. \A m \in Node : /\ [fs[m] EXCEPT !.sibling = next] \in NodeRecord
                          /\ [fs[m] EXCEPT !.sibling = next].attr = fs[m].attr
                          /\ [fs[m] EXCEPT !.sibling = next].first = fs[m].first
        BY <1>1, RecordFields DEF NodeTable
    <2> QED BY <2>1, <2>2 DEF SameFiles, NodeTable
<1> QED BY <1>2, <1>3, <1>4

\* A renamed file moved to another directory stays the file it was.
LEMMA MovedFiles ==
    ASSUME NEW fs \in NodeTable, NEW path, NEW newpath, NEW gs \in Moved(fs, path, newpath)
    PROVE  SameFiles(fs, gs)
<1> DEFINE src == nandfs_open(fs, path, 1)
           dir == OpenParent(fs, path)
           out == {[UnlinkChild(fs, d, n) EXCEPT ![n].sibling = Nil] : d \in dir, n \in src}
<1>1. CASE src = {} \/ dir = {}
    BY <1>1 DEF Moved, SameFiles
<1>2. ASSUME NEW d \in dir, NEW n \in src
      PROVE  SameFiles(fs, [UnlinkChild(fs, d, n) EXCEPT ![n].sibling = Nil])
    <2>1. d \in Node /\ fs[d].attr = 2 /\ n \in Node
        BY ParentFinds, OpenFinds
    <2> DEFINE us == UnlinkChild(fs, d, n)
    <2>2. SameFiles(fs, us)
        BY <2>1, UnlinkChildFiles
    <2> HIDE DEF us
    <2>3. SameFiles(us, [us EXCEPT ![n].sibling = Nil])
        <3>1. us \in NodeTable /\ us[n] \in NodeRecord
            BY <2>1, <2>2 DEF SameFiles, NodeTable
        <3>2. [us EXCEPT ![n].sibling = Nil] = [us EXCEPT ![n] = [us[n] EXCEPT !.sibling = Nil]]
            OBVIOUS
        <3> QED BY <2>1, <3>1, <3>2, RecordFields, ChangeNode
    <2> QED BY <2>2, <2>3 DEF SameFiles, us
<1>3. ASSUME NEW fs2 \in out, NEW e \in OpenParent(fs2, newpath), NEW n \in src
      PROVE  SameFiles(fs, LinkChild(fs2, e, n))
    <2>1. SameFiles(fs, fs2)
        BY <1>2
    <2>2. e \in Node /\ fs2[e].attr = 2 /\ n \in Node
        BY ParentFinds, OpenFinds
    <2>3. SameFiles(fs2, LinkChild(fs2, e, n))
        BY <2>1, <2>2, LinkChildFiles DEF SameFiles
    <2> QED BY <2>1, <2>3 DEF SameFiles
<1>4. CASE ~(src = {} \/ dir = {})
    <2>1. PICK fs2 \in out :
              gs = fs2 \/ \E e \in OpenParent(fs2, newpath), n \in src : gs = LinkChild(fs2, e, n)
        BY <1>4 DEF Moved
    <2> QED BY <2>1, <1>2, <1>3
<1> QED BY <1>1, <1>4

-----------------------------------------------------------------------------
(* Types *)

\* The values of a 16 bit field.
LEMMA Values ==
    /\ Nil \in Link /\ Node \subseteq Link /\ Cluster \subseteq Link /\ NC \in Link /\ ENOSPC \in Link
    /\ Cluster \subseteq FatValue /\ NC \in FatValue /\ ENOSPC \in FatValue /\ EOC \in FatValue
    /\ FREE \in FatValue /\ FatValue \subseteq Link \cup {FREE, RESV}
    /\ 0 \in Node /\ 0 \in Link /\ Lost \notin Link \cup {FREE, RESV}
BY NandFsConstants DEF Link, Node, Cluster, FatValue, Nil, EOC, FREE, RESV, ENOSPC, Lost

\* w is a walk of m links from first: the links of S lead where g says, and
\* what is not in S leads to out.
Walk(S, g, out, first, w, m) ==
    w = [i \in 0 .. m |-> IF i = 0 THEN first
                          ELSE IF w[i-1] \in S THEN g[w[i-1]] ELSE out]

\* A walk goes on for one link more.
LEMMA OneLinkMore ==
    ASSUME NEW S, NEW g, NEW out, NEW first, NEW m \in Nat \ {0}, NEW w,
           Walk(S, g, out, first, w, m - 1)
    PROVE  \E t : Walk(S, g, out, first, t, m)
<1> DEFINE nx(x) == IF x \in S THEN g[x] ELSE out
           t == [i \in 0 .. m |-> IF i = m THEN nx(w[m - 1]) ELSE w[i]]
<1>1. DOMAIN t = 0 .. m /\ t = [i \in 0 .. m |-> t[i]]
    OBVIOUS
<1>2. \A i \in 0 .. m : t[i] = IF i = m THEN nx(w[m - 1]) ELSE w[i]
    OBVIOUS
<1>3. \A i \in 0 .. m - 1 : w[i] = IF i = 0 THEN first ELSE nx(w[i - 1])
    BY DEF Walk
<1>4. Walk(S, g, out, first, t, m) <=> t = [i \in 0 .. m |-> IF i = 0 THEN first ELSE nx(t[i - 1])]
    BY DEF Walk
<1> HIDE DEF t, nx
<1>5. \A i \in 0 .. m : t[i] = IF i = 0 THEN first ELSE nx(t[i - 1])
    <2> SUFFICES ASSUME NEW i \in 0 .. m PROVE t[i] = IF i = 0 THEN first ELSE nx(t[i - 1])
        OBVIOUS
    <2>1. CASE i = m
        <3>1. i - 1 \in 0 .. m /\ i - 1 # m /\ i # 0
            BY <2>1
        <3> QED BY <1>2, <2>1, <3>1
    <2>2. CASE i # m /\ i # 0
        <3>1. i \in 0 .. m - 1 /\ i - 1 \in 0 .. m /\ i - 1 # m
            BY <2>2
        <3> QED BY <1>2, <1>3, <2>2, <3>1
    <2>3. CASE i # m /\ i = 0
        <3>1. i \in 0 .. m - 1
            BY <2>3
        <3> QED BY <1>2, <1>3, <2>3, <3>1
    <2> QED BY <2>1, <2>2, <2>3
<1>6. [i \in 0 .. m |-> t[i]] = [i \in 0 .. m |-> IF i = 0 THEN first ELSE nx(t[i - 1])]
    BY <1>5
<1>7. t = [i \in 0 .. m |-> IF i = 0 THEN first ELSE nx(t[i - 1])]
    BY <1>1, <1>6, Zenon
<1> QED BY <1>4, <1>7

\* A walk of any length exists.
LEMMA WalkExists ==
    ASSUME NEW S, NEW g, NEW out, NEW first, NEW n \in Nat
    PROVE  \E w : Walk(S, g, out, first, w, n)
<1> DEFINE Bad == {m \in Nat : ~\E w : Walk(S, g, out, first, w, m)}
<1>1. SUFFICES ASSUME Bad # {} PROVE FALSE
    OBVIOUS
<1>2. Bad \subseteq Nat /\ \A m : m \in Bad <=> m \in Nat /\ ~\E w : Walk(S, g, out, first, w, m)
    OBVIOUS
<1> HIDE DEF Bad
<1>3. PICK m \in Bad : \A k \in Bad : m <= k
    BY <1>1, <1>2, LeastNumber
<1>4. m # 0
    <2>1. Walk(S, g, out, first, [i \in 0 .. 0 |-> first], 0)
        BY DEF Walk
    <2> QED BY <1>2, <1>3, <2>1
<1>5. m - 1 \in Nat /\ m - 1 \notin Bad /\ m \in Nat \ {0}
    BY <1>2, <1>3, <1>4
<1>6. PICK w : Walk(S, g, out, first, w, m - 1)
    BY <1>2, <1>5
<1> QED BY <1>2, <1>3, <1>5, <1>6, OneLinkMore

\* Two walks from one place are the same, as far as they go.
LEMMA WalksAgree ==
    ASSUME NEW S, NEW g, NEW out, NEW first, NEW n \in Nat, NEW w, NEW m \in Nat, NEW t,
           Walk(S, g, out, first, w, n), Walk(S, g, out, first, t, m), n <= m
    PROVE  \A i \in 0 .. n : w[i] = t[i]
<1> DEFINE nx(x) == IF x \in S THEN g[x] ELSE out
<1>1. /\ \A i \in 0 .. n : w[i] = IF i = 0 THEN first ELSE nx(w[i - 1])
      /\ \A i \in 0 .. m : t[i] = IF i = 0 THEN first ELSE nx(t[i - 1])
    <2>1. \A i \in 0 .. n : w[i] = IF i = 0 THEN first ELSE nx(w[i - 1])
        BY DEF Walk
    <2>2. \A i \in 0 .. m : t[i] = IF i = 0 THEN first ELSE nx(t[i - 1])
        BY DEF Walk
    <2> QED BY <2>1, <2>2
<1> HIDE DEF nx
<1> DEFINE Bad == {i \in 0 .. n : w[i] # t[i]}
<1>2. SUFFICES ASSUME Bad # {} PROVE FALSE
    OBVIOUS
<1>3. Bad \subseteq Nat /\ \A i : i \in Bad <=> i \in 0 .. n /\ w[i] # t[i]
    OBVIOUS
<1> HIDE DEF Bad
<1>4. PICK i \in Bad : \A k \in Bad : i <= k
    BY <1>2, <1>3, LeastNumber
<1>5. i \in 0 .. n /\ i \in 0 .. m /\ i # 0 /\ i - 1 \in 0 .. n /\ i - 1 \notin Bad
    <2>1. i # 0
        BY <1>1, <1>3, <1>4
    <2> QED BY <1>3, <1>4, <2>1
<1>6. w[i - 1] = t[i - 1]
    BY <1>3, <1>5
<1> QED BY <1>1, <1>3, <1>4, <1>5, <1>6

\* The cluster a slot or a reader gets to, link by link.
HopIn(f, first, k) ==
    LET walk[i \in 0 .. k] ==
            IF i = 0 THEN first
            ELSE IF walk[i-1] \in Cluster THEN f[walk[i-1]] ELSE Lost
    IN  walk[k]

LEMMA HopInLinks ==
    ASSUME NEW f, NEW first, NEW k \in Nat
    PROVE  /\ HopIn(f, first, 0) = first
           /\ HopIn(f, first, k + 1) =
                 IF HopIn(f, first, k) \in Cluster THEN f[HopIn(f, first, k)] ELSE Lost
<1> DEFINE wk(m) == CHOOSE w : Walk(Cluster, f, Lost, first, w, m)
<1>1. \A m \in Nat : HopIn(f, first, m) = wk(m)[m]
    BY DEF HopIn, Walk
<1>2. \A m \in Nat : Walk(Cluster, f, Lost, first, wk(m), m)
    BY WalkExists
<1> HIDE DEF wk
<1>3. k + 1 \in Nat /\ k <= k + 1 /\ k \in 0 .. k /\ k + 1 \in 1 .. k + 1 /\ (k + 1) - 1 = k /\ 0 \in Nat
    OBVIOUS
<1>4. wk(0)[0] = first
    <2>1. wk(0) = [i \in 0 .. 0 |-> IF i = 0 THEN first
                       ELSE IF wk(0)[i-1] \in Cluster THEN f[wk(0)[i-1]] ELSE Lost]
        BY <1>2, <1>3 DEF Walk
    <2> QED BY <2>1
<1>5. wk(k + 1)[k] = wk(k)[k]
    BY <1>2, <1>3, WalksAgree
<1>6. wk(k + 1)[k + 1] = IF wk(k + 1)[k] \in Cluster THEN f[wk(k + 1)[k]] ELSE Lost
    <2> DEFINE w == wk(k + 1)
    <2>1. w = [i \in 0 .. k + 1 |-> IF i = 0 THEN first
                       ELSE IF w[i-1] \in Cluster THEN f[w[i-1]] ELSE Lost]
        BY <1>2, <1>3 DEF Walk
    <2> HIDE DEF w
    <2>2. \A i \in 0 .. k + 1 : w[i] = IF i = 0 THEN first
                       ELSE IF w[i-1] \in Cluster THEN f[w[i-1]] ELSE Lost
        BY <2>1
    <2>3. k + 1 \in 0 .. k + 1 /\ k + 1 # 0 /\ (k + 1) - 1 = k
        OBVIOUS
    <2>4. w[k + 1] = IF w[k] \in Cluster THEN f[w[k]] ELSE Lost
        BY <2>2, <2>3
    <2> QED BY <2>4 DEF w
<1> QED BY <1>1, <1>3, <1>4, <1>5, <1>6

LEMMA HopIs == ASSUME NEW first, NEW k PROVE Hop(first, k) = HopIn(fat, first, k)
BY DEF Hop, HopIn

LEMMA HopLinks ==
    ASSUME NEW first, NEW k \in Nat
    PROVE  /\ Hop(first, 0) = first
           /\ Hop(first, k + 1) =
                 IF Hop(first, k) \in Cluster THEN fat[Hop(first, k)] ELSE Lost
BY HopIs, HopInLinks

\* A walk gets to a number a link or the table can hold, or out of the table.
LEMMA HopValue ==
    ASSUME fat \in Table, NEW first \in Link, NEW k \in Nat
    PROVE  Hop(first, k) \in Link \cup {FREE, RESV, Lost}
<1> DEFINE Bad == {m \in Nat : Hop(first, m) \notin Link \cup {FREE, RESV, Lost}}
<1>1. SUFFICES ASSUME Bad # {} PROVE FALSE
    OBVIOUS
<1>2. Bad \subseteq Nat
      /\ \A m : m \in Bad <=> m \in Nat /\ Hop(first, m) \notin Link \cup {FREE, RESV, Lost}
    OBVIOUS
<1> HIDE DEF Bad
<1>3. PICK m \in Bad : \A j \in Bad : m <= j
    BY <1>1, <1>2, LeastNumber
<1>4. m # 0
    BY <1>2, <1>3, HopLinks
<1>5. m - 1 \in Nat /\ (m - 1) + 1 = m
    BY <1>2, <1>3, <1>4
<1>6. Hop(first, m) = IF Hop(first, m - 1) \in Cluster THEN fat[Hop(first, m - 1)] ELSE Lost
    BY <1>5, HopLinks
<1>7. Hop(first, m) \in FatValue \cup {Lost}
    BY <1>6 DEF Table
<1> QED BY <1>2, <1>3, <1>7, Values
-----------------------------------------------------------------------------
(* The operations *)

\* An operation that keeps the files where they are keeps the table consistent.
LEMMA KeepFat ==
    ASSUME FatInv, SameFiles(files, files'), UNCHANGED fat PROVE FatInv'
<1>1. \A n \in Node : files'[n].attr = 1 /\ files'[n].first \in Cluster =>
          files[n].attr = 1 /\ files'[n].first = files[n].first
    BY DEF SameFiles
<1>2. files \in NodeTable /\ files' \in NodeTable /\ fat \in Table /\ FirstsOK(files, fat)
    BY DEF FatInv, FatOK, SameFiles
<1>3. FirstsOK(files', fat)
    BY <1>1, <1>2, SameFirsts
<1>4. LinksOK(fat') /\ FirstsOK(files', fat')
    BY <1>3 DEF FatInv, FatOK
<1> QED BY <1>2, <1>4 DEF FatInv, FatOK

\* The nodes once n is a child of d, and once it no longer is.
Created(path, type, d, n) == LinkChild([files EXCEPT ![n] = NewNode(path, type)], d, n)
Removed(d, n) == [UnlinkChild(files, d, n) EXCEPT ![n] = ZeroNode]

\* mknod and mkdir make the empty node a child of the directory; the files stay.
LEMMA CreateNodes ==
    ASSUME files \in NodeTable, NEW path \in Paths, NEW type \in {1, 2},
           NEW d \in OpenParent(files, path), NEW n \in EmptyNode,
           NEW gs, gs = Created(path, type, d, n)
    PROVE  /\ gs \in NodeTable /\ n \in Node
           /\ files[n].attr = 0 /\ gs[n].attr = type /\ (type = 1 => gs[n].first = Nil)
           /\ \A m \in Node \ {n} : /\ gs[m].attr = files[m].attr
                                    /\ gs[m].attr = 1 => gs[m].first = files[m].first
<1> DEFINE r == NewNode(path, type)
           fs == [files EXCEPT ![n] = r]
<1>1. d \in Node /\ files[d].attr = 2 /\ n \in Node /\ files[n].attr = 0
    BY ParentFinds DEF EmptyNode
<1>2. r \in NodeRecord /\ r.attr = type /\ r.first = Nil
    <2>1. path.base \in Names /\ 0 \in Uids /\ 0 \in 0 .. MaxSize
        BY NandFsConstants
    <2>2. Nil \in Link /\ type \in Type
        BY DEF Link, Type
    <2> QED BY <2>1, <2>2 DEF NewNode, NodeRecord
<1>3. gs = LinkChild(fs, d, n)
    BY DEF Created
<1> HIDE DEF r
<1>4. /\ fs \in NodeTable /\ fs[n] = r
      /\ \A m \in Node \ {n} : fs[m] = files[m]
    BY <1>1, <1>2 DEF NodeTable
<1>5. fs[d].attr = 2
    BY <1>1, <1>4
<1> HIDE DEF fs
<1>6. SameFiles(fs, gs)
    BY <1>1, <1>3, <1>4, <1>5, LinkChildFiles
<1> QED BY <1>1, <1>2, <1>4, <1>6 DEF SameFiles

\* The new node has no clusters.
LEMMA CreateFat ==
    ASSUME FatInv, NEW path \in Paths, NEW type \in {1, 2}, nandfs_create(path, type)
    PROVE  FatInv'
<1>1. CASE GoWild
    BY <1>1 DEF GoWild, FatInv, FatOK, LinksOK, FirstsOK, InUse
<1>2. ASSUME NEW d \in OpenParent(files, path), NEW n \in EmptyNode,
             files' = Created(path, type, d, n), fat' = fat
      PROVE  FatInv'
    <2>1. files \in NodeTable /\ fat \in Table /\ LinksOK(fat) /\ FirstsOK(files, fat)
        BY DEF FatInv, FatOK
    <2>2. /\ files' \in NodeTable /\ n \in Node
          /\ files'[n].attr = type /\ (type = 1 => files'[n].first = Nil)
          /\ \A m \in Node \ {n} : /\ files'[m].attr = files[m].attr
                                   /\ files'[m].attr = 1 => files'[m].first = files[m].first
        BY <1>2, <2>1, CreateNodes
    <2>3. Nil \notin Cluster
        BY NandFsConstants DEF Nil, Cluster
    <2>4. \A m \in Node : files'[m].attr = 1 /\ files'[m].first \in Cluster =>
              files[m].attr = 1 /\ files'[m].first = files[m].first
        BY <2>2, <2>3
    <2>5. FirstsOK(files', fat)
        BY <2>1, <2>2, <2>4, SameFirsts
    <2> QED BY <1>2, <2>1, <2>2, <2>5 DEF FatInv, FatOK
<1> QED BY <1>1, <1>2 DEF nandfs_create, Created

\* unlink and rmdir clear the node; the other files stay.
LEMMA UnlinkNodes ==
    ASSUME files \in NodeTable, NEW path, NEW type, NEW n \in nandfs_open(files, path, type),
           NEW d \in OpenParent(files, path),
           NEW gs, gs = Removed(d, n)
    PROVE  /\ gs \in NodeTable /\ n \in Node /\ files[n].attr = type /\ gs[n].attr = 0
           /\ \A m \in Node \ {n} : /\ gs[m].attr = files[m].attr
                                    /\ gs[m].attr = 1 => gs[m].first = files[m].first
<1> DEFINE us == UnlinkChild(files, d, n)
<1>1. d \in Node /\ files[d].attr = 2 /\ n \in Node /\ files[n].attr = type
    BY ParentFinds, OpenFinds
<1>2. SameFiles(files, us)
    BY <1>1, UnlinkChildFiles
<1>3. gs = [us EXCEPT ![n] = ZeroNode]
    BY DEF Removed
<1> HIDE DEF us
<1>4. ZeroNode \in NodeRecord /\ ZeroNode.attr = 0
    <2>1. 0 \in Uids /\ 0 \in 0 .. MaxSize /\ 0 \in Node /\ 0 \in Link /\ 0 \in Type
        BY NandFsConstants DEF Node, Link, Type
    <2> QED BY <2>1 DEF ZeroNode, NodeRecord
<1> QED BY <1>1, <1>2, <1>3, <1>4 DEF SameFiles, NodeTable

\* The clusters of a removed file become free; nothing else led to them.
LEMMA UnlinkFat ==
    ASSUME FatInv, NEW path \in Paths, NEW type \in {1, 2}, NEW n \in Node,
           nandfs_unlink(path, type, n)
    PROVE  FatInv'
<1>1. CASE GoWild
    BY <1>1 DEF GoWild, FatInv, FatOK, LinksOK, FirstsOK, InUse
<1>2. ASSUME NEW d \in OpenParent(files, path),
             files' = Removed(d, n),
             fat' = IF type = 1 THEN Freed(files[n].first) ELSE fat,
             n \in nandfs_open(files, path, type)
      PROVE  FatInv'
    <2>1. /\ files' \in NodeTable /\ files[n].attr = type /\ files'[n].attr = 0
          /\ \A m \in Node \ {n} : /\ files'[m].attr = files[m].attr
                                   /\ files'[m].attr = 1 => files'[m].first = files[m].first
        BY <1>2, UnlinkNodes DEF FatInv
    <2>2. \A m \in Node \ {n} : files'[m].attr = 1 =>
              files[m].attr = 1 /\ files'[m].first = files[m].first
        BY <2>1
    <2>3. CASE type = 1
        <3>1. fat' = Freed(files[n].first)
            BY <1>2, <2>3
        <3>2. /\ Freed(files[n].first) \in Table
              /\ LinksOK(Freed(files[n].first)) /\ FirstsOK(files', Freed(files[n].first))
            BY <2>1, <2>2, <2>3, FreeChain
        <3> QED BY <2>1, <3>1, <3>2 DEF FatInv, FatOK
    <2>4. CASE type = 2
        <3>1. fat' = fat
            BY <1>2, <2>4
        <3>2. FirstsOK(files', fat)
            BY <2>1, <2>2, SameFirsts DEF FatInv, FatOK
        <3> QED BY <2>1, <3>1, <3>2 DEF FatInv, FatOK
    <2> QED BY <2>3, <2>4
<1> QED BY <1>1, <1>2 DEF nandfs_unlink, Removed

\* A rename changes names and sibling lists.
LEMMA RenameNodes ==
    ASSUME files \in NodeTable, NEW path \in Paths, NEW newpath \in Paths,
           fs_rename(path, newpath)
    PROVE  SameFiles(files, files')
<1>1. PICK n \in nandfs_open(files, path, 1) :
        LET fs == [files EXCEPT ![n].name = newpath.base]
        IN  IF path.dir = newpath.dir THEN files' = fs
            ELSE files' \in Moved(fs, path, newpath)
    BY DEF fs_rename
<1> DEFINE r == [files[n] EXCEPT !.name = newpath.base]
           fs == [files EXCEPT ![n] = r]
<1>2. n \in Node /\ files[n] \in NodeRecord /\ newpath.base \in Names
    BY OpenFinds, NandFsConstants DEF NodeTable
<1>3. r \in NodeRecord /\ r.attr = files[n].attr /\ r.first = files[n].first
    BY <1>2, RecordFields
<1>4. SameFiles(files, fs)
    <2> HIDE DEF r
    <2> QED BY <1>2, <1>3, ChangeNode
<1>5. files' = fs \/ files' \in Moved(fs, path, newpath)
    BY <1>1
<1> HIDE DEF fs
<1>6. CASE files' = fs
    BY <1>6, <1>4
<1>7. CASE files' \in Moved(fs, path, newpath)
    <2>1. SameFiles(fs, files')
        BY <1>7, <1>4, MovedFiles DEF SameFiles
    <2> QED BY <2>1, <1>4 DEF SameFiles
<1> QED BY <1>5, <1>6, <1>7

\* A change of owner changes no file.
LEMMA ChownNodes ==
    ASSUME files \in NodeTable, NEW path \in Paths, NEW uid \in Uids, fs_chown(path, uid)
    PROVE  SameFiles(files, files')
<1>1. PICK n \in Node : files' = [files EXCEPT ![n].uid = uid]
    BY OpenFinds DEF fs_chown
<1> DEFINE r == [files[n] EXCEPT !.uid = uid]
<1>2. r \in NodeRecord /\ r.attr = files[n].attr /\ r.first = files[n].first
    BY RecordFields DEF NodeTable
<1>3. files' = [files EXCEPT ![n] = r]
    BY <1>1
<1> HIDE DEF r
<1> QED BY <1>2, <1>3, ChangeNode

\* A truncation changes the size of a node ...
LEMMA TruncateNodes ==
    ASSUME files \in NodeTable, NEW n \in Node, NEW size \in 0 .. MaxSize,
           NEW gs, gs = [files EXCEPT ![n].size = size]
    PROVE  SameFiles(files, gs)
<1> DEFINE r == [files[n] EXCEPT !.size = size]
<1>1. r \in NodeRecord /\ r.attr = files[n].attr /\ r.first = files[n].first
    BY RecordFields DEF NodeTable
<1>2. gs = [files EXCEPT ![n] = r]
    OBVIOUS
<1> HIDE DEF r
<1>3. SameFiles(files, [files EXCEPT ![n] = r])
    BY <1>1, ChangeNode
<1> QED BY <1>2, <1>3

\* ... and no chain, when a client shortens a file by less than a cluster.
LEMMA PoliteTruncate ==
    ASSUME Polite, files \in NodeTable, NEW path, NEW size \in 0 .. MaxSize,
           fs_truncate(path, size)
    PROVE  SameFiles(files, files') /\ UNCHANGED <<fat, used_fds, fd_array, handle>>
<1>1. PICK n \in nandfs_open(files, path, 1) :
        LET sizeonly == \/ ClustersFor(files[n].size) = ClustersFor(size) /\ size # 0
                        \/ files[n].first = Nil
        IN  /\ TruncateAllowed(n, size)
            /\ sizeonly =>
                 /\ files' = [files EXCEPT ![n].size = size]
                 /\ fat' = fat
                 /\ UNCHANGED <<used_fds, fd_array, handle>>
    BY DEF fs_truncate
<1>2. /\ files' = [files EXCEPT ![n].size = size]
      /\ fat' = fat /\ UNCHANGED <<used_fds, fd_array, handle>>
    BY <1>1 DEF TruncateAllowed
<1>3. n \in Node
    BY OpenFinds
<1>4. SameFiles(files, files')
    BY <1>2, <1>3, TruncateNodes
<1> QED BY <1>2, <1>4

\* The nodes and the table once a write has the cluster it starts with.
LEMMA FirstClusterFat ==
    ASSUME FatInv, NEW fd, NEW cur, NEW a \in FirstCluster(fd, cur),
           NEW gs, gs = [files EXCEPT ![fd.node] =
               [files[fd.node] EXCEPT !.first = IF NeedsFirst(fd, cur) THEN a.c ELSE @]]
    PROVE  gs \in NodeTable /\ a.fat \in Table /\ LinksOK(a.fat) /\ FirstsOK(gs, a.fat)
<1>1. files \in NodeTable /\ fat \in Table /\ LinksOK(fat) /\ FirstsOK(files, fat)
    BY DEF FatInv, FatOK
<1>2. CASE ~NeedsFirst(fd, cur)
    <2>1. a.fat = fat
        BY <1>2 DEF FirstCluster
    <2>2. gs = files
        BY <1>1, <1>2 DEF NodeTable, NodeRecord
    <2> QED BY <1>1, <2>1, <2>2
<1>3. CASE NeedsFirst(fd, cur)
    <2>1. a \in nandfs_allocatecluster(fat)
        BY <1>3 DEF FirstCluster
    <2>2. /\ a.fat \in Table
          /\ a.c \in Cluster \cup {ENOSPC, NC}
          /\ a.c \in Cluster => fat[a.c] = FREE /\ a.fat = [fat EXCEPT ![a.c] = EOC]
          /\ a.c \notin Cluster => a.fat = fat
        BY <1>1, <2>1, Allocate
    <2>3. /\ LinksOK(a.fat) /\ FirstsOK(files, a.fat)
          /\ a.c \in Cluster =>
                /\ a.fat[a.c] = EOC
                /\ \A d \in Cluster : a.fat[d] # a.c
                /\ \A n \in Node : files[n].attr = 1 => files[n].first # a.c
        BY <1>1, <2>2, MarkFresh
    <2>4. CASE fd.node \in Node
        <3> DEFINE k == fd.node
                   r == [files[k] EXCEPT !.first = a.c]
        <3>1. a.c \in Link
            BY <2>2, NandFsConstants DEF Cluster, Link
        <3>2. r \in NodeRecord /\ r.attr = files[k].attr /\ r.first = a.c
            BY <1>1, <2>4, <3>1, RecordFields DEF NodeTable
        <3>3. gs = [files EXCEPT ![k] = r]
            BY <1>3
        <3>4. EOC \notin {FREE, RESV}
            BY DEF EOC, FREE, RESV
        <3> HIDE DEF r, k
        <3>5. k \in Node
            BY <2>4 DEF k
        <3>6. /\ gs \in NodeTable /\ gs[k].first = a.c
              /\ \A n \in Node : gs[n].attr = files[n].attr
              /\ \A n \in Node \ {k} : gs[n].first = files[n].first
            BY <1>1, <3>2, <3>3, <3>5 DEF NodeTable
        <3>7. a.c \in Cluster =>
                /\ a.fat[a.c] \notin {FREE, RESV}
                /\ \A d \in Cluster : a.fat[d] # a.c
                /\ \A n \in Node : files[n].attr = 1 => files[n].first # a.c
            BY <2>3, <3>4
        <3>8. FirstsOK(gs, a.fat)
            <4>1. FirstsOK(files, a.fat)
                BY <2>3
            <4> SUFFICES ASSUME NEW n \in Node, gs[n].attr = 1, gs[n].first \in Cluster
                         PROVE  /\ InUse(a.fat, gs[n].first)
                                /\ \A c \in Cluster : a.fat[c] # gs[n].first
                                /\ \A m \in Node :
                                      gs[m].attr = 1 /\ gs[m].first = gs[n].first => m = n
                BY DEF FirstsOK
            <4>2. CASE n = k
                BY <3>6, <3>7, <4>2 DEF InUse
            <4>3. CASE n # k
                BY <3>6, <3>7, <4>1, <4>3 DEF FirstsOK
            <4> QED BY <4>2, <4>3
        <3> QED BY <2>2, <2>3, <3>6, <3>8
    <2>5. CASE fd.node \notin Node
        <3>1. gs = files
            BY <1>1, <2>5 DEF NodeTable
        <3> QED BY <1>1, <2>2, <2>3, <3>1
    <2> QED BY <2>4, <2>5
<1> QED BY <1>2, <1>3

\* The table once a write that filled a.c has made sure that a.c has a successor.
LEMMA NextClusterFat ==
    ASSUME NEW gs \in NodeTable, NEW a, a.fat \in Table, a.c \in Cluster,
           LinksOK(a.fat), FirstsOK(gs, a.fat),
           NEW b \in NextCluster(a)
    PROVE  b.fat \in Table /\ LinksOK(b.fat) /\ FirstsOK(gs, b.fat)
<1>1. CASE a.fat[a.c] # EOC
    BY <1>1 DEF NextCluster
<1>2. CASE a.fat[a.c] = EOC
    <2>1. PICK e \in nandfs_allocatecluster(a.fat) :
              b = [c |-> e.c, fat |-> [e.fat EXCEPT ![a.c] = e.c], full |-> e.full]
        BY <1>2 DEF NextCluster
    <2>2. /\ e.fat \in Table
          /\ e.c \in Cluster \cup {ENOSPC, NC}
          /\ e.c \in Cluster => a.fat[e.c] = FREE /\ e.fat = [a.fat EXCEPT ![e.c] = EOC]
          /\ e.c \notin Cluster => e.fat = a.fat
        BY <2>1, Allocate
    <2>3. /\ LinksOK(e.fat) /\ FirstsOK(gs, e.fat)
          /\ e.c \in Cluster =>
                /\ e.fat[e.c] = EOC
                /\ \A d \in Cluster : e.fat[d] # e.c
                /\ \A n \in Node : gs[n].attr = 1 => gs[n].first # e.c
        BY <2>2, MarkFresh
    <2>4. e.c \in FatValue /\ e.c \notin {FREE, RESV}
        BY <2>2, NandFsConstants DEF Cluster, FatValue, ENOSPC, FREE, RESV
    <2>5. e.fat[a.c] = EOC /\ EOC \notin {FREE, RESV}
        BY <1>2, <2>2 DEF EOC, FREE, RESV, Table
    <2>6. b.fat = [e.fat EXCEPT ![a.c] = e.c]
        BY <2>1
    <2> QED BY <2>2, <2>3, <2>4, <2>5, <2>6, Extend
<1> QED BY <1>1, <1>2

\* A write gives a file its first cluster, and the cluster it filled its next
\* one: both were free.  Nothing is asked of the slot, which may be stale.
LEMMA WriteFat ==
    ASSUME FatInv, NEW h \in Handles, NEW r \in Requests, NEW v, NEW eio \in BOOLEAN,
           fs_write(h, r.off, r.len, v, eio)
    PROVE  FatInv'
<1> DEFINE fh    == handle[h].fh
           fd    == fd_array[fh]
           cur   == SeekCur(fd, r.off)
           node(a) == [files[fd.node] EXCEPT !.first = IF NeedsFirst(fd, cur) THEN a.c ELSE @]
           gs(a) == [files EXCEPT ![fd.node] = node(a)]
           big   == r.off + r.len > fd.size
           sized(a) == [node(a) EXCEPT !.size = IF big THEN r.off + r.len ELSE @]
           fills == (r.off % U) + r.len = U
<1>1. r.off + r.len \in 0 .. MaxSize
    BY NandFsConstants DEF Requests
<1>2. CASE GoWild
    BY <1>2 DEF GoWild, FatInv, FatOK, LinksOK, FirstsOK, InUse
<1>3. ASSUME NEW a \in FirstCluster(fd, cur)
      PROVE  gs(a) \in NodeTable /\ a.fat \in Table /\ LinksOK(a.fat) /\ FirstsOK(gs(a), a.fat)
    <2> HIDE DEF fd, cur
    <2> QED BY FirstClusterFat
<1>4. CASE \E a \in FirstCluster(fd, cur) : files' = gs(a) /\ fat' = a.fat
    <2> HIDE DEF gs
    <2> QED BY <1>3, <1>4 DEF FatInv, FatOK
<1>5. ASSUME NEW a \in FirstCluster(fd, cur), fills => a.c \in Cluster,
             NEW b \in IF fills THEN NextCluster(a) ELSE {a},
             files' = [files EXCEPT ![fd.node] = sized(a)], fat' = b.fat
      PROVE  FatInv'
    <2>1. b.fat \in Table /\ LinksOK(b.fat) /\ FirstsOK(gs(a), b.fat)
        <3> HIDE DEF gs, fills, fd, cur
        <3>1. CASE fills
            BY <1>3, <1>5, <3>1, NextClusterFat
        <3>2. CASE ~fills
            BY <1>3, <1>5, <3>2
        <3> QED BY <3>1, <3>2
    <2>2. CASE fd.node \in Node
        <3> DEFINE k == fd.node
                   nd == node(a)
                   sz == IF big THEN r.off + r.len ELSE nd.size
                   sd == [nd EXCEPT !.size = sz]
        <3>1. gs(a) \in NodeTable /\ gs(a)[k] = nd
            BY <1>3, <2>2 DEF FatInv, NodeTable
        <3>2. nd \in NodeRecord
            BY <2>2, <3>1 DEF NodeTable
        <3>3. files' = [gs(a) EXCEPT ![k] = sd]
            BY <1>5, <2>2 DEF FatInv, NodeTable
        <3> HIDE DEF nd, gs, fd, big, k
        <3>4. sz \in 0 .. MaxSize
            BY <1>1, <3>2 DEF NodeRecord
        <3>5. sd \in NodeRecord /\ sd.attr = nd.attr /\ sd.first = nd.first
            BY <3>2, <3>4, RecordFields
        <3> HIDE DEF sd
        <3>6. k \in Node
            BY <2>2 DEF k
        <3>7. SameFiles(gs(a), files')
            BY <3>1, <3>3, <3>5, <3>6, ChangeNode
        <3>8. files' \in NodeTable /\ FirstsOK(files', b.fat)
            BY <3>1, <3>7, <2>1, SameFirsts DEF SameFiles
        <3> QED BY <1>5, <2>1, <3>8 DEF FatInv, FatOK
    <2>3. CASE fd.node \notin Node
        <3>1. files' = gs(a)
            BY <1>5, <2>3 DEF FatInv, NodeTable
        <3> QED BY <1>3, <1>5, <2>1, <3>1 DEF FatInv, FatOK
    <2> QED BY <2>2, <2>3
<1> QED BY <1>2, <1>4, <1>5 DEF fs_write

-----------------------------------------------------------------------------
(* Type correctness *)

MacRecord == [node : Node \cup {-1}, name : Names \cup {"", "/"}, uid : Uids, index : Int]
DataTable == [Cluster -> [val : [0 .. U - 1 -> Vals], mac : MacRecord]]
SlotTable == [Slot -> SlotRecord]
HandleTable == [Handles -> [fh : Slot \cup {-1}, node : Node]]
ContentTable == [Node -> Seq(Vals)]

\* The conjuncts of TypeOK, before a step and after it.
LEMMA TypeParts ==
    TypeOK <=> /\ files \in NodeTable /\ fat \in Table /\ rootok \in BOOLEAN
               /\ data \in DataTable /\ used_fds \subseteq Slot /\ fd_array \in SlotTable
               /\ handle \in HandleTable /\ content \in ContentTable /\ wild \in BOOLEAN
BY Zenon DEF TypeOK, NodeTable, Table, DataTable, MacRecord, SlotTable, HandleTable, ContentTable

LEMMA TypePartsNext ==
    TypeOK' <=> /\ files' \in NodeTable /\ fat' \in Table /\ rootok' \in BOOLEAN
                /\ data' \in DataTable /\ used_fds' \subseteq Slot /\ fd_array' \in SlotTable
                /\ handle' \in HandleTable /\ content' \in ContentTable /\ wild' \in BOOLEAN
BY Zenon DEF TypeOK, NodeTable, Table, DataTable, MacRecord, SlotTable, HandleTable, ContentTable

\* A table of values is a sequence of them.
LEMMA Listed ==
    ASSUME NEW n \in Nat, NEW s \in [1 .. n -> Vals] PROVE s \in Seq(Vals)
OBVIOUS

LEMMA WildTypes == ASSUME TypeOK, GoWild PROVE TypeOK'
<1>1. wild' \in BOOLEAN
    BY DEF GoWild
<1> QED BY <1>1, TypeParts, TypePartsNext DEF GoWild

LEMMA CreateTypes ==
    ASSUME TypeOK, NEW path \in Paths, NEW type \in {1, 2}, nandfs_create(path, type)
    PROVE  TypeOK'
<1>1. ASSUME NEW d \in OpenParent(files, path), NEW n \in EmptyNode,
             files' = Created(path, type, d, n), content' = [content EXCEPT ![n] = <<>>],
             UNCHANGED <<fat, rootok, data, used_fds, fd_array, handle, wild>>
      PROVE  TypeOK'
    <2>1. files \in NodeTable /\ content \in ContentTable
        BY TypeParts
    <2>2. files' \in NodeTable /\ n \in Node
        BY <1>1, <2>1, CreateNodes
    <2>3. <<>> \in Seq(Vals)
        OBVIOUS
    <2>4. content' \in ContentTable
        BY <1>1, <2>1, <2>3 DEF ContentTable
    <2> QED BY <1>1, <2>2, <2>4, TypeParts, TypePartsNext
<1> QED BY <1>1, WildTypes DEF nandfs_create, Created

\* The table after a chain has been freed.
LEMMA FreedTable ==
    ASSUME fat \in Table, NEW first PROVE Freed(first) \in Table
BY Values DEF Freed, Table

LEMMA UnlinkTypes ==
    ASSUME TypeOK, NEW path \in Paths, NEW type \in {1, 2}, NEW n \in Node,
           nandfs_unlink(path, type, n)
    PROVE  TypeOK'
<1>1. ASSUME NEW d \in OpenParent(files, path), n \in nandfs_open(files, path, type),
             files' = Removed(d, n), content' = [content EXCEPT ![n] = <<>>],
             fat' = IF type = 1 THEN Freed(files[n].first) ELSE fat,
             UNCHANGED <<rootok, data, used_fds, fd_array, handle, wild>>
      PROVE  TypeOK'
    <2>1. files \in NodeTable /\ content \in ContentTable /\ fat \in Table
        BY TypeParts
    <2>2. files' \in NodeTable
        BY <1>1, <2>1, UnlinkNodes
    <2>3. <<>> \in Seq(Vals)
        OBVIOUS
    <2>4. content' \in ContentTable
        BY <1>1, <2>1, <2>3 DEF ContentTable
    <2>5. fat' \in Table
        BY <1>1, <2>1, FreedTable
    <2> QED BY <1>1, <2>2, <2>4, <2>5, TypeParts, TypePartsNext
<1> QED BY <1>1, WildTypes DEF nandfs_unlink, Removed

LEMMA RenameTypes ==
    ASSUME TypeOK, NEW path \in Paths, NEW newpath \in Paths, fs_rename(path, newpath)
    PROVE  TypeOK'
<1>1. files' \in NodeTable
    BY TypeParts, RenameNodes DEF SameFiles
<1>2. UNCHANGED <<fat, rootok, data, used_fds, fd_array, handle, content, wild>>
    BY DEF fs_rename
<1> QED BY <1>1, <1>2, TypeParts, TypePartsNext

LEMMA ChownTypes ==
    ASSUME TypeOK, NEW path \in Paths, NEW uid \in Uids, fs_chown(path, uid)
    PROVE  TypeOK'
<1>1. files' \in NodeTable
    BY TypeParts, ChownNodes DEF SameFiles
<1>2. UNCHANGED <<fat, rootok, data, used_fds, fd_array, handle, content, wild>>
    BY DEF fs_chown
<1> QED BY <1>1, <1>2, TypeParts, TypePartsNext

LEMMA OpenTypes ==
    ASSUME TypeOK, NEW h \in Handles, NEW path \in Paths, fs_open(h, path)
    PROVE  TypeOK'
<1>1. PICK n \in nandfs_open(files, path, 1), i \in Slot \ used_fds :
        /\ used_fds' = used_fds \cup {i}
        /\ fd_array' = [fd_array EXCEPT ![i] =
              [node |-> n, first |-> files[n].first, cur |-> files[n].first,
               size |-> files[n].size, index |-> 0]]
        /\ handle' = [handle EXCEPT ![h] = [fh |-> i, node |-> n]]
        /\ UNCHANGED <<files, fat, rootok, data, content, wild>>
    BY DEF fs_open
<1>2. n \in Node /\ files \in NodeTable /\ used_fds \subseteq Slot
      /\ fd_array \in SlotTable /\ handle \in HandleTable
    BY OpenFinds, TypeParts
<1>3. [node |-> n, first |-> files[n].first, cur |-> files[n].first,
       size |-> files[n].size, index |-> 0] \in SlotRecord
    <2>1. files[n] \in NodeRecord
        BY <1>2 DEF NodeTable
    <2>2. files[n].first \in Link /\ files[n].size \in 0 .. MaxSize
        BY <2>1 DEF NodeRecord
    <2>3. files[n].first \in Link \cup {FREE, RESV}
        BY <2>2
    <2> QED BY <1>2, <2>2, <2>3 DEF SlotRecord
<1>4. fd_array' \in SlotTable
    BY <1>1, <1>2, <1>3 DEF SlotTable
<1>5. handle' \in HandleTable
    BY <1>1, <1>2 DEF HandleTable
<1>6. used_fds' \subseteq Slot
    BY <1>1, <1>2
<1> QED BY <1>1, <1>4, <1>5, <1>6, TypeParts, TypePartsNext

LEMMA ReleaseTypes ==
    ASSUME TypeOK, NEW h \in Handles, fs_release(h) PROVE TypeOK'
<1>1. /\ \/ /\ used_fds' = BitsKept(handle[h].fh)
            /\ fd_array' = [fd_array EXCEPT ![handle[h].fh] = ZeroSlot]
         \/ UNCHANGED <<used_fds, fd_array>>
      /\ handle' = [handle EXCEPT ![h] = NoHandle]
      /\ UNCHANGED <<files, fat, rootok, data, content, wild>>
    BY DEF fs_release
<1>2. used_fds \subseteq Slot /\ fd_array \in SlotTable /\ handle \in HandleTable
    BY TypeParts
<1>3. ZeroSlot \in SlotRecord /\ NoHandle \in [fh : Slot \cup {-1}, node : Node]
    BY Values, NandFsConstants DEF ZeroSlot, SlotRecord, NoHandle
<1>4. fd_array' \in SlotTable
    BY <1>1, <1>2, <1>3 DEF SlotTable
<1>5. handle' \in HandleTable
    BY <1>1, <1>2, <1>3 DEF HandleTable
<1>6. used_fds' \subseteq Slot
    BY <1>1, <1>2 DEF BitsKept
<1> QED BY <1>1, <1>4, <1>5, <1>6, TypeParts, TypePartsNext

LEMMA ReadTypes ==
    ASSUME TypeOK, NEW h \in Handles, NEW off \in 0 .. MaxSize - 1, NEW len \in 1 .. MaxSize,
           fs_read(h, off, len)
    PROVE  TypeOK'
<1> DEFINE fh == handle[h].fh
           fd == fd_array[fh]
           stop == IF off + len > fd.size THEN fd.size ELSE off + len
<1>1. fh \in Slot /\ fd \in SlotRecord /\ fd_array \in SlotTable /\ fat \in Table
    <2>1. fh \in used_fds /\ used_fds \subseteq Slot /\ fd_array \in SlotTable /\ fat \in Table
        BY TypeParts, Zenon DEF fs_read
    <2> QED BY <2>1 DEF SlotTable
<1>2. CASE GoWild
    BY <1>2, WildTypes
<1>3. CASE UNCHANGED vars
    BY <1>3, TypeParts, TypePartsNext DEF vars
<1>4. ASSUME NEW k \in off \div U .. stop \div U, Hop(fd.first, k) # Lost,
             fd_array' = [fd_array EXCEPT ![fh].cur = Hop(fd.first, k), ![fh].index = k],
             UNCHANGED <<files, fat, rootok, data, used_fds, handle, content, wild>>
      PROVE  TypeOK'
    <2>1. k \in Nat
        BY <1>1, NandFsConstants, SMTT(40) DEF SlotRecord
    <2>2. Hop(fd.first, k) \in Link \cup {FREE, RESV}
        <3>1. fd.first \in Link
            BY <1>1 DEF SlotRecord
        <3> HIDE DEF fd
        <3> QED BY <1>1, <1>4, <2>1, <3>1, HopValue
    <2> DEFINE c == Hop(fd.first, k)
               s == [[fd EXCEPT !.cur = c] EXCEPT !.index = k]
    <2>3. fd_array' = [fd_array EXCEPT ![fh] = s]
        BY <1>1, <1>4 DEF SlotTable
    <2>4. s \in SlotRecord
        <3>1. c \in Link \cup {FREE, RESV} /\ k \in Int
            BY <2>1, <2>2
        <3> HIDE DEF c, fd
        <3> QED BY <1>1, <3>1 DEF SlotRecord
    <2> HIDE DEF s
    <2>5. fd_array' \in SlotTable
        BY <1>1, <2>3, <2>4 DEF SlotTable
    <2> QED BY <1>4, <2>5, TypeParts, TypePartsNext
<1> QED BY <1>2, <1>3, <1>4 DEF fs_read

\* The tables fs_truncate leaves behind.
LEMMA TruncateTables ==
    ASSUME fat \in Table, NEW first, NEW old, NEW new, NEW num
    PROVE  CutFat(first, old, new) \in Table /\ Drained(CutFat(first, old, new), num) \in Table
<1> DEFINE cut == CutFat(first, old, new)
<1>1. cut \in Table
    BY Values DEF CutFat, Table
<1> HIDE DEF cut
<1>2. Drained(cut, num) \in Table
    BY <1>1, Values DEF Drained, Table
<1> QED BY <1>1, <1>2 DEF cut

LEMMA TruncateTypes ==
    ASSUME TypeOK, NEW path \in Paths, NEW size \in 0 .. MaxSize, fs_truncate(path, size)
    PROVE  TypeOK'
<1>1. ASSUME NEW n \in nandfs_open(files, path, 1), NEW cut, NEW num, NEW b \in BOOLEAN,
             cut \in Table => Drained(cut, num) \in Table, cut \in Table,
             files' = [files EXCEPT ![n].size = size],
             content' = [content EXCEPT ![n] = Resized(@, size)],
             fat' = fat \/ fat' = Drained(cut, num),
             rootok' = (rootok /\ b),
             UNCHANGED <<data, used_fds, fd_array, handle, wild>>
      PROVE  TypeOK'
    <2>1. n \in Node /\ files \in NodeTable /\ content \in ContentTable
        BY OpenFinds, TypeParts
    <2>2. files' \in NodeTable
        BY <1>1, <2>1, TruncateNodes DEF SameFiles
    <2>3. Resized(content[n], size) \in Seq(Vals)
        <3> DEFINE s == content[n]
        <3>1. s \in Seq(Vals)
            BY <2>1 DEF ContentTable
        <3> HIDE DEF s
        <3>2. \A p \in 1 .. size : (IF p <= Len(s) THEN s[p] ELSE 0) \in Vals
            BY <3>1, NandFsConstants
        <3>3. size \in Nat /\ Resized(s, size) \in [1 .. size -> Vals]
            BY <3>2, NandFsConstants DEF Resized
        <3> QED BY <3>3, Listed DEF s
    <2>4. content' \in ContentTable
        BY <1>1, <2>1, <2>3 DEF ContentTable
    <2>5. fat' \in Table
        BY <1>1, TypeParts
    <2>6. rootok' \in BOOLEAN
        BY <1>1, Zenon
    <2> QED BY <1>1, <2>2, <2>4, <2>5, <2>6, TypeParts, TypePartsNext
<1>2. CASE GoWild
    BY <1>2, WildTypes
<1>3. ASSUME NEW n \in nandfs_open(files, path, 1), ~GoWild,
             LET first == files[n].first
                 oldclusters == ClustersFor(files[n].size)
                 newclusters == ClustersFor(size)
                 num == IF newclusters > oldclusters THEN newclusters - oldclusters
                                                     ELSE oldclusters - newclusters
                 cut == CutFat(first, oldclusters, newclusters)
                 sizeonly == (oldclusters = newclusters /\ size # 0) \/ first = Nil
             IN  /\ files' = [files EXCEPT ![n].size = size]
                 /\ content' = [content EXCEPT ![n] = Resized(@, size)]
                 /\ fat' = IF sizeonly THEN fat ELSE Drained(cut, num)
                 /\ rootok' = (rootok /\ (sizeonly \/ ~DrainsAll(cut, num)))
                 /\ UNCHANGED <<data, used_fds, fd_array, handle, wild>>
      PROVE  TypeOK'
    <2> DEFINE first == files[n].first
               oldclusters == ClustersFor(files[n].size)
               newclusters == ClustersFor(size)
               num == IF newclusters > oldclusters THEN newclusters - oldclusters
                                                   ELSE oldclusters - newclusters
               cut == CutFat(first, oldclusters, newclusters)
               sizeonly == (oldclusters = newclusters /\ size # 0) \/ first = Nil
               b == sizeonly \/ ~DrainsAll(cut, num)
    <2>1. cut \in Table /\ Drained(cut, num) \in Table
        BY TypeParts, TruncateTables
    <2>2. /\ files' = [files EXCEPT ![n].size = size]
          /\ content' = [content EXCEPT ![n] = Resized(@, size)]
          /\ fat' = fat \/ fat' = Drained(cut, num)
          /\ rootok' = (rootok /\ b)
          /\ UNCHANGED <<data, used_fds, fd_array, handle, wild>>
        BY <1>3
    <2>3. b \in BOOLEAN
        OBVIOUS
    <2> HIDE DEF b, cut, num
    <2> QED BY <1>1, <2>1, <2>2, <2>3
<1> QED BY <1>2, <1>3 DEF fs_truncate

\* What nandfs_allocatecluster tells of a full table is a truth value.
LEMMA AllocateFull ==
    ASSUME NEW f, NEW a \in nandfs_allocatecluster(f) PROVE a.full \in BOOLEAN
<1>1. CASE \E i \in LowestFree(f) \ {NC - 1} :
                a = [c |-> i, fat |-> [f EXCEPT ![i] = EOC], full |-> FALSE]
    BY <1>1
<1>2. CASE a = [c |-> ENOSPC, fat |-> f, full |-> FALSE]
    BY <1>2
<1>3. CASE a = [c |-> NC, fat |-> f, full |-> TRUE]
    BY <1>3
<1> QED BY <1>1, <1>2, <1>3 DEF nandfs_allocatecluster

\* The cluster a write starts with, and the one it goes on with.
LEMMA FirstClusterTypes ==
    ASSUME fat \in Table, NEW fd, NEW cur \in Link \cup {FREE, RESV},
           NEW a \in FirstCluster(fd, cur)
    PROVE  /\ a.fat \in Table /\ a.full \in BOOLEAN /\ a.c \in Link \cup {FREE, RESV}
           /\ NeedsFirst(fd, cur) => a.c \in Link
<1>1. CASE NeedsFirst(fd, cur)
    <2>1. a \in nandfs_allocatecluster(fat)
        BY <1>1 DEF FirstCluster
    <2>2. a.fat \in Table /\ a.c \in Cluster \cup {ENOSPC, NC}
        BY <2>1, Allocate
    <2> QED BY <2>1, <2>2, AllocateFull, Values
<1>2. CASE ~NeedsFirst(fd, cur)
    <2>1. a = [c |-> cur, fat |-> fat, full |-> FALSE]
        BY <1>2 DEF FirstCluster
    <2>2. a.c = cur /\ a.fat = fat /\ a.full \in BOOLEAN
        BY <2>1
    <2> QED BY <1>2, <2>2
<1> QED BY <1>1, <1>2

LEMMA NextClusterTypes ==
    ASSUME NEW a, a.fat \in Table, a.c \in Cluster, NEW b \in NextCluster(a)
    PROVE  b.fat \in Table /\ b.full \in BOOLEAN /\ b.c \in Link \cup {FREE, RESV}
<1>1. CASE a.fat[a.c] # EOC
    <2>1. b = [c |-> a.fat[a.c], fat |-> a.fat, full |-> FALSE]
        BY <1>1 DEF NextCluster
    <2>2. a.fat[a.c] \in FatValue
        BY DEF Table
    <2> QED BY <2>1, <2>2, Values
<1>2. CASE a.fat[a.c] = EOC
    <2>1. PICK e \in nandfs_allocatecluster(a.fat) :
              b = [c |-> e.c, fat |-> [e.fat EXCEPT ![a.c] = e.c], full |-> e.full]
        BY <1>2 DEF NextCluster
    <2>2. e.fat \in Table /\ e.c \in Cluster \cup {ENOSPC, NC} /\ e.full \in BOOLEAN
        BY <2>1, Allocate, AllocateFull
    <2>3. e.c \in FatValue /\ e.c \in Link
        BY <2>2, Values
    <2>4. [e.fat EXCEPT ![a.c] = e.c] \in Table
        BY <2>2, <2>3 DEF Table
    <2> QED BY <2>1, <2>2, <2>3, <2>4
<1> QED BY <1>1, <1>2

\* What the clients wrote, after another write.
LEMMA OverwrittenTypes ==
    ASSUME NEW s \in Seq(Vals), NEW off \in Nat, NEW len \in Nat, NEW v \in Vals
    PROVE  Overwritten(s, off, len, v) \in Seq(Vals)
<1> DEFINE n == IF off + len > Len(s) THEN off + len ELSE Len(s)
<1>1. n \in Nat
    OBVIOUS
<1>2. \A p \in 1 .. n :
          (IF p > off /\ p <= off + len THEN v ELSE IF p <= Len(s) THEN s[p] ELSE 0) \in Vals
    BY NandFsConstants
<1>3. Overwritten(s, off, len, v) \in [1 .. n -> Vals]
    BY <1>2 DEF Overwritten
<1> HIDE DEF n
<1> QED BY <1>1, <1>3, Listed

LEMMA WriteTypes ==
    ASSUME TypeOK, NEW h \in Handles, NEW r \in Requests, NEW v \in Vals, NEW eio \in BOOLEAN,
           fs_write(h, r.off, r.len, v, eio)
    PROVE  TypeOK'
<1> DEFINE fh    == handle[h].fh
           fd    == fd_array[fh]
           cur   == SeekCur(fd, r.off)
           index == SeekIndex(fd, r.off)
           fills == (r.off % U) + r.len = U
           size  == IF r.off + r.len > fd.size THEN r.off + r.len ELSE fd.size
           big   == r.off + r.len > fd.size
           first(a) == IF NeedsFirst(fd, cur) THEN a.c ELSE fd.first
           node(a) == [files[fd.node] EXCEPT !.first = IF NeedsFirst(fd, cur) THEN a.c ELSE @]
           written(a) ==
               IF a.c \in Cluster
               THEN [data EXCEPT ![a.c] =
                      [val |-> [u \in 0 .. U - 1 |->
                          IF u >= r.off % U /\ u < (r.off % U) + r.len THEN v ELSE @.val[u]],
                       mac |-> MacFor(fd.node, index)]]
               ELSE data
<1>1. /\ files \in NodeTable /\ fat \in Table /\ data \in DataTable /\ fd_array \in SlotTable
      /\ handle \in HandleTable /\ content \in ContentTable /\ used_fds \subseteq Slot
    BY TypeParts
<1>2. /\ fh \in Slot /\ fd \in SlotRecord
      /\ r.off \in Nat /\ r.len \in Nat /\ r.off + r.len \in 0 .. MaxSize
    <2>1. fh \in used_fds
        BY DEF fs_write
    <2>2. fh \in Slot /\ fd \in SlotRecord
        BY <1>1, <2>1 DEF SlotTable
    <2>3. r.off \in Nat /\ r.len \in Nat /\ r.off + r.len \in 0 .. MaxSize
        BY NandFsConstants DEF Requests
    <2> QED BY <2>2, <2>3
<1>3. /\ fd.node \in Node /\ fd.first \in Link /\ fd.size \in 0 .. MaxSize
      /\ fd.cur \in Link \cup {FREE, RESV} /\ fd.index \in Int
    BY <1>2 DEF SlotRecord
<1>4. handle[h].node \in Node
    BY <1>1 DEF HandleTable
<1>5. cur \in Link \cup {FREE, RESV, Lost} /\ index \in Int
    <2>1. r.off \div U \in Nat
        <3> DEFINE o == r.off
        <3>1. o \in Nat
            BY <1>2
        <3> HIDE DEF o
        <3>2. o \div U \in Nat
            BY <3>1, NandFsConstants
        <3> QED BY <3>2 DEF o
    <2>2. Hop(fd.first, r.off \div U) \in Link \cup {FREE, RESV, Lost}
        BY <1>1, <1>3, <2>1, HopValue
    <2> HIDE DEF fd
    <2> QED BY <1>3, <2>1, <2>2 DEF SeekCur, SeekIndex
<1>6. size \in 0 .. MaxSize
    BY <1>2, <1>3
<1> HIDE DEF fh, fd, cur, index, size, fills, big
<1>7. ASSUME cur # Lost, NEW a \in FirstCluster(fd, cur)
      PROVE  /\ a.fat \in Table /\ a.full \in BOOLEAN /\ a.c \in Link \cup {FREE, RESV}
             /\ first(a) \in Link /\ node(a) \in NodeRecord
             /\ written(a) \in DataTable
    <2>1. /\ a.fat \in Table /\ a.full \in BOOLEAN /\ a.c \in Link \cup {FREE, RESV}
          /\ NeedsFirst(fd, cur) => a.c \in Link
        BY <1>1, <1>5, <1>7, FirstClusterTypes
    <2>2. first(a) \in Link
        BY <1>3, <2>1
    <2>3. node(a) \in NodeRecord
        <3>1. files[fd.node] \in NodeRecord
            BY <1>1, <1>3 DEF NodeTable
        <3> DEFINE x == IF NeedsFirst(fd, cur) THEN a.c ELSE files[fd.node].first
        <3>2. x \in Link
            BY <2>1, <3>1 DEF NodeRecord
        <3>3. node(a) = [files[fd.node] EXCEPT !.first = x]
            OBVIOUS
        <3> HIDE DEF x, node
        <3> QED BY <3>1, <3>2, <3>3, RecordFields
    <2>4. MacFor(fd.node, index) \in MacRecord
        <3>1. files[fd.node] \in NodeRecord
            BY <1>1, <1>3 DEF NodeTable
        <3>2. files[fd.node].name \in Names \cup {"", "/"} /\ files[fd.node].uid \in Uids
            BY <3>1 DEF NodeRecord
        <3> QED BY <1>3, <1>5, <3>2 DEF MacFor, MacRecord
    <2>5. CASE a.c \in Cluster
        <3> DEFINE x == [u \in 0 .. U - 1 |->
                          IF u >= r.off % U /\ u < (r.off % U) + r.len THEN v
                          ELSE data[a.c].val[u]]
                   e == [val |-> x, mac |-> MacFor(fd.node, index)]
        <3>1. data[a.c].val \in [0 .. U - 1 -> Vals]
            BY <1>1, <2>5 DEF DataTable
        <3>2. x \in [0 .. U - 1 -> Vals]
            BY <3>1
        <3>3. written(a) = [data EXCEPT ![a.c] = e]
            BY <2>5
        <3> HIDE DEF x, written
        <3>4. e \in [val : [0 .. U - 1 -> Vals], mac : MacRecord]
            BY <2>4, <3>2
        <3> HIDE DEF e
        <3> QED BY <1>1, <2>1, <2>2, <2>3, <2>5, <3>3, <3>4 DEF DataTable
    <2>6. CASE a.c \notin Cluster
        BY <1>1, <2>1, <2>2, <2>3, <2>6
    <2> QED BY <2>5, <2>6
<1>8. CASE GoWild
    BY <1>8, WildTypes
<1>9. ASSUME NEW a, a \in FirstCluster(fd, cur), cur # Lost,
             files' = [files EXCEPT ![fd.node] = node(a)],
             fat' = a.fat, rootok' = (rootok /\ ~a.full),
             fd_array' = [fd_array EXCEPT ![fh] =
                  [fd EXCEPT !.first = first(a), !.cur = a.c, !.index = index]],
             UNCHANGED <<data, used_fds, handle, content, wild>>
      PROVE  TypeOK'
    <2>1. /\ a.fat \in Table /\ a.c \in Link \cup {FREE, RESV}
          /\ first(a) \in Link /\ node(a) \in NodeRecord
        BY <1>7, <1>9
    <2> HIDE DEF first, node
    <2>2. files' \in NodeTable
        BY <1>1, <1>9, <2>1 DEF NodeTable
    <2>3. [fd EXCEPT !.first = first(a), !.cur = a.c, !.index = index] \in SlotRecord
        BY <1>2, <1>5, <2>1 DEF SlotRecord
    <2>4. fd_array' \in SlotTable
        BY <1>1, <1>9, <2>3 DEF SlotTable
    <2>5. rootok' \in BOOLEAN
        BY <1>9, Zenon
    <2> QED BY <1>9, <2>1, <2>2, <2>4, <2>5, TypeParts, TypePartsNext
<1>10. ASSUME NEW a, a \in FirstCluster(fd, cur), cur # Lost, fills => a.c \in Cluster,
              NEW b, b \in (IF fills THEN NextCluster(a) ELSE {a}),
              fat' = b.fat, rootok' = (rootok /\ ~a.full /\ ~b.full),
              fd_array' = [fd_array EXCEPT ![fh] =
                 [fd EXCEPT !.first = first(a), !.cur = b.c, !.size = size,
                            !.index = IF fills THEN index + 1 ELSE index]],
              files' = [files EXCEPT ![fd.node] =
                          [node(a) EXCEPT !.size = IF big THEN size ELSE @]],
              data' = written(a),
              content' = [content EXCEPT ![handle[h].node] =
                              Overwritten(@, r.off, r.len, v)],
              UNCHANGED <<used_fds, handle, wild>>
      PROVE  TypeOK'
    <2>1. /\ a.fat \in Table /\ a.c \in Link \cup {FREE, RESV}
          /\ first(a) \in Link /\ node(a) \in NodeRecord /\ written(a) \in DataTable
        BY <1>7, <1>10
    <2>2. b.fat \in Table /\ b.c \in Link \cup {FREE, RESV}
        <3>1. CASE fills
            <4>1. a.c \in Cluster /\ b \in NextCluster(a)
                BY <1>10, <3>1
            <4> QED BY <2>1, <4>1, NextClusterTypes
        <3>2. CASE ~fills
            BY <1>10, <2>1, <3>2
        <3> QED BY <3>1, <3>2
    <2> HIDE DEF first, node, written
    <2>3. files' \in NodeTable
        <3> DEFINE nd == node(a)
                   sz == IF big THEN size ELSE nd.size
        <3>1. sz \in 0 .. MaxSize
            BY <1>6, <2>1 DEF NodeRecord
        <3>2. files' = [files EXCEPT ![fd.node] = [nd EXCEPT !.size = sz]]
            BY <1>10
        <3> HIDE DEF sz, nd
        <3>3. [nd EXCEPT !.size = sz] \in NodeRecord
            <4>1. nd \in NodeRecord
                BY <2>1 DEF nd
            <4> QED BY <3>1, <4>1, RecordFields
        <3> QED BY <1>1, <3>2, <3>3 DEF NodeTable
    <2>4. [fd EXCEPT !.first = first(a), !.cur = b.c, !.size = size,
                     !.index = IF fills THEN index + 1 ELSE index] \in SlotRecord
        <3> DEFINE i == IF fills THEN index + 1 ELSE index
        <3>1. i \in Int
            BY <1>5
        <3> HIDE DEF i
        <3>2. [fd EXCEPT !.first = first(a), !.cur = b.c, !.size = size, !.index = i] \in SlotRecord
            BY <1>2, <1>6, <2>1, <2>2, <3>1 DEF SlotRecord
        <3> QED BY <3>2 DEF i
    <2>5. fd_array' \in SlotTable
        BY <1>1, <1>10, <2>4 DEF SlotTable
    <2>6. rootok' \in BOOLEAN
        BY <1>10, Zenon
    <2>7. content' \in ContentTable
        <3>1. content[handle[h].node] \in Seq(Vals)
            BY <1>1, <1>4 DEF ContentTable
        <3>2. Overwritten(content[handle[h].node], r.off, r.len, v) \in Seq(Vals)
            BY <1>2, <3>1, OverwrittenTypes
        <3> QED BY <1>1, <1>4, <1>10, <3>2 DEF ContentTable
    <2> QED BY <1>10, <2>1, <2>2, <2>3, <2>5, <2>6, <2>7, TypeParts, TypePartsNext
<1> QED
    BY <1>8, <1>9, <1>10
    DEF fs_write, fh, fd, cur, index, size, fills, big
-----------------------------------------------------------------------------
(* The specification *)

\* A consistent NAND satisfies the invariant.
LEMMA InitFatInv ==
    ASSUME InitConsistent, Init PROVE FatInv
BY NandFsConstants DEF InitConsistent, Init, FatInv, FatOK, NodeTable, Table

\* Every step but a truncation across clusters keeps it.
LEMMA StepFatInv ==
    ASSUME Polite \/ "truncate" \notin Ops, FatInv, [Next]_vars PROVE FatInv'
<1>1. ASSUME NEW path \in Paths, PathStep(path) PROVE FatInv'
    <2>1. CASE fs_mknod(path)
        BY <2>1, CreateFat DEF fs_mknod
    <2>2. CASE fs_mkdir(path)
        BY <2>2, CreateFat DEF fs_mkdir
    <2>3. CASE fs_unlink(path)
        BY <2>3, UnlinkFat DEF fs_unlink
    <2>4. CASE fs_rmdir(path)
        BY <2>4, UnlinkFat DEF fs_rmdir
    <2>5. ASSUME NEW newpath \in Paths, fs_rename(path, newpath) PROVE FatInv'
        BY <2>5, RenameNodes, KeepFat DEF FatInv, fs_rename
    <2>6. ASSUME NEW uid \in Uids, fs_chown(path, uid) PROVE FatInv'
        BY <2>6, ChownNodes, KeepFat DEF FatInv, fs_chown
    <2>7. ASSUME NEW size \in 0 .. MaxSize, "truncate" \in Ops, fs_truncate(path, size)
          PROVE  FatInv'
        BY <2>7, PoliteTruncate, KeepFat DEF FatInv
    <2> QED BY <1>1, <2>1, <2>2, <2>3, <2>4, <2>5, <2>6, <2>7 DEF PathStep
<1>2. ASSUME UNCHANGED <<files, fat>> PROVE FatInv'
    BY <1>2 DEF FatInv, FatOK, LinksOK, FirstsOK, InUse
<1>3. ASSUME NEW h \in Handles, HandleStep(h) PROVE FatInv'
    <2>1. ASSUME NEW path \in Paths, fs_open(h, path) PROVE FatInv'
        BY <2>1, <1>2 DEF fs_open
    <2>2. CASE fs_release(h)
        BY <2>2, <1>2 DEF fs_release
    <2>3. ASSUME NEW off, NEW len, fs_read(h, off, len) PROVE FatInv'
        <3>1. UNCHANGED <<files, fat>>
            BY <2>3 DEF fs_read, GoWild, vars
        <3> QED BY <3>1, <1>2
    <2>4. ASSUME NEW r \in Requests, NEW v \in Vals \ {0}, NEW eio \in BOOLEAN,
                 fs_write(h, r.off, r.len, v, eio)
          PROVE  FatInv'
        BY <2>4, WriteFat
    <2> QED BY <1>3, <2>1, <2>2, <2>3, <2>4 DEF HandleStep
<1>4. CASE UNCHANGED vars
    BY <1>4, <1>2 DEF vars
<1> QED BY <1>1, <1>3, <1>4 DEF Next

\* Whatever the clients do short of truncating, and however stale the slots
\* they write through are, no two files ever share a cluster and no cluster of
\* a file is free: nandfs_write, nandfs_unlink, nandfs_create and fs_rename
\* keep the cluster table of a consistent NAND consistent.
THEOREM ChainsStayApart ==
    ASSUME Polite \/ "truncate" \notin Ops, InitConsistent PROVE Spec => []FatOK
<1>1. Init => FatInv
    BY InitFatInv
<1>2. FatInv /\ [Next]_vars => FatInv'
    BY StepFatInv
<1>3. FatInv => FatOK
    BY DEF FatInv
<1> QED BY <1>1, <1>2, <1>3, PTL DEF Spec

\* The clusters as the Wii wrote them.
LEMMA InitTypes == ASSUME Init PROVE TypeOK
<1>1. files \in NodeTable /\ fat \in Table
    BY NandFsConstants DEF Init, NodeTable, Table
<1> DEFINE Macs == {MacFor(n, k) : n \in Files, k \in 0 .. NC}
           Reaches(c, m) == Hop(files[m.node].first, m.index) = c
           zeros == [u \in 0 .. U - 1 |-> 0]
<1>2. Macs \subseteq MacRecord
    <2> SUFFICES ASSUME NEW n \in Files, NEW k \in 0 .. NC PROVE MacFor(n, k) \in MacRecord
        OBVIOUS
    <2>1. files[n] \in NodeRecord /\ n \in Node
        BY <1>1 DEF Files, NodeTable
    <2>2. files[n].name \in Names \cup {"", "/"} /\ files[n].uid \in Uids
        BY <2>1 DEF NodeRecord
    <2>3. k \in Int /\ n \in Node \cup {-1}
        BY <2>1, NandFsConstants
    <2> QED BY <2>2, <2>3 DEF MacFor, MacRecord
<1>3. ASSUME NEW c \in Cluster PROVE FoundMac(c) \in MacRecord
    <2>1. CASE \E n \in Files, k \in 0 .. NC : Hop(files[n].first, k) = c
        <3>1. PICK n \in Files, k \in 0 .. NC : Hop(files[n].first, k) = c
            BY <2>1
        <3>2. MacFor(n, k).node = n /\ MacFor(n, k).index = k
            BY DEF MacFor
        <3>3. Reaches(c, MacFor(n, k)) /\ MacFor(n, k) \in Macs
            BY <3>1, <3>2
        <3>4. FoundMac(c) = CHOOSE m \in Macs : Reaches(c, m)
            BY <2>1 DEF FoundMac
        <3> HIDE DEF Macs, Reaches
        <3>5. FoundMac(c) \in Macs
            BY <3>3, <3>4, Zenon
        <3> QED BY <3>5, <1>2
    <2>2. CASE ~\E n \in Files, k \in 0 .. NC : Hop(files[n].first, k) = c
        <3>1. FoundMac(c) = NoMac
            BY <2>2 DEF FoundMac
        <3>2. 0 \in Uids /\ "" \in Names \cup {"", "/"} /\ 0 \in Int /\ -1 \in Node \cup {-1}
            BY NandFsConstants
        <3>3. NoMac \in MacRecord
            BY <3>2 DEF NoMac, MacRecord
        <3> QED BY <3>1, <3>3
    <2> QED BY <2>1, <2>2
<1>4. zeros \in [0 .. U - 1 -> Vals]
    BY NandFsConstants
<1>5. data = [c \in Cluster |-> [val |-> zeros, mac |-> FoundMac(c)]]
    BY DEF Init
<1>6. data \in DataTable
    <2> HIDE DEF zeros
    <2> QED BY <1>3, <1>4, <1>5 DEF DataTable
<1>7. used_fds \subseteq Slot /\ fd_array \in SlotTable
    <2>1. ZeroSlot \in SlotRecord
        BY Values, NandFsConstants DEF ZeroSlot, SlotRecord
    <2> QED BY <2>1 DEF Init, SlotTable
<1>8. handle \in HandleTable
    <2>1. NoHandle \in [fh : Slot \cup {-1}, node : Node]
        BY Values DEF NoHandle
    <2> QED BY <2>1 DEF Init, HandleTable
<1>9. content \in ContentTable
    <2> SUFFICES ASSUME NEW n \in Node
                 PROVE  [p \in 1 .. (IF files[n].attr = 1 THEN files[n].size ELSE 0) |-> 0]
                            \in Seq(Vals)
        BY DEF Init, ContentTable
    <2> DEFINE s == IF files[n].attr = 1 THEN files[n].size ELSE 0
    <2>1. s \in Nat
        <3>1. files[n] \in NodeRecord
            BY <1>1 DEF NodeTable
        <3>2. files[n].size \in Nat
            <4>1. files[n].size \in 0 .. MaxSize
                BY <3>1 DEF NodeRecord
            <4> HIDE DEF s
            <4> QED BY <4>1, NandFsConstants
        <3> QED BY <3>2
    <2>2. [p \in 1 .. s |-> 0] \in [1 .. s -> Vals]
        BY NandFsConstants
    <2> HIDE DEF s
    <2>3. [p \in 1 .. s |-> 0] \in Seq(Vals)
        BY <2>1, <2>2, Listed
    <2> QED BY <2>3 DEF s
<1>10. rootok \in BOOLEAN /\ wild \in BOOLEAN
    BY DEF Init
<1> QED BY <1>1, <1>6, <1>7, <1>8, <1>9, <1>10, TypeParts

\* Every handler keeps the types.
LEMMA StepTypes == ASSUME TypeOK, [Next]_vars PROVE TypeOK'
<1>1. ASSUME NEW path \in Paths, PathStep(path) PROVE TypeOK'
    <2>1. CASE fs_mknod(path)
        BY <2>1, CreateTypes DEF fs_mknod
    <2>2. CASE fs_mkdir(path)
        BY <2>2, CreateTypes DEF fs_mkdir
    <2>3. CASE fs_unlink(path)
        BY <2>3, UnlinkTypes DEF fs_unlink
    <2>4. CASE fs_rmdir(path)
        BY <2>4, UnlinkTypes DEF fs_rmdir
    <2>5. ASSUME NEW newpath \in Paths, fs_rename(path, newpath) PROVE TypeOK'
        BY <2>5, RenameTypes
    <2>6. ASSUME NEW uid \in Uids, fs_chown(path, uid) PROVE TypeOK'
        BY <2>6, ChownTypes
    <2>7. ASSUME NEW size \in 0 .. MaxSize, fs_truncate(path, size) PROVE TypeOK'
        BY <2>7, TruncateTypes
    <2> QED BY <1>1, <2>1, <2>2, <2>3, <2>4, <2>5, <2>6, <2>7 DEF PathStep
<1>2. ASSUME NEW h \in Handles, HandleStep(h) PROVE TypeOK'
    <2>1. ASSUME NEW path \in Paths, fs_open(h, path) PROVE TypeOK'
        BY <2>1, OpenTypes
    <2>2. CASE fs_release(h)
        BY <2>2, ReleaseTypes
    <2>3. ASSUME NEW off \in 0 .. MaxSize - 1, NEW len \in 1 .. MaxSize, fs_read(h, off, len)
          PROVE  TypeOK'
        BY <2>3, ReadTypes
    <2>4. ASSUME NEW r \in Requests, NEW v \in Vals \ {0}, NEW eio \in BOOLEAN,
                 fs_write(h, r.off, r.len, v, eio)
          PROVE  TypeOK'
        BY <2>4, WriteTypes
    <2> QED BY <1>2, <2>1, <2>2, <2>3, <2>4 DEF HandleStep
<1>3. CASE UNCHANGED vars
    BY <1>3, TypeParts, TypePartsNext DEF vars
<1> QED BY <1>1, <1>2, <1>3 DEF Next

\* Nodes, table, slots, handles and clusters keep their types: a slot never holds
\* anything but a number its 16 bits are used for, whatever was freed under it.
THEOREM TypesKept == Spec => []TypeOK
<1>1. Init => TypeOK
    BY InitTypes
<1>2. TypeOK /\ [Next]_vars => TypeOK'
    BY StepTypes
<1> QED BY <1>1, <1>2, PTL DEF Spec

-----------------------------------------------------------------------------
(* Leaks *)

\* Chain, and NoLeak, on a table f and nodes fs.
ChainIn(f, first) ==
    {c \in Cluster : \A T \in SUBSET Cluster :
        /\ first \in Cluster => first \in T
        /\ \A t \in T : f[t] \in Cluster => f[t] \in T
        => c \in T}
Used(f, c) == f[c] \notin {FREE, RESV}
Belongs(fs, f, c) == \E n \in Node : fs[n].attr = 1 /\ c \in ChainIn(f, fs[n].first)
NoLeakIn(fs, f) == \A c \in Cluster : Used(f, c) => Belongs(fs, f, c)

LEMMA ChainIs == ASSUME NEW first PROVE Chain(first) = ChainIn(fat, first)
BY DEF Chain, ChainIn

LEMMA NoLeakIs == NoLeak <=> NoLeakIn(files, fat)
BY ChainIs DEF NoLeak, NoLeakIn, Used, Belongs, Files

LEMMA NoLeakNext == NoLeak' <=> NoLeakIn(files', fat')
BY DEF NoLeak, NoLeakIn, Used, Belongs, Files, Chain, ChainIn

\* What holds of Chain holds on any table.
LEMMA InHead ==
    ASSUME NEW f, NEW first \in Cluster PROVE first \in ChainIn(f, first)
BY DEF ChainIn

LEMMA InCluster ==
    ASSUME NEW f, NEW first PROVE ChainIn(f, first) \subseteq Cluster
BY DEF ChainIn

LEMMA InClosed ==
    ASSUME NEW f, NEW first, NEW c \in ChainIn(f, first), f[c] \in Cluster
    PROVE  f[c] \in ChainIn(f, first)
BY DEF ChainIn

LEMMA InMinimal ==
    ASSUME NEW f, NEW first, NEW T \in SUBSET Cluster,
           first \in Cluster => first \in T,
           \A t \in T : f[t] \in Cluster => f[t] \in T
    PROVE  ChainIn(f, first) \subseteq T
BY DEF ChainIn

LEMMA InNone ==
    ASSUME NEW f, NEW first, first \notin Cluster PROVE ChainIn(f, first) = {}
<1>1. {} \in SUBSET Cluster /\ \A t \in {} : f[t] \in Cluster => f[t] \in {}
    OBVIOUS
<1>2. ChainIn(f, first) \subseteq {}
    BY <1>1, InMinimal
<1> QED BY <1>2

\* A chain loses nothing when its links stay.
LEMMA ChainGrows ==
    ASSUME NEW f, NEW g, NEW first, \A c \in Cluster : f[c] \in Cluster => g[c] = f[c]
    PROVE  ChainIn(f, first) \subseteq ChainIn(g, first)
<1> DEFINE T == ChainIn(g, first)
<1>1. T \in SUBSET Cluster
    BY InCluster
<1>2. first \in Cluster => first \in T
    BY InHead
<1>3. \A t \in T : f[t] \in Cluster => f[t] \in T
    BY <1>1, InClosed
<1> HIDE DEF T
<1>4. ChainIn(f, first) \subseteq T
    BY <1>1, <1>2, <1>3, InMinimal
<1> QED BY <1>4 DEF T

\* Nothing leaks when links and first clusters stay and what comes into use belongs
\* to a file.
LEMMA NoLeakGrows ==
    ASSUME NEW fs, NEW f, NoLeakIn(fs, f), NEW gs, NEW g,
           \A c \in Cluster : f[c] \in Cluster => g[c] = f[c],
           \A n \in Node : fs[n].attr = 1 /\ fs[n].first \in Cluster =>
               gs[n].attr = 1 /\ gs[n].first = fs[n].first,
           \A c \in Cluster : Used(g, c) => Used(f, c) \/ Belongs(gs, g, c)
    PROVE  NoLeakIn(gs, g)
<1> SUFFICES ASSUME NEW c \in Cluster, Used(g, c) PROVE Belongs(gs, g, c)
    BY DEF NoLeakIn
<1>1. CASE ~Used(f, c)
    BY <1>1
<1>2. CASE Used(f, c)
    <2>1. PICK n \in Node : fs[n].attr = 1 /\ c \in ChainIn(f, fs[n].first)
        BY <1>2 DEF NoLeakIn, Belongs
    <2>2. fs[n].first \in Cluster
        BY <2>1, InNone
    <2>3. gs[n].attr = 1 /\ gs[n].first = fs[n].first
        BY <2>1, <2>2
    <2>4. c \in ChainIn(g, fs[n].first)
        BY <2>1, ChainGrows
    <2> QED BY <2>3, <2>4 DEF Belongs
<1> QED BY <1>1, <1>2

\* Freeing the chain of a file that is removed leaves the chains of the others, as
\* far as they do not share clusters with it.
LEMMA NoLeakFreed ==
    ASSUME NoLeak, NEW n \in Node, files[n].attr = 1,
           NEW gs, \A m \in Node \ {n} : files[m].attr = 1 =>
                       gs[m].attr = 1 /\ gs[m].first = files[m].first
    PROVE  NoLeakIn(gs, Freed(files[n].first))
<1> DEFINE C == ChainIn(fat, files[n].first)
           g == Freed(files[n].first)
<1>1. \A c \in Cluster : g[c] = IF c \in C THEN FREE ELSE fat[c]
    BY ChainIs DEF Freed
<1>2. NoLeakIn(files, fat)
    BY NoLeakIs
<1> SUFFICES ASSUME NEW c \in Cluster, Used(g, c) PROVE Belongs(gs, g, c)
    BY DEF NoLeakIn
<1>3. c \notin C /\ Used(fat, c)
    BY <1>1 DEF Used
<1>4. PICK m \in Node : files[m].attr = 1 /\ c \in ChainIn(fat, files[m].first)
    BY <1>2, <1>3 DEF NoLeakIn, Belongs
<1>5. m # n
    BY <1>3, <1>4
<1> DEFINE D == ChainIn(g, files[m].first)
           T == D \cup C
<1>6. T \in SUBSET Cluster
    BY InCluster
<1>7. files[m].first \in Cluster => files[m].first \in T
    BY InHead
<1>8. ASSUME NEW t \in T, fat[t] \in Cluster PROVE fat[t] \in T
    <2>1. CASE t \in C
        BY <1>8, <2>1, InClosed
    <2>2. CASE t \in D /\ t \notin C
        <3>1. g[t] = fat[t]
            BY <1>1, <1>6, <2>2
        <3> HIDE DEF g
        <3> QED BY <1>8, <2>2, <3>1, InClosed
    <2> QED BY <2>1, <2>2
<1> HIDE DEF T
<1>9. ChainIn(fat, files[m].first) \subseteq T
    BY <1>6, <1>7, <1>8, InMinimal
<1>10. c \in D
    BY <1>3, <1>4, <1>9 DEF T
<1> HIDE DEF g, C
<1> QED BY <1>4, <1>5, <1>10 DEF Belongs

\* No two files are open at the same time.
Alone == NFD = 1 \/ \A g, h \in Handles : g = h

\* The slot of the open file is its own, and its copy of the first cluster is right.
Sync ==
    \A h \in Handles : handle[h] # NoHandle =>
        /\ \A g \in Handles : handle[g] # NoHandle => g = h
        /\ handle[h].fh \in used_fds
        /\ fd_array[handle[h].fh].node = handle[h].node
        /\ files[handle[h].node].attr = 1
        /\ fd_array[handle[h].fh].first = files[handle[h].node].first

LeakInv == TypeOK /\ Sync /\ NoLeak

\* The file a handle is open on, and its slot.
LEMMA OpenFile ==
    ASSUME TypeOK, NEW h \in Handles
    PROVE  /\ handle[h].node \in Node /\ handle[h].fh \in Slot \cup {-1}
           /\ handle[h] # NoHandle /\ Sync => handle[h].fh \in Slot
           /\ handle[h].fh \in Slot => handle[h] # NoHandle
<1>1. handle \in HandleTable /\ used_fds \subseteq Slot
    BY TypeParts
<1>2. handle[h].node \in Node /\ handle[h].fh \in Slot \cup {-1}
    BY <1>1 DEF HandleTable
<1>3. handle[h] # NoHandle /\ Sync => handle[h].fh \in Slot
    BY <1>1 DEF Sync
<1>4. -1 \notin Slot
    BY NandFsConstants DEF Slot
<1> QED BY <1>2, <1>3, <1>4 DEF NoHandle

\* The files stay where they are, and so do the open ones.
LEMMA KeepSync ==
    ASSUME TypeOK, Sync, UNCHANGED <<used_fds, fd_array, handle>>,
           \A n \in Node : n \in OpenNodes /\ files[n].attr = 1 =>
               files'[n].attr = 1 /\ files'[n].first = files[n].first
    PROVE  Sync'
<1> SUFFICES ASSUME NEW h \in Handles, handle[h] # NoHandle
             PROVE  /\ \A g \in Handles : handle[g] # NoHandle => g = h
                    /\ handle[h].fh \in used_fds
                    /\ fd_array[handle[h].fh].node = handle[h].node
                    /\ files'[handle[h].node].attr = 1
                    /\ fd_array[handle[h].fh].first = files'[handle[h].node].first
    BY DEF Sync
<1>1. handle[h].node \in Node /\ handle[h].node \in OpenNodes
    BY OpenFile DEF OpenNodes
<1> QED BY <1>1 DEF Sync

LEMMA KeepLeak ==
    ASSUME TypeOK, Sync, SameFiles(files, files'), UNCHANGED <<fat, used_fds, fd_array, handle>>
    PROVE  Sync' /\ (NoLeak => NoLeak')
<1>1. \A n \in Node : files[n].attr = 1 => files'[n].attr = 1 /\ files'[n].first = files[n].first
    BY DEF SameFiles
<1>2. Sync'
    BY <1>1, KeepSync
<1>3. NoLeak => NoLeakIn(files, fat)
    BY NoLeakIs
<1>4. NoLeak => NoLeakIn(files', fat)
    BY <1>1, <1>3, NoLeakGrows
<1> QED BY <1>2, <1>4, NoLeakNext

LEMMA WildLeak == ASSUME TypeOK, Sync, GoWild PROVE Sync' /\ (NoLeak => NoLeak')
<1>1. Sync'
    BY DEF GoWild, Sync
<1>2. files' = files /\ fat' = fat
    BY DEF GoWild
<1>3. NoLeak => NoLeakIn(files', fat')
    BY <1>2, NoLeakIs
<1> QED BY <1>1, <1>3, NoLeakNext

LEMMA CreateLeak ==
    ASSUME TypeOK, Sync, NEW path \in Paths, NEW type \in {1, 2}, nandfs_create(path, type)
    PROVE  Sync' /\ (NoLeak => NoLeak')
<1>1. CASE GoWild
    BY <1>1, WildLeak
<1>2. ASSUME NEW d \in OpenParent(files, path), NEW n \in EmptyNode,
             files' = Created(path, type, d, n),
             UNCHANGED <<fat, used_fds, fd_array, handle>>
      PROVE  Sync' /\ (NoLeak => NoLeak')
    <2>1. files \in NodeTable
        BY TypeParts
    <2>2. /\ n \in Node /\ files[n].attr = 0
          /\ \A m \in Node \ {n} : /\ files'[m].attr = files[m].attr
                                   /\ files'[m].attr = 1 => files'[m].first = files[m].first
        BY <1>2, <2>1, CreateNodes
    <2>3. \A m \in Node : files[m].attr = 1 =>
              files'[m].attr = 1 /\ files'[m].first = files[m].first
        BY <2>2
    <2>4. Sync'
        BY <1>2, <2>3, KeepSync
    <2>5. NoLeak => NoLeakIn(files, fat)
        BY NoLeakIs
    <2>6. NoLeak => NoLeakIn(files', fat)
        BY <2>3, <2>5, NoLeakGrows
    <2> QED BY <1>2, <2>4, <2>6, NoLeakNext
<1> QED BY <1>1, <1>2 DEF nandfs_create, Created

\* A file that is removed is not open.
LEMMA UnlinkLeak ==
    ASSUME TypeOK, Sync, NEW path \in Paths, NEW type \in {1, 2}, NEW n \in Node,
           type = 1 => n \notin OpenNodes, nandfs_unlink(path, type, n)
    PROVE  Sync' /\ (NoLeak => NoLeak')
<1>1. CASE GoWild
    BY <1>1, WildLeak
<1>2. ASSUME NEW d \in OpenParent(files, path), n \in nandfs_open(files, path, type),
             files' = Removed(d, n),
             fat' = IF type = 1 THEN Freed(files[n].first) ELSE fat,
             UNCHANGED <<used_fds, fd_array, handle>>
      PROVE  Sync' /\ (NoLeak => NoLeak')
    <2>1. files \in NodeTable
        BY TypeParts
    <2>2. /\ files[n].attr = type
          /\ \A m \in Node \ {n} : /\ files'[m].attr = files[m].attr
                                   /\ files'[m].attr = 1 => files'[m].first = files[m].first
        BY <1>2, <2>1, UnlinkNodes
    <2>3. \A m \in Node \ {n} : files[m].attr = 1 =>
              files'[m].attr = 1 /\ files'[m].first = files[m].first
        BY <2>2
    <2>4. \A m \in Node : m \in OpenNodes /\ files[m].attr = 1 => m # n
        BY <2>2
    <2>5. Sync'
        BY <1>2, <2>3, <2>4, KeepSync
    <2>6. CASE type = 1
        <3>1. NoLeak => NoLeakIn(files', Freed(files[n].first))
            BY <2>2, <2>3, <2>6, NoLeakFreed
        <3> QED BY <1>2, <2>5, <2>6, <3>1, NoLeakNext
    <2>7. CASE type = 2
        <3>1. NoLeak => NoLeakIn(files, fat)
            BY NoLeakIs
        <3>2. \A m \in Node : files[m].attr = 1 =>
                  files'[m].attr = 1 /\ files'[m].first = files[m].first
            BY <2>2, <2>3, <2>7
        <3>3. NoLeak => NoLeakIn(files', fat)
            BY <3>1, <3>2, NoLeakGrows
        <3> QED BY <1>2, <2>5, <2>7, <3>3, NoLeakNext
    <2> QED BY <2>6, <2>7
<1> QED BY <1>1, <1>2 DEF nandfs_unlink, Removed

\* The slot gets its copies from the node; no other file is open.
LEMMA OpenLeak ==
    ASSUME Alone, TypeOK, Sync, NEW h \in Handles, NEW path \in Paths, fs_open(h, path)
    PROVE  Sync' /\ (NoLeak => NoLeak')
<1>1. PICK n \in nandfs_open(files, path, 1), i \in Slot \ used_fds :
        /\ used_fds' = used_fds \cup {i}
        /\ fd_array' = [fd_array EXCEPT ![i] =
              [node |-> n, first |-> files[n].first, cur |-> files[n].first,
               size |-> files[n].size, index |-> 0]]
        /\ handle' = [handle EXCEPT ![h] = [fh |-> i, node |-> n]]
        /\ UNCHANGED <<files, fat>>
    BY DEF fs_open
<1>2. handle[h] = NoHandle /\ used_fds # Slot
    BY DEF fs_open
<1>3. n \in Node /\ files[n].attr = 1
    BY OpenFinds
<1>4. fd_array \in SlotTable /\ handle \in HandleTable /\ used_fds \subseteq Slot
    BY TypeParts
<1>5. \A g \in Handles : handle[g] = NoHandle
    <2> SUFFICES ASSUME NEW g \in Handles, handle[g] # NoHandle PROVE FALSE
        OBVIOUS
    <2>1. handle[g].fh \in used_fds
        BY DEF Sync
    <2>2. CASE NFD = 1
        <3>1. Slot = {0}
            BY <2>2 DEF Slot
        <3> QED BY <1>2, <1>4, <2>1, <3>1
    <2>3. CASE \A e, f \in Handles : e = f
        BY <1>2, <2>3
    <2> QED BY <2>2, <2>3 DEF Alone
<1>6. /\ handle'[h] = [fh |-> i, node |-> n]
      /\ \A g \in Handles \ {h} : handle'[g] = NoHandle
    BY <1>1, <1>4, <1>5 DEF HandleTable
<1>7. fd_array'[i].node = n /\ fd_array'[i].first = files[n].first
    BY <1>1, <1>4 DEF SlotTable
<1>8. Sync'
    <2> SUFFICES ASSUME NEW g \in Handles, handle'[g] # NoHandle
                 PROVE  /\ \A e \in Handles : handle'[e] # NoHandle => e = g
                        /\ handle'[g].fh \in used_fds'
                        /\ fd_array'[handle'[g].fh].node = handle'[g].node
                        /\ files'[handle'[g].node].attr = 1
                        /\ fd_array'[handle'[g].fh].first = files'[handle'[g].node].first
        BY DEF Sync
    <2>1. g = h /\ handle'[g].fh = i /\ handle'[g].node = n
        BY <1>6
    <2> QED BY <1>1, <1>3, <1>6, <1>7, <2>1
<1>9. NoLeak => NoLeakIn(files', fat')
    BY <1>1, NoLeakIs
<1> QED BY <1>8, <1>9, NoLeakNext

LEMMA ReleaseLeak ==
    ASSUME TypeOK, Sync, NEW h \in Handles, fs_release(h) PROVE Sync' /\ (NoLeak => NoLeak')
<1>1. /\ handle[h] # NoHandle
      /\ handle' = [handle EXCEPT ![h] = NoHandle]
      /\ UNCHANGED <<files, fat>>
    BY DEF fs_release
<1>2. \A g \in Handles : handle'[g] = NoHandle
    <2>1. \A g \in Handles \ {h} : handle[g] = NoHandle
        BY <1>1 DEF Sync
    <2>2. handle \in HandleTable
        BY TypeParts
    <2> QED BY <1>1, <2>1, <2>2 DEF HandleTable
<1>3. Sync'
    BY <1>2 DEF Sync
<1>4. NoLeak => NoLeakIn(files', fat')
    BY <1>1, NoLeakIs
<1> QED BY <1>3, <1>4, NoLeakNext

\* A read moves within the file.
LEMMA ReadLeak ==
    ASSUME TypeOK, Sync, NEW h \in Handles, NEW off, NEW len, fs_read(h, off, len)
    PROVE  Sync' /\ (NoLeak => NoLeak')
<1>1. CASE GoWild
    BY <1>1, WildLeak
<1>2. CASE UNCHANGED vars
    BY <1>2, NoLeakIs, NoLeakNext DEF vars, Sync
<1>3. ASSUME NEW c, NEW k,
             fd_array' = [fd_array EXCEPT ![handle[h].fh].cur = c, ![handle[h].fh].index = k],
             UNCHANGED <<files, fat, used_fds, handle>>
      PROVE  Sync' /\ (NoLeak => NoLeak')
    <2>1. fd_array \in SlotTable
        BY TypeParts
    <2>2. \A i \in Slot : fd_array'[i].node = fd_array[i].node
                          /\ fd_array'[i].first = fd_array[i].first
        BY <1>3, <2>1 DEF SlotTable, SlotRecord
    <2>3. Sync'
        <3> SUFFICES ASSUME NEW g \in Handles, handle'[g] # NoHandle
                     PROVE  /\ \A e \in Handles : handle'[e] # NoHandle => e = g
                            /\ handle'[g].fh \in used_fds'
                            /\ fd_array'[handle'[g].fh].node = handle'[g].node
                            /\ files'[handle'[g].node].attr = 1
                            /\ fd_array'[handle'[g].fh].first = files'[handle'[g].node].first
            BY DEF Sync
        <3>1. handle' = handle /\ handle[g].fh \in Slot
            BY <1>3, OpenFile
        <3>2. /\ \A e \in Handles : handle[e] # NoHandle => e = g
              /\ handle[g].fh \in used_fds
              /\ fd_array[handle[g].fh].node = handle[g].node
              /\ files[handle[g].node].attr = 1
              /\ fd_array[handle[g].fh].first = files[handle[g].node].first
            BY <3>1 DEF Sync
        <3> DEFINE i == handle[g].fh
        <3>3. fd_array'[i].node = fd_array[i].node /\ fd_array'[i].first = fd_array[i].first
            BY <2>2, <3>1
        <3> QED BY <1>3, <3>1, <3>2, <3>3
    <2>4. NoLeak => NoLeakIn(files', fat')
        BY <1>3, NoLeakIs
    <2> QED BY <2>3, <2>4, NoLeakNext
<1> QED BY <1>1, <1>2, <1>3 DEF fs_read

\* The first cluster of a file belongs to it.
LEMMA FirstClusterLeak ==
    ASSUME files \in NodeTable, fat \in Table, NoLeakIn(files, fat),
           NEW fd, NEW k \in Node, files[k].attr = 1, fd.first = files[k].first,
           NEW cur, NEW a \in FirstCluster(fd, cur),
           NEW gs \in NodeTable, gs[k].attr = 1,
           gs[k].first = IF NeedsFirst(fd, cur) THEN a.c ELSE fd.first,
           \A n \in Node \ {k} : gs[n] = files[n]
    PROVE  NoLeakIn(gs, a.fat)
<1>1. CASE ~NeedsFirst(fd, cur)
    <2>1. a.fat = fat /\ gs[k].first = files[k].first
        BY <1>1 DEF FirstCluster
    <2>2. \A n \in Node : files[n].attr = 1 => gs[n].attr = 1 /\ gs[n].first = files[n].first
        BY <2>1
    <2> QED BY <2>1, <2>2, NoLeakGrows
<1>2. CASE NeedsFirst(fd, cur)
    <2>1. a \in nandfs_allocatecluster(fat)
        BY <1>2 DEF FirstCluster
    <2>2. /\ a.c \in Cluster => fat[a.c] = FREE /\ a.fat = [fat EXCEPT ![a.c] = EOC]
          /\ a.c \notin Cluster => a.fat = fat
        BY <2>1, Allocate
    <2>3. FREE \notin Cluster /\ Nil \notin Cluster
        BY NandFsConstants DEF Cluster, FREE, Nil
    <2>4. files[k].first \notin Cluster /\ gs[k].first = a.c
        BY <1>2, <2>3 DEF NeedsFirst
    <2>5. \A c \in Cluster : fat[c] \in Cluster => a.fat[c] = fat[c]
        BY <2>2, <2>3 DEF Table
    <2>6. \A n \in Node : files[n].attr = 1 /\ files[n].first \in Cluster =>
              gs[n].attr = 1 /\ gs[n].first = files[n].first
        BY <2>4
    <2>7. \A c \in Cluster : Used(a.fat, c) => Used(fat, c) \/ Belongs(gs, a.fat, c)
        <3> SUFFICES ASSUME NEW c \in Cluster, Used(a.fat, c), ~Used(fat, c)
                     PROVE  Belongs(gs, a.fat, c)
            OBVIOUS
        <3>1. c = a.c
            BY <2>2 DEF Used, Table
        <3>2. c \in ChainIn(a.fat, gs[k].first)
            BY <2>4, <3>1, InHead
        <3> QED BY <3>2 DEF Belongs
    <2> QED BY <2>5, <2>6, <2>7, NoLeakGrows
<1> QED BY <1>1, <1>2

\* The cluster allocated ahead belongs to the file of the cluster before it.
LEMMA NextClusterLeak ==
    ASSUME NEW gs, NEW a, a.fat \in Table, a.c \in Cluster, NoLeakIn(gs, a.fat),
           NEW b \in NextCluster(a)
    PROVE  NoLeakIn(gs, b.fat)
<1>1. CASE a.fat[a.c] # EOC
    <2>1. b.fat = a.fat
        BY <1>1 DEF NextCluster
    <2> QED BY <2>1
<1>2. CASE a.fat[a.c] = EOC
    <2>1. PICK e \in nandfs_allocatecluster(a.fat) :
              b = [c |-> e.c, fat |-> [e.fat EXCEPT ![a.c] = e.c], full |-> e.full]
        BY <1>2 DEF NextCluster
    <2>2. /\ e.c \in Cluster => a.fat[e.c] = FREE /\ e.fat = [a.fat EXCEPT ![e.c] = EOC]
          /\ e.c \notin Cluster => e.fat = a.fat
          /\ e.fat \in Table
        BY <2>1, Allocate
    <2>3. EOC \notin Cluster /\ FREE \notin Cluster /\ EOC # FREE /\ EOC # RESV
        BY NandFsConstants DEF Cluster, EOC, FREE, RESV
    <2> DEFINE f == a.fat
               g == [e.fat EXCEPT ![a.c] = e.c]
    <2>4. b.fat = g
        BY <2>1
    <2>5. g[a.c] = e.c
        BY <2>2 DEF Table
    <2>6. \A c \in Cluster : c # a.c /\ c # e.c => g[c] = f[c]
        BY <2>2 DEF Table
    <2>7. f \in Table /\ f[a.c] = EOC /\ (e.c \in Cluster => f[e.c] = FREE)
        BY <1>2, <2>2
    <2>8. NoLeakIn(gs, f)
        OBVIOUS
    <2> HIDE DEF f, g
    <2>9. \A c \in Cluster : f[c] \in Cluster => g[c] = f[c]
        BY <2>3, <2>6, <2>7
    <2>10. ASSUME NEW c \in Cluster, Used(g, c), ~Used(f, c) PROVE Belongs(gs, g, c)
        <3>1. c = e.c
            BY <2>3, <2>6, <2>7, <2>10 DEF Used
        <3>2. Used(f, a.c)
            BY <2>3, <2>7 DEF Used
        <3>3. PICK n \in Node : gs[n].attr = 1 /\ a.c \in ChainIn(f, gs[n].first)
            BY <2>8, <3>2 DEF NoLeakIn, Belongs
        <3>4. a.c \in ChainIn(g, gs[n].first)
            BY <2>9, <3>3, ChainGrows
        <3>5. g[a.c] = c
            BY <2>5, <3>1
        <3>6. c \in ChainIn(g, gs[n].first)
            BY <3>4, <3>5, InClosed
        <3> QED BY <3>3, <3>6 DEF Belongs
    <2>11. NoLeakIn(gs, g)
        BY <2>8, <2>9, <2>10, NoLeakGrows
    <2> QED BY <2>4, <2>11
<1> QED BY <1>1, <1>2

LEMMA WriteLeak ==
    ASSUME TypeOK, Sync, NEW h \in Handles, NEW r \in Requests, NEW v \in Vals, NEW eio \in BOOLEAN,
           fs_write(h, r.off, r.len, v, eio)
    PROVE  Sync' /\ (NoLeak => NoLeak')
<1> DEFINE fh    == handle[h].fh
           fd    == fd_array[fh]
           k     == fd.node
           cur   == SeekCur(fd, r.off)
           first(a) == IF NeedsFirst(fd, cur) THEN a.c ELSE fd.first
           node(a) == [files[k] EXCEPT !.first = IF NeedsFirst(fd, cur) THEN a.c ELSE @]
           gs(a) == [files EXCEPT ![k] = node(a)]
           big   == r.off + r.len > fd.size
           size  == IF r.off + r.len > fd.size THEN r.off + r.len ELSE fd.size
           fills == (r.off % U) + r.len = U
<1>1. /\ files \in NodeTable /\ fat \in Table /\ fd_array \in SlotTable
      /\ handle \in HandleTable /\ TypeOK /\ Sync /\ (NoLeak => NoLeakIn(files, fat))
    BY TypeParts, NoLeakIs
<1>2. fh \in Slot /\ handle[h] # NoHandle
    <2>1. fh \in used_fds /\ used_fds \subseteq Slot
        BY TypeParts DEF fs_write
    <2> QED BY <1>1, <2>1, OpenFile
<1>3. /\ \A g \in Handles : handle[g] # NoHandle => g = h
      /\ k = handle[h].node /\ k \in Node /\ files[k].attr = 1 /\ fd.first = files[k].first
    BY <1>1, <1>2, OpenFile DEF Sync
<1>4. ASSUME NEW a \in FirstCluster(fd, cur)
      PROVE  /\ gs(a) \in NodeTable /\ a.fat \in Table /\ (NoLeak => NoLeakIn(gs(a), a.fat))
             /\ gs(a)[k] = node(a) /\ gs(a)[k].attr = 1 /\ gs(a)[k].first = first(a)
    <2>1. gs(a) = [files EXCEPT ![k] = [files[k] EXCEPT !.first =
                        IF NeedsFirst(fd, cur) THEN a.c ELSE @]]
        OBVIOUS
    <2>2. gs(a)[k] = node(a) /\ \A n \in Node \ {k} : gs(a)[n] = files[n]
        BY <1>1, <1>3 DEF NodeTable
    <2>3. node(a).attr = 1 /\ node(a).first = first(a)
        <3>1. files[k] \in NodeRecord
            BY <1>1, <1>3 DEF NodeTable
        <3> HIDE DEF k, fd, cur
        <3> QED BY <1>3, <3>1 DEF NodeRecord
    <2> HIDE DEF gs, cur, node
    <2>4. gs(a) \in NodeTable /\ a.fat \in Table
        <3>1. CASE NeedsFirst(fd, cur)
            <4>1. a.fat \in Table /\ a.c \in Cluster \cup {ENOSPC, NC}
                BY <1>1, <3>1, Allocate DEF FirstCluster
            <4>2. a.c \in Link
                BY <4>1, Values
            <4>3. node(a) \in NodeRecord
                <5>1. files[k] \in NodeRecord
                    BY <1>1, <1>3 DEF NodeTable
                <5> HIDE DEF k
                <5> QED BY <3>1, <4>2, <5>1, RecordFields DEF node
            <4> QED BY <1>1, <1>3, <4>1, <4>3 DEF gs, NodeTable
        <3>2. CASE ~NeedsFirst(fd, cur)
            <4>1. a.fat = fat /\ node(a) = files[k]
                <5>1. a.fat = fat
                    BY <3>2 DEF FirstCluster
                <5>2. files[k] \in NodeRecord
                    BY <1>1, <1>3 DEF NodeTable
                <5> HIDE DEF k
                <5> QED BY <3>2, <5>1, <5>2 DEF node, NodeRecord
            <4> QED BY <1>1, <1>3, <4>1 DEF gs, NodeTable
        <3> QED BY <3>1, <3>2
    <2>5. gs(a)[k].attr = 1 /\ gs(a)[k].first = first(a)
        BY <2>2, <2>3
    <2>6. NoLeak => NoLeakIn(gs(a), a.fat)
        <3> HIDE DEF k, fd
        <3> QED BY <1>1, <1>3, <2>2, <2>4, <2>5, FirstClusterLeak
    <2> QED BY <2>2, <2>4, <2>5, <2>6
<1> HIDE DEF gs, node, cur, big, size, fills
\* The slot has the first cluster of the node.
<1>5. ASSUME NEW a, NEW s, s.node = k, s.first = first(a),
             files'[k].attr = 1, files'[k].first = first(a),
             fd_array' = [fd_array EXCEPT ![fh] = s],
             UNCHANGED <<used_fds, handle>>
      PROVE  Sync'
    <2> SUFFICES ASSUME NEW g \in Handles, handle'[g] # NoHandle
                 PROVE  /\ \A e \in Handles : handle'[e] # NoHandle => e = g
                        /\ handle'[g].fh \in used_fds'
                        /\ fd_array'[handle'[g].fh].node = handle'[g].node
                        /\ files'[handle'[g].node].attr = 1
                        /\ fd_array'[handle'[g].fh].first = files'[handle'[g].node].first
        BY DEF Sync
    <2>1. g = h
        BY <1>3, <1>5
    <2>2. fd_array'[fh] = s
        BY <1>1, <1>2, <1>5 DEF SlotTable
    <2>3. fh \in used_fds
        BY <1>1, <1>2 DEF Sync
    <2> QED BY <1>3, <1>5, <2>1, <2>2, <2>3
<1>6. CASE GoWild
    BY <1>6, WildLeak
<1>7. ASSUME NEW a, a \in FirstCluster(fd, cur), NEW i,
             files' = gs(a), fat' = a.fat,
             fd_array' = [fd_array EXCEPT ![fh] =
                  [fd EXCEPT !.first = first(a), !.cur = a.c, !.index = i]],
             UNCHANGED <<used_fds, handle>>
      PROVE  Sync' /\ (NoLeak => NoLeak')
    <2>1. NoLeak => NoLeak'
        BY <1>4, <1>7, NoLeakNext
    <2> DEFINE s == [fd EXCEPT !.first = first(a), !.cur = a.c, !.index = i]
    <2>2. s.node = k /\ s.first = first(a)
        BY <1>1, <1>2 DEF SlotTable, SlotRecord
    <2>3. fd_array' = [fd_array EXCEPT ![fh] = s]
        BY <1>7
    <2>4. files'[k].attr = 1 /\ files'[k].first = first(a)
        BY <1>4, <1>7
    <2> HIDE DEF s, k, fh, first
    <2>5. Sync'
        BY <1>5, <1>7, <2>2, <2>3, <2>4
    <2> QED BY <2>1, <2>5
<1>8. ASSUME NEW a, a \in FirstCluster(fd, cur), fills => a.c \in Cluster,
             NEW b, b \in (IF fills THEN NextCluster(a) ELSE {a}), NEW i,
             fat' = b.fat,
             fd_array' = [fd_array EXCEPT ![fh] =
                 [fd EXCEPT !.first = first(a), !.cur = b.c, !.size = size, !.index = i]],
             files' = [files EXCEPT ![k] = [node(a) EXCEPT !.size = IF big THEN size ELSE @]],
             UNCHANGED <<used_fds, handle>>
      PROVE  Sync' /\ (NoLeak => NoLeak')
    <2>1. NoLeak => NoLeakIn(gs(a), b.fat)
        <3>1. CASE fills
            BY <1>4, <1>8, <3>1, NextClusterLeak
        <3>2. CASE ~fills
            BY <1>4, <1>8, <3>2
        <3> QED BY <3>1, <3>2
    <2> DEFINE s == [fd EXCEPT !.first = first(a), !.cur = b.c, !.size = size, !.index = i]
               z == IF big THEN size ELSE node(a).size
               nd == [node(a) EXCEPT !.size = z]
    <2>2. s.node = k /\ s.first = first(a)
        BY <1>1, <1>2 DEF SlotTable, SlotRecord
    <2>3. fd_array' = [fd_array EXCEPT ![fh] = s]
        BY <1>8
    <2>4. files' = [files EXCEPT ![k] = nd]
        BY <1>8
    <2>5. nd.attr = 1 /\ nd.first = first(a)
        <3>1. node(a) \in NodeRecord /\ node(a).attr = 1 /\ node(a).first = first(a)
            BY <1>3, <1>4, <1>8 DEF NodeTable
        <3> HIDE DEF z, k, first
        <3> QED BY <3>1 DEF NodeRecord
    <2> HIDE DEF s, nd
    <2>6. /\ files'[k] = nd
          /\ \A n \in Node \ {k} : files'[n] = files[n]
        BY <1>1, <1>3, <2>4 DEF NodeTable
    <2>7. Sync'
        <3>1. files'[k].attr = 1 /\ files'[k].first = first(a)
            BY <2>5, <2>6
        <3> HIDE DEF k, fh, first
        <3> QED BY <1>5, <1>8, <2>2, <2>3, <3>1
    <2>8. \A n \in Node : gs(a)[n].attr = 1 =>
              files'[n].attr = 1 /\ files'[n].first = gs(a)[n].first
        <3>1. \A n \in Node \ {k} : gs(a)[n] = files[n]
            BY <1>1, <1>3 DEF gs, NodeTable
        <3>2. gs(a)[k].first = first(a)
            BY <1>4, <1>8
        <3> HIDE DEF k, first
        <3> QED BY <2>5, <2>6, <3>1, <3>2
    <2>9. NoLeak => NoLeakIn(files', b.fat)
        BY <2>1, <2>8, NoLeakGrows
    <2> QED BY <1>8, <2>7, <2>9, NoLeakNext
<1> DEFINE index == SeekIndex(fd, r.off)
           short(a) == /\ files' = gs(a) /\ fat' = a.fat
                       /\ fd_array' = [fd_array EXCEPT ![fh] =
                             [fd EXCEPT !.first = first(a), !.cur = a.c, !.index = index]]
                       /\ UNCHANGED <<used_fds, handle>>
           full(a, b) ==
              /\ fat' = b.fat
              /\ fd_array' = [fd_array EXCEPT ![fh] =
                   [fd EXCEPT !.first = first(a), !.cur = b.c, !.size = size,
                              !.index = IF fills THEN index + 1 ELSE index]]
              /\ files' = [files EXCEPT ![k] = [node(a) EXCEPT !.size = IF big THEN size ELSE @]]
              /\ UNCHANGED <<used_fds, handle>>
<1>9. \/ GoWild
      \/ \E a \in FirstCluster(fd, cur) : short(a)
      \/ \E a \in FirstCluster(fd, cur) :
            (fills => a.c \in Cluster) /\ \E b \in IF fills THEN NextCluster(a) ELSE {a} : full(a, b)
    BY DEF fs_write, cur, gs, node, big, size, fills
<1> QED BY <1>6, <1>7, <1>8, <1>9

\* Every step keeps the open file's copies right and leaks nothing.
LEMMA StepLeak ==
    ASSUME Alone, Polite \/ "truncate" \notin Ops, TypeOK, Sync, [Next]_vars
    PROVE  Sync' /\ (NoLeak => NoLeak')
<1>1. ASSUME NEW path \in Paths, PathStep(path) PROVE Sync' /\ (NoLeak => NoLeak')
    <2>1. CASE fs_mknod(path)
        BY <2>1, CreateLeak DEF fs_mknod
    <2>2. CASE fs_mkdir(path)
        BY <2>2, CreateLeak DEF fs_mkdir
    <2>3. CASE fs_unlink(path)
        BY <2>3, UnlinkLeak DEF fs_unlink
    <2>4. CASE fs_rmdir(path)
        BY <2>4, UnlinkLeak DEF fs_rmdir
    <2> USE TypeParts
    <2>5. ASSUME NEW newpath \in Paths, fs_rename(path, newpath) PROVE Sync' /\ (NoLeak => NoLeak')
        BY <2>5, RenameNodes, KeepLeak DEF fs_rename
    <2>6. ASSUME NEW uid \in Uids, fs_chown(path, uid) PROVE Sync' /\ (NoLeak => NoLeak')
        BY <2>6, ChownNodes, KeepLeak DEF fs_chown
    <2>7. ASSUME NEW size \in 0 .. MaxSize, "truncate" \in Ops, fs_truncate(path, size)
          PROVE  Sync' /\ (NoLeak => NoLeak')
        BY <2>7, PoliteTruncate, KeepLeak
    <2> QED BY <1>1, <2>1, <2>2, <2>3, <2>4, <2>5, <2>6, <2>7 DEF PathStep
<1>2. ASSUME NEW h \in Handles, HandleStep(h) PROVE Sync' /\ (NoLeak => NoLeak')
    <2>1. ASSUME NEW path \in Paths, fs_open(h, path) PROVE Sync' /\ (NoLeak => NoLeak')
        BY <2>1, OpenLeak
    <2>2. CASE fs_release(h)
        BY <2>2, ReleaseLeak
    <2>3. ASSUME NEW off, NEW len, fs_read(h, off, len) PROVE Sync' /\ (NoLeak => NoLeak')
        BY <2>3, ReadLeak
    <2>4. ASSUME NEW r \in Requests, NEW v \in Vals \ {0}, NEW eio \in BOOLEAN,
                 fs_write(h, r.off, r.len, v, eio)
          PROVE  Sync' /\ (NoLeak => NoLeak')
        BY <2>4, WriteLeak
    <2> QED BY <1>2, <2>1, <2>2, <2>3, <2>4 DEF HandleStep
<1>3. CASE UNCHANGED vars
    BY <1>3, NoLeakIs, NoLeakNext DEF vars, Sync
<1> QED BY <1>1, <1>2, <1>3 DEF Next

\* While files are open one at a time and are not truncated across clusters, every
\* cluster in use belongs to a file, the one nandfs_write allocates ahead of the end
\* included, whether or not reads fail and space runs out: nandfs_unlink frees all
\* of them.
THEOREM NothingLeaks ==
    ASSUME Alone, Polite \/ "truncate" \notin Ops, NoLeakIn(InitFiles, InitFat)
    PROVE  Spec => []NoLeak
<1>1. Init => LeakInv
    <2> SUFFICES ASSUME Init PROVE LeakInv
        OBVIOUS
    <2>1. Sync
        BY DEF Init, Sync
    <2>2. NoLeak
        BY NoLeakIs DEF Init
    <2> QED BY <2>1, <2>2, InitTypes DEF LeakInv
<1>2. LeakInv /\ [Next]_vars => LeakInv'
    BY StepTypes, StepLeak DEF LeakInv
<1>3. LeakInv => NoLeak
    BY DEF LeakInv
<1> QED BY <1>1, <1>2, <1>3, PTL DEF Spec

-----------------------------------------------------------------------------
(* What is read back *)

\* The clusters before one that is reached are reached.
LEMMA HopBefore ==
    ASSUME NEW f, NEW first, NEW k \in Nat, HopIn(f, first, k) \in Cluster, NEW i \in 0 .. k
    PROVE  HopIn(f, first, i) \in Cluster
<1> DEFINE Bad == {j \in 0 .. k : HopIn(f, first, k - j) \notin Cluster}
<1>1. SUFFICES Bad = {}
    <2>1. k - i \in 0 .. k /\ k - (k - i) = i
        OBVIOUS
    <2> QED BY <1>1, <2>1
<1>2. SUFFICES ASSUME Bad # {} PROVE FALSE
    OBVIOUS
<1>3. Bad \subseteq Nat /\ \A j : j \in Bad <=> j \in 0 .. k /\ HopIn(f, first, k - j) \notin Cluster
    OBVIOUS
<1> HIDE DEF Bad
<1>4. PICK j \in Bad : \A l \in Bad : j <= l
    BY <1>2, <1>3, LeastNumber
<1>5. j # 0
    <2>1. k - 0 = k
        OBVIOUS
    <2> QED BY <1>3, <1>4, <2>1
<1>6. j - 1 \in 0 .. k /\ j - 1 \notin Bad /\ k - (j - 1) = (k - j) + 1 /\ k - j \in Nat
    BY <1>3, <1>4, <1>5
<1>7. HopIn(f, first, (k - j) + 1) \in Cluster
    BY <1>3, <1>6
<1>8. HopIn(f, first, (k - j) + 1) =
        IF HopIn(f, first, k - j) \in Cluster THEN f[HopIn(f, first, k - j)] ELSE Lost
    BY <1>6, HopInLinks
<1>9. Lost \notin Cluster
    BY NandFsConstants DEF Lost, Cluster
<1> QED BY <1>3, <1>4, <1>7, <1>8, <1>9

\* The link that leads on from a cluster that is not the last one reached.
LEMMA HopLink ==
    ASSUME NEW f, NEW first, NEW k \in Nat \ {0}, HopIn(f, first, k) \in Cluster
    PROVE  /\ HopIn(f, first, k - 1) \in Cluster
           /\ HopIn(f, first, k) = f[HopIn(f, first, k - 1)]
<1>1. k - 1 \in Nat /\ (k - 1) + 1 = k /\ k - 1 \in 0 .. k
    OBVIOUS
<1>2. HopIn(f, first, k - 1) \in Cluster
    BY <1>1, HopBefore
<1>3. HopIn(f, first, (k - 1) + 1) =
        IF HopIn(f, first, k - 1) \in Cluster THEN f[HopIn(f, first, k - 1)] ELSE Lost
    BY <1>1, HopInLinks
<1> QED BY <1>1, <1>2, <1>3

\* A walk over clusters whose links stay leads where it did.
LEMMA HopKept ==
    ASSUME NEW f, NEW g, NEW first, NEW k \in Nat, HopIn(f, first, k) \in Cluster,
           \A i \in 0 .. k - 1 : g[HopIn(f, first, i)] = f[HopIn(f, first, i)]
    PROVE  HopIn(g, first, k) = HopIn(f, first, k)
<1> DEFINE Bad == {i \in 0 .. k : HopIn(g, first, i) # HopIn(f, first, i)}
<1>1. SUFFICES ASSUME Bad # {} PROVE FALSE
    OBVIOUS
<1>2. Bad \subseteq Nat /\ \A i : i \in Bad <=> i \in 0 .. k /\ HopIn(g, first, i) # HopIn(f, first, i)
    OBVIOUS
<1> HIDE DEF Bad
<1>3. PICK i \in Bad : \A l \in Bad : i <= l
    BY <1>1, <1>2, LeastNumber
<1>4. i # 0
    BY <1>2, <1>3, HopInLinks
<1>5. /\ i - 1 \in 0 .. k /\ i - 1 \in 0 .. k - 1 /\ i - 1 \notin Bad
      /\ (i - 1) + 1 = i /\ i - 1 \in Nat
    BY <1>2, <1>3, <1>4
<1> DEFINE c == HopIn(f, first, i - 1)
<1>6. HopIn(g, first, i - 1) = c /\ c \in Cluster /\ g[c] = f[c]
    BY <1>2, <1>5, HopBefore
<1>7. HopIn(f, first, (i - 1) + 1) =
        IF HopIn(f, first, i - 1) \in Cluster THEN f[HopIn(f, first, i - 1)] ELSE Lost
    BY <1>5, HopInLinks
<1>8. HopIn(g, first, (i - 1) + 1) =
        IF HopIn(g, first, i - 1) \in Cluster THEN g[HopIn(g, first, i - 1)] ELSE Lost
    BY <1>5, HopInLinks
<1> HIDE DEF c
<1>9. HopIn(f, first, i) = f[c]
    BY <1>5, <1>6, <1>7 DEF c
<1>10. HopIn(g, first, i) = g[c]
    BY <1>5, <1>6, <1>8
<1> QED BY <1>2, <1>3, <1>6, <1>9, <1>10

\* Links to clusters are enough.
LEMMA HopGrows ==
    ASSUME NEW f, NEW g, NEW first, NEW k \in Nat, HopIn(f, first, k) \in Cluster,
           \A c \in Cluster : f[c] \in Cluster => g[c] = f[c]
    PROVE  HopIn(g, first, k) = HopIn(f, first, k)
<1>1. ASSUME NEW i \in 0 .. k - 1 PROVE g[HopIn(f, first, i)] = f[HopIn(f, first, i)]
    <2>1. i + 1 \in 0 .. k /\ i + 1 \in Nat \ {0} /\ (i + 1) - 1 = i
        OBVIOUS
    <2>2. HopIn(f, first, i + 1) \in Cluster
        BY <2>1, HopBefore
    <2>3. HopIn(f, first, i) \in Cluster /\ f[HopIn(f, first, i)] \in Cluster
        BY <2>1, <2>2, HopLink
    <2> QED BY <2>3
<1> QED BY <1>1, HopKept

\* The place of a cluster: whose file it is, and where in it.  No cluster has two.
LEMMA HopDistinct ==
    ASSUME NEW fs, NEW f, LinksOK(f), FirstsOK(fs, f),
           NEW n \in Node, fs[n].attr = 1, NEW j \in Nat,
           NEW m \in Node, fs[m].attr = 1, NEW k \in Nat,
           HopIn(f, fs[n].first, j) \in Cluster,
           HopIn(f, fs[n].first, j) = HopIn(f, fs[m].first, k)
    PROVE  n = m /\ j = k
<1> DEFINE Clash(a, i) ==
        \E b \in Node, l \in Nat :
            /\ fs[b].attr = 1 /\ HopIn(f, fs[a].first, i) \in Cluster
            /\ HopIn(f, fs[a].first, i) = HopIn(f, fs[b].first, l)
            /\ ~(a = b /\ i = l)
           Bad == {i \in Nat : \E a \in Node : fs[a].attr = 1 /\ Clash(a, i)}
<1>1. SUFFICES Bad = {}
    BY <1>1
<1>2. SUFFICES ASSUME Bad # {} PROVE FALSE
    OBVIOUS
<1>3. Bad \subseteq Nat /\ \A i : i \in Bad <=> i \in Nat /\ \E a \in Node : fs[a].attr = 1 /\ Clash(a, i)
    OBVIOUS
<1> HIDE DEF Bad
<1>4. PICK i \in Bad : \A l \in Bad : i <= l
    BY <1>2, <1>3, LeastNumber
<1>5. PICK a \in Node : fs[a].attr = 1 /\ Clash(a, i)
    BY <1>3, <1>4
<1>6. PICK b \in Node, l \in Nat :
            /\ fs[b].attr = 1 /\ HopIn(f, fs[a].first, i) \in Cluster
            /\ HopIn(f, fs[a].first, i) = HopIn(f, fs[b].first, l)
            /\ ~(a = b /\ i = l)
    BY <1>5
<1>7. i \in Nat
    BY <1>3, <1>4
<1>8. i = 0 => l # 0
    <2>1. ASSUME i = 0, l = 0 PROVE FALSE
        <3>1. fs[a].first \in Cluster /\ fs[a].first = fs[b].first
            BY <1>6, <2>1, HopInLinks
        <3> QED BY <1>5, <1>6, <2>1, <3>1 DEF FirstsOK
    <2> QED BY <2>1
\* No link leads to a first cluster.
<1>9. ASSUME NEW e \in Node, fs[e].attr = 1, NEW q \in Nat \ {0}, NEW o \in Node, fs[o].attr = 1,
             HopIn(f, fs[e].first, q) \in Cluster, HopIn(f, fs[e].first, q) = fs[o].first
      PROVE  FALSE
    <2>1. HopIn(f, fs[e].first, q - 1) \in Cluster
          /\ HopIn(f, fs[e].first, q) = f[HopIn(f, fs[e].first, q - 1)]
        BY <1>9, HopLink
    <2> QED BY <1>9, <2>1 DEF FirstsOK
<1>10. i # 0 /\ l # 0
    <2>1. CASE i = 0
        <3>1. l \in Nat \ {0} /\ HopIn(f, fs[a].first, 0) = fs[a].first
            BY <1>8, <2>1, HopInLinks
        <3> QED BY <1>5, <1>6, <1>9, <2>1, <3>1
    <2>2. CASE i # 0 /\ l = 0
        <3>1. i \in Nat \ {0} /\ HopIn(f, fs[b].first, 0) = fs[b].first
            BY <1>7, <2>2, HopInLinks
        <3> QED BY <1>5, <1>6, <1>9, <2>2, <3>1
    <2> QED BY <2>1, <2>2
<1>11. i \in Nat \ {0} /\ l \in Nat \ {0} /\ i - 1 \in Nat /\ l - 1 \in Nat
    BY <1>6, <1>7, <1>10
<1>12. /\ HopIn(f, fs[a].first, i - 1) \in Cluster
       /\ HopIn(f, fs[a].first, i) = f[HopIn(f, fs[a].first, i - 1)]
    BY <1>6, <1>11, HopLink
<1>13. /\ HopIn(f, fs[b].first, l - 1) \in Cluster
       /\ HopIn(f, fs[b].first, l) = f[HopIn(f, fs[b].first, l - 1)]
    BY <1>6, <1>11, HopLink
<1>14. HopIn(f, fs[a].first, i - 1) = HopIn(f, fs[b].first, l - 1)
    BY <1>6, <1>12, <1>13 DEF LinksOK
<1>15. ~(a = b /\ i - 1 = l - 1)
    BY <1>6, <1>11
<1>16. Clash(a, i - 1)
    BY <1>6, <1>11, <1>12, <1>14, <1>15
<1>17. i - 1 \in Bad
    BY <1>3, <1>5, <1>11, <1>16
<1> QED BY <1>4, <1>7, <1>17

\* The clusters of a file are in use.
LEMMA HopInUse ==
    ASSUME NEW fs, NEW f, LinksOK(f), FirstsOK(fs, f),
           NEW n \in Node, fs[n].attr = 1, NEW k \in Nat, HopIn(f, fs[n].first, k) \in Cluster
    PROVE  f[HopIn(f, fs[n].first, k)] \notin {FREE, RESV}
<1>1. CASE k = 0
    <2>1. HopIn(f, fs[n].first, k) = fs[n].first
        BY <1>1, HopInLinks
    <2> QED BY <2>1 DEF FirstsOK, InUse
<1>2. CASE k # 0
    <2>1. k \in Nat \ {0}
        BY <1>2
    <2>2. HopIn(f, fs[n].first, k - 1) \in Cluster
          /\ HopIn(f, fs[n].first, k) = f[HopIn(f, fs[n].first, k - 1)]
        BY <2>1, HopLink
    <2> QED BY <2>2 DEF LinksOK, InUse
<1> QED BY <1>1, <1>2

\* Names, owners and sizes stay.
SameMeta(fs, gs) ==
    \A n \in Node : gs[n].name = fs[n].name /\ gs[n].uid = fs[n].uid /\ gs[n].size = fs[n].size

LEMMA RecordMeta ==
    ASSUME NEW r \in NodeRecord, NEW x
    PROVE  /\ LET q == [r EXCEPT !.first = x]
              IN  q.name = r.name /\ q.uid = r.uid /\ q.size = r.size
           /\ LET q == [r EXCEPT !.sibling = x]
              IN  q.name = r.name /\ q.uid = r.uid /\ q.size = r.size
BY DEF NodeRecord

LEMMA LinkChildMeta ==
    ASSUME NEW fs \in NodeTable, NEW d \in Node, NEW n \in Node
    PROVE  SameMeta(fs, LinkChild(fs, d, n))
<1>1. \A m \in Node : fs[m] \in NodeRecord
    BY DEF NodeTable
<1>2. CASE fs[d].first = Nil
    <2>1. LinkChild(fs, d, n) = [fs EXCEPT ![d] = [fs[d] EXCEPT !.first = n]]
        BY <1>2 DEF LinkChild
    <2> DEFINE r == [fs[d] EXCEPT !.first = n]
    <2>2. r.name = fs[d].name /\ r.uid = fs[d].uid /\ r.size = fs[d].size
        BY <1>1, RecordMeta
    <2> HIDE DEF r
    <2>3. SameMeta(fs, [fs EXCEPT ![d] = r])
        BY <2>2 DEF SameMeta, NodeTable
    <2> QED BY <2>1, <2>3 DEF r
<1>3. CASE fs[d].first # Nil
    <2>1. PICK last : LinkChild(fs, d, n) =
              [m \in Node |-> IF m \in last THEN [fs[m] EXCEPT !.sibling = n] ELSE fs[m]]
        BY <1>3 DEF LinkChild
    <2>2. \A m \in Node : /\ [fs[m] EXCEPT !.sibling = n].name = fs[m].name
                          /\ [fs[m] EXCEPT !.sibling = n].uid = fs[m].uid
                          /\ [fs[m] EXCEPT !.sibling = n].size = fs[m].size
        BY <1>1, RecordMeta
    <2> QED BY <2>1, <2>2 DEF SameMeta, NodeTable
<1> QED BY <1>2, <1>3

LEMMA UnlinkChildMeta ==
    ASSUME NEW fs \in NodeTable, NEW d \in Node, NEW n \in Node
    PROVE  SameMeta(fs, UnlinkChild(fs, d, n))
<1> DEFINE next == fs[n].sibling
<1>1. \A m \in Node : fs[m] \in NodeRecord
    BY DEF NodeTable
<1>2. CASE fs[d].first = Nil
    BY <1>2 DEF UnlinkChild, SameMeta
<1>3. CASE fs[d].first # Nil /\ fs[d].first = n
    <2>1. UnlinkChild(fs, d, n) = [fs EXCEPT ![d] = [fs[d] EXCEPT !.first = next]]
        BY <1>3 DEF UnlinkChild
    <2> DEFINE r == [fs[d] EXCEPT !.first = next]
    <2>2. r.name = fs[d].name /\ r.uid = fs[d].uid /\ r.size = fs[d].size
        BY <1>1, RecordMeta
    <2> HIDE DEF r
    <2>3. SameMeta(fs, [fs EXCEPT ![d] = r])
        BY <2>2 DEF SameMeta, NodeTable
    <2> QED BY <2>1, <2>3 DEF r
<1>4. CASE fs[d].first # Nil /\ fs[d].first # n
    <2>1. PICK pred : UnlinkChild(fs, d, n) =
              [m \in Node |-> IF m \in pred THEN [fs[m] EXCEPT !.sibling = next] ELSE fs[m]]
        BY <1>4 DEF UnlinkChild
    <2> HIDE DEF next
    <2>2. \A m \in Node : /\ [fs[m] EXCEPT !.sibling = next].name = fs[m].name
                          /\ [fs[m] EXCEPT !.sibling = next].uid = fs[m].uid
                          /\ [fs[m] EXCEPT !.sibling = next].size = fs[m].size
        BY <1>1, RecordMeta
    <2> QED BY <2>1, <2>2 DEF SameMeta, NodeTable
<1> QED BY <1>2, <1>3, <1>4

LEMMA CreateMeta ==
    ASSUME files \in NodeTable, NEW path \in Paths, NEW type \in {1, 2},
           NEW d \in OpenParent(files, path), NEW n \in EmptyNode,
           NEW gs, gs = Created(path, type, d, n)
    PROVE  /\ gs[n].size = 0
           /\ \A m \in Node \ {n} : gs[m].name = files[m].name /\ gs[m].uid = files[m].uid
                                    /\ gs[m].size = files[m].size
<1> DEFINE r == NewNode(path, type)
           fs == [files EXCEPT ![n] = r]
<1>1. d \in Node /\ n \in Node
    BY ParentFinds DEF EmptyNode
<1>2. r \in NodeRecord /\ r.size = 0
    <2>1. path.base \in Names /\ 0 \in Uids /\ 0 \in 0 .. MaxSize
        BY NandFsConstants
    <2>2. Nil \in Link /\ type \in Type
        BY DEF Link, Type
    <2> QED BY <2>1, <2>2 DEF NewNode, NodeRecord
<1>3. gs = LinkChild(fs, d, n)
    BY DEF Created
<1> HIDE DEF r
<1>4. /\ fs \in NodeTable /\ fs[n] = r
      /\ \A m \in Node \ {n} : fs[m] = files[m]
    BY <1>1, <1>2 DEF NodeTable
<1> HIDE DEF fs
<1>5. SameMeta(fs, gs)
    BY <1>1, <1>3, <1>4, LinkChildMeta
<1> QED BY <1>1, <1>2, <1>4, <1>5 DEF SameMeta

LEMMA UnlinkMeta ==
    ASSUME files \in NodeTable, NEW path, NEW type, NEW n \in nandfs_open(files, path, type),
           NEW d \in OpenParent(files, path),
           NEW gs, gs = Removed(d, n)
    PROVE  \A m \in Node \ {n} : gs[m].name = files[m].name /\ gs[m].uid = files[m].uid
                                 /\ gs[m].size = files[m].size
<1> DEFINE us == UnlinkChild(files, d, n)
<1>1. d \in Node /\ files[d].attr = 2 /\ n \in Node
    BY ParentFinds, OpenFinds
<1>2. SameMeta(files, us) /\ us \in NodeTable
    BY <1>1, UnlinkChildMeta, UnlinkChildFiles DEF SameFiles
<1>3. gs = [us EXCEPT ![n] = ZeroNode]
    BY DEF Removed
<1> HIDE DEF us
<1> QED BY <1>1, <1>2, <1>3 DEF SameMeta, NodeTable

\* The place of unit p of a file: its cluster in the chain, and where in it.
Block(p) == (p - 1) \div U
Unit(p)  == (p - 1) % U

LEMMA Places ==
    ASSUME NEW p \in Nat \ {0}
    PROVE  /\ Block(p) \in Nat /\ Unit(p) \in 0 .. U - 1 /\ p - 1 = Block(p) * U + Unit(p)
           /\ \A size \in Nat : p <= size => Block(p) \in 0 .. size \div U
<1> DEFINE q == p - 1
<1>1. q \in Nat /\ U \in Nat /\ U > 0
    BY NandFsConstants
<1> HIDE DEF q
<1>2. q \div U \in Nat /\ q % U \in 0 .. U - 1 /\ q = (q \div U) * U + (q % U)
    <2>1. q \div U \in Nat /\ q % U \in 0 .. U - 1
        BY <1>1
    <2>2. q = U * (q \div U) + (q % U)
        BY <1>1
    <2>3. U * (q \div U) = (q \div U) * U
        BY <1>1, <2>1
    <2> QED BY <2>1, <2>2, <2>3
<1>3. ASSUME NEW size \in Nat, p <= size PROVE q \div U <= size \div U
    <2> DEFINE a == q \div U
               b == size \div U
    <2>1. a \in Nat /\ a * U <= q
        <3> DEFINE m == a * U
        <3>1. m \in Int /\ q = m + (q % U) /\ q % U \in 0 .. U - 1
            BY <1>1, <1>2
        <3> HIDE DEF m
        <3>2. m <= q
            BY <1>1, <3>1
        <3> QED BY <1>2, <3>2 DEF m
    <2>2. b \in Nat /\ size < (b + 1) * U
        <3>1. b \in Nat /\ size % U \in 0 .. U - 1 /\ size = U * b + (size % U)
            BY <1>1
        <3>2. (b + 1) * U = U * b + U
            BY <1>1, <3>1
        <3> DEFINE m == U * b
        <3>3. m \in Int
            BY <1>1, <3>1
        <3> HIDE DEF m, b
        <3>4. size < m + U
            BY <1>1, <3>1, <3>3 DEF m
        <3> QED BY <3>1, <3>2, <3>4 DEF m
    <2> HIDE DEF a, b
    <2>3. ASSUME b + 1 <= a PROVE FALSE
        <3>1. (b + 1) * U \in Int /\ a * U \in Int /\ (b + 1) * U <= a * U
            BY <1>1, <2>1, <2>2, <2>3, MulMonotone
        <3> DEFINE x == (b + 1) * U
                   y == a * U
        <3>2. x \in Int /\ y \in Int /\ x <= y /\ y <= q /\ size < x
            BY <2>1, <2>2, <3>1
        <3> HIDE DEF x, y
        <3>3. q < size
            BY <1>3 DEF q
        <3> QED BY <1>1, <3>2, <3>3
    <2>4. a <= b
        BY <2>1, <2>2, <2>3
    <2> QED BY <2>4 DEF a, b
<1>4. \A size \in Nat : p <= size => q \div U \in 0 .. size \div U
    <2> SUFFICES ASSUME NEW size \in Nat, p <= size PROVE q \div U \in 0 .. size \div U
        OBVIOUS
    <2>1. size \div U \in Nat
        BY <1>1
    <2> QED BY <1>2, <1>3, <2>1
<1> QED BY <1>2, <1>4 DEF q, Block, Unit

\* A larger file has no fewer clusters.
LEMMA BlocksMonotone ==
    ASSUME NEW a \in Nat, NEW b \in Nat, a <= b PROVE 0 .. a \div U \subseteq 0 .. b \div U
<1>1. CASE a = b
    BY <1>1
<1>2. CASE a < b
    <2>1. a + 1 \in Nat \ {0} /\ a + 1 <= b /\ (a + 1) - 1 = a
        BY <1>2
    <2>2. Block(a + 1) \in 0 .. b \div U
        BY <2>1, Places
    <2>3. a \div U \in 0 .. b \div U
        BY <2>1, <2>2 DEF Block
    <2>4. b \div U \in Int
        BY NandFsConstants
    <2> QED BY <2>3, <2>4
<1> QED BY <1>1, <1>2

\* The NAND has room: its last cluster is not one to allocate, and no allocation has
\* failed so far.
Room(f) == f[NC - 1] = RESV /\ \A c \in Cluster : f[c] \notin {NC, ENOSPC}

\* A file r is empty, or has its clusters, the one allocated ahead included.
Whole(f, r) ==
    \/ r.first = Nil /\ r.size = 0
    \/ \A k \in 0 .. r.size \div U : HopIn(f, r.first, k) \in Cluster

\* No file changes its name or owner, which the HMACs bind.
NamesStay == Ops \cap {"rename", "chown"} = {}

\* The HMAC of block k of the file r, node n.
MacOf(r, n, k) == [node |-> n, name |-> r.name, uid |-> r.uid, index |-> k]

\* The clusters of the file hold s, each under its HMAC.
Good(f, d, r, s, n) ==
    /\ r.size = Len(s)
    /\ \A p \in 1 .. r.size :
          LET c == HopIn(f, r.first, Block(p))
          IN  /\ c \in Cluster /\ d[c].val[Unit(p)] = s[p]
              /\ NamesStay => d[c].mac = MacOf(r, n, Block(p))

Stored(fs, f, d, ct) ==
    /\ Room(f)
    /\ \A n \in Node : fs[n].attr = 1 => Whole(f, fs[n]) /\ Good(f, d, fs[n], ct[n], n)

LEMMA StoredReads ==
    ASSUME Stored(files, fat, data, content)
    PROVE  \A n \in Files : Holds(n) /\ (NamesStay => Verifies(n))
<1> SUFFICES ASSUME NEW n \in Node, files[n].attr = 1
             PROVE  Holds(n) /\ (NamesStay => Verifies(n))
    BY DEF Files
<1>1. Good(fat, data, files[n], content[n], n)
    BY DEF Stored
<1>2. \A k : Hop(files[n].first, k) = HopIn(fat, files[n].first, k)
    BY HopIs
<1>3. Holds(n)
    BY <1>1, <1>2 DEF Good, Holds, Block, Unit
<1>4. NamesStay => Verifies(n)
    BY <1>1, <1>2 DEF Good, Verifies, Block, MacOf, MacFor
<1> QED BY <1>3, <1>4

\* The clusters of a whole file, and the places of its units among them.
LEMMA WholeBlocks ==
    ASSUME NEW f, NEW r, r.size \in Nat, Whole(f, r), NEW p \in 1 .. r.size
    PROVE  Block(p) \in 0 .. r.size \div U /\ HopIn(f, r.first, Block(p)) \in Cluster
<1>1. p \in Nat \ {0} /\ p <= r.size /\ r.size # 0
    OBVIOUS
<1>2. Block(p) \in 0 .. r.size \div U
    BY <1>1, Places
<1> QED BY <1>1, <1>2 DEF Whole

\* A file that keeps its clusters and what is in them, and may lose its tail.
LEMMA KeepFile ==
    ASSUME NEW f, NEW g, NEW d, NEW e, NEW n, NEW r, NEW q, NEW s, NEW t,
           Whole(f, r), Good(f, d, r, s, n), r.size \in Nat, q.size \in Nat,
           q.first = r.first, NamesStay => q.name = r.name /\ q.uid = r.uid,
           q.size <= r.size, Len(t) = q.size, \A p \in 1 .. q.size : t[p] = s[p],
           \A k \in Nat : HopIn(f, r.first, k) \in Cluster =>
               /\ HopIn(g, r.first, k) = HopIn(f, r.first, k)
               /\ e[HopIn(f, r.first, k)] = d[HopIn(f, r.first, k)]
    PROVE  Whole(g, q) /\ Good(g, e, q, t, n)
<1>1. 0 .. q.size \div U \subseteq 0 .. r.size \div U
    BY BlocksMonotone
<1>2. \A k \in 0 .. q.size \div U : k \in Nat
    BY NandFsConstants
<1>3. Whole(g, q)
    <2>1. CASE r.first = Nil /\ r.size = 0
        BY <2>1 DEF Whole
    <2>2. CASE \A k \in 0 .. r.size \div U : HopIn(f, r.first, k) \in Cluster
        BY <1>1, <1>2, <2>2 DEF Whole
    <2> QED BY <2>1, <2>2 DEF Whole
<1>4. Good(g, e, q, t, n)
    <2> SUFFICES ASSUME NEW p \in 1 .. q.size
                 PROVE  LET c == HopIn(g, q.first, Block(p))
                        IN  /\ c \in Cluster /\ e[c].val[Unit(p)] = t[p]
                            /\ NamesStay => e[c].mac = MacOf(q, n, Block(p))
        BY DEF Good
    <2>1. p \in 1 .. r.size /\ p \in Nat \ {0}
        OBVIOUS
    <2>2. Block(p) \in Nat
        BY <2>1, Places
    <2> DEFINE c == HopIn(f, r.first, Block(p))
    <2>3. /\ c \in Cluster /\ d[c].val[Unit(p)] = s[p]
          /\ NamesStay => d[c].mac = MacOf(r, n, Block(p))
        BY <2>1 DEF Good
    <2>4. HopIn(g, q.first, Block(p)) = c /\ e[c] = d[c]
        BY <2>2, <2>3
    <2>5. (NamesStay => MacOf(q, n, Block(p)) = MacOf(r, n, Block(p))) /\ t[p] = s[p]
        BY DEF MacOf
    <2> HIDE DEF c
    <2> QED BY <2>3, <2>4, <2>5
<1> QED BY <1>3, <1>4

\* A file that keeps its clusters and what is in them.
LEMMA SameFile ==
    ASSUME NEW f, NEW g, NEW d, NEW e, NEW n, NEW r, NEW s,
           Whole(f, r), Good(f, d, r, s, n), r.size \in Nat,
           \A k \in Nat : HopIn(f, r.first, k) \in Cluster =>
               /\ HopIn(g, r.first, k) = HopIn(f, r.first, k)
               /\ e[HopIn(f, r.first, k)] = d[HopIn(f, r.first, k)]
    PROVE  Whole(g, r) /\ Good(g, e, r, s, n)
<1>1. Len(s) = r.size /\ r.size <= r.size
    BY DEF Good
<1>2. \A p \in 1 .. r.size : s[p] = s[p]
    OBVIOUS
<1> QED BY <1>1, <1>2, KeepFile

\* Where there is room, an allocation finds a cluster or says that there is none.
LEMMA AllocateRoom ==
    ASSUME NEW f \in Table, Room(f), NEW a \in nandfs_allocatecluster(f), ~a.full
    PROVE  /\ a.c \in Cluster /\ f[a.c] = FREE /\ a.c # NC - 1
           /\ a.fat = [f EXCEPT ![a.c] = EOC] /\ Room(a.fat)
<1>1. FREE # RESV /\ NC - 1 \in Cluster /\ EOC \notin {NC, ENOSPC}
    BY NandFsConstants DEF FREE, RESV, Cluster, EOC, ENOSPC
<1>2. NC - 1 \notin LowestFree(f)
    BY <1>1 DEF Room, LowestFree
<1>3. a.c # ENOSPC \/ a.c \in LowestFree(f)
    BY <1>2, NandFsConstants DEF nandfs_allocatecluster, LowestFree, ENOSPC, Cluster
<1>4. a.c \in LowestFree(f)
    BY <1>2 DEF nandfs_allocatecluster
<1>5. a.c \in Cluster /\ f[a.c] = FREE /\ a.c # NC - 1
    BY <1>2, <1>4 DEF LowestFree
<1>6. a.fat = [f EXCEPT ![a.c] = EOC]
    <2>1. \A x : x \in {y \in {0} : LowestFree(f) = {}} => FALSE
        BY <1>4
    <2> QED BY <1>2, <2>1 DEF nandfs_allocatecluster
<1>7. Room(a.fat)
    BY <1>1, <1>5, <1>6 DEF Room, Table
<1> QED BY <1>5, <1>6, <1>7

\* Every cluster of a chain is reached.
LEMMA ChainHops ==
    ASSUME NEW first, NEW c \in Chain(first) PROVE \E k \in Nat : c = HopIn(fat, first, k)
<1> DEFINE T == {t \in Cluster : \E k \in Nat : t = HopIn(fat, first, k)}
<1>1. T \in SUBSET Cluster
    OBVIOUS
<1>2. first \in Cluster => first \in T
    <2>1. 0 \in Nat /\ first = HopIn(fat, first, 0)
        BY HopInLinks
    <2> QED BY <2>1
<1>3. ASSUME NEW t \in T, fat[t] \in Cluster PROVE fat[t] \in T
    <2>1. PICK k \in Nat : t = HopIn(fat, first, k)
        OBVIOUS
    <2>2. k + 1 \in Nat /\ HopIn(fat, first, k + 1) = fat[t]
        BY <2>1, HopInLinks
    <2> QED BY <1>3, <2>2
<1> HIDE DEF T
<1>4. Chain(first) \subseteq T
    BY <1>1, <1>2, <1>3, ChainMinimal
<1> QED BY <1>4 DEF T

\* Removing a file frees no reserved cluster ...
LEMMA FreedRoom ==
    ASSUME FatInv, Room(fat), NEW n \in Node, files[n].attr = 1
    PROVE  Room(Freed(files[n].first))
<1> DEFINE T == {c \in Cluster : fat[c] # RESV}
           first == files[n].first
<1>1. first \in Cluster => first \in T
    BY DEF FatInv, FatOK, FirstsOK, InUse
<1>2. \A t \in T : fat[t] \in Cluster => fat[t] \in T
    BY DEF FatInv, FatOK, LinksOK, InUse
<1>3. T \in SUBSET Cluster
    OBVIOUS
<1> HIDE DEF T, first
<1>4. Chain(first) \subseteq T
    BY <1>1, <1>2, <1>3, ChainMinimal
<1>5. NC - 1 \in Cluster /\ FREE \notin {NC, ENOSPC}
    BY NandFsConstants DEF Cluster, FREE, ENOSPC
<1>6. NC - 1 \notin Chain(first)
    BY <1>4 DEF T, Room
<1> QED BY <1>5, <1>6 DEF Freed, Room, first

\* ... and no cluster of another.
LEMMA FreedHops ==
    ASSUME FatInv, NEW n \in Node, files[n].attr = 1, NEW m \in Node \ {n}, files[m].attr = 1,
           NEW k \in Nat, HopIn(fat, files[m].first, k) \in Cluster
    PROVE  HopIn(Freed(files[n].first), files[m].first, k) = HopIn(fat, files[m].first, k)
<1> DEFINE g == Freed(files[n].first)
<1>1. ASSUME NEW i \in 0 .. k - 1
      PROVE  g[HopIn(fat, files[m].first, i)] = fat[HopIn(fat, files[m].first, i)]
    <2> DEFINE c == HopIn(fat, files[m].first, i)
    <2>1. i \in 0 .. k /\ i \in Nat
        OBVIOUS
    <2>2. c \in Cluster
        BY <2>1, HopBefore
    <2>3. c \notin Chain(files[n].first)
        <3> SUFFICES ASSUME c \in Chain(files[n].first) PROVE FALSE
            OBVIOUS
        <3>1. PICK j \in Nat : c = HopIn(fat, files[n].first, j)
            BY ChainHops
        <3> QED BY <2>1, <2>2, <3>1, HopDistinct DEF FatInv, FatOK
    <2> HIDE DEF c
    <2>4. g[c] = fat[c]
        BY <2>2, <2>3 DEF Freed
    <2> QED BY <2>4 DEF c
<1> HIDE DEF g
<1>2. HopIn(g, files[m].first, k) = HopIn(fat, files[m].first, k)
    BY <1>1, HopKept
<1> QED BY <1>2 DEF g

\* The slot of the open file has its size.
Sizes ==
    \A h \in Handles : handle[h] # NoHandle =>
        fd_array[handle[h].fh].size = files[handle[h].node].size

\* Once the table is full, the name of files[0] is gone and no file is found.
Intact == rootok => Stored(files, fat, data, content)

ReadInv == TypeOK /\ FatOK /\ Sync /\ Sizes /\ Intact

LEMMA WildIntact == ASSUME Sizes, Intact, GoWild PROVE Sizes' /\ Intact'
BY DEF GoWild, Sizes, Intact

\* The open files keep their sizes.
LEMMA KeepSizes ==
    ASSUME TypeOK, Sync, Sizes, UNCHANGED <<fd_array, handle>>,
           \A n \in Node : n \in OpenNodes /\ files[n].attr = 1 => files'[n].size = files[n].size
    PROVE  Sizes'
<1> SUFFICES ASSUME NEW h \in Handles, handle[h] # NoHandle
             PROVE  fd_array[handle[h].fh].size = files'[handle[h].node].size
    BY DEF Sizes
<1>1. handle[h].node \in Node /\ handle[h].node \in OpenNodes /\ files[handle[h].node].attr = 1
    BY OpenFile DEF OpenNodes, Sync
<1> QED BY <1>1 DEF Sizes

\* The file sizes are natural numbers.
LEMMA FileSize ==
    ASSUME NEW fs \in NodeTable, NEW n \in Node PROVE fs[n].size \in Nat
<1>1. fs[n] \in NodeRecord
    BY DEF NodeTable
<1>2. fs[n].size \in 0 .. MaxSize
    BY <1>1 DEF NodeRecord
<1> QED BY <1>2

\* A new file is empty.
LEMMA CreateIntact ==
    ASSUME ReadInv, NEW path \in Paths, NEW type \in {1, 2}, nandfs_create(path, type)
    PROVE  Sizes' /\ Intact'
<1>1. CASE GoWild
    BY <1>1, WildIntact DEF ReadInv
<1>2. ASSUME NEW d \in OpenParent(files, path), NEW n \in EmptyNode,
             files' = Created(path, type, d, n), content' = [content EXCEPT ![n] = <<>>],
             UNCHANGED <<fat, rootok, data, used_fds, fd_array, handle>>
      PROVE  Sizes' /\ Intact'
    <2>1. files \in NodeTable /\ content \in ContentTable
        BY TypeParts DEF ReadInv
    <2>2. /\ n \in Node /\ files[n].attr = 0 /\ (type = 1 => files'[n].first = Nil)
          /\ files'[n].attr = type
          /\ \A m \in Node \ {n} : /\ files'[m].attr = files[m].attr
                                   /\ files'[m].attr = 1 => files'[m].first = files[m].first
        BY <1>2, <2>1, CreateNodes
    <2>3. /\ files'[n].size = 0
          /\ \A m \in Node \ {n} : files'[m].name = files[m].name /\ files'[m].uid = files[m].uid
                                   /\ files'[m].size = files[m].size
        BY <1>2, <2>1, CreateMeta
    <2>4. Sizes'
        <3>1. \A m \in Node : files[m].attr = 1 => m # n
            BY <2>2
        <3> QED BY <1>2, <2>3, <3>1, KeepSizes DEF ReadInv
    <2>5. /\ content'[n] = <<>>
          /\ \A m \in Node \ {n} : content'[m] = content[m]
        BY <1>2, <2>1, <2>2 DEF ContentTable
    <2>6. Intact'
        <3> SUFFICES ASSUME rootok' PROVE Stored(files', fat', data', content')
            BY DEF Intact
        <3>1. Stored(files, fat, data, content)
            BY <1>2 DEF ReadInv, Intact
        <3>2. ASSUME NEW m \in Node, files'[m].attr = 1
              PROVE  Whole(fat', files'[m]) /\ Good(fat', data', files'[m], content'[m], m)
            <4>1. CASE m = n
                <5>1. files'[m].first = Nil /\ files'[m].size = 0 /\ content'[m] = <<>>
                    BY <2>2, <2>3, <2>5, <3>2, <4>1
                <5>2. Len(<<>>) = 0 /\ 1 .. 0 = {}
                    OBVIOUS
                <5> QED BY <5>1, <5>2 DEF Whole, Good
            <4>2. CASE m # n
                <5>1. files[m].attr = 1 /\ files'[m].first = files[m].first
                      /\ files'[m].name = files[m].name /\ files'[m].uid = files[m].uid
                      /\ files'[m].size = files[m].size /\ content'[m] = content[m]
                    BY <2>2, <2>3, <2>5, <3>2, <4>2
                <5>2. Whole(fat, files[m]) /\ Good(fat, data, files[m], content[m], m)
                    BY <3>1, <5>1 DEF Stored
                <5> QED BY <1>2, <5>1, <5>2 DEF Whole, Good, MacOf
            <4> QED BY <4>1, <4>2
        <3>3. Room(fat')
            BY <1>2, <3>1 DEF Stored
        <3> QED BY <3>2, <3>3 DEF Stored
    <2> QED BY <2>4, <2>6
<1> QED BY <1>1, <1>2 DEF nandfs_create, Created

\* A removal leaves the other files what they were.
LEMMA UnlinkIntact ==
    ASSUME ReadInv, NEW path \in Paths, NEW type \in {1, 2}, NEW n \in Node,
           type = 1 => n \notin OpenNodes, nandfs_unlink(path, type, n)
    PROVE  Sizes' /\ Intact'
<1>1. CASE GoWild
    BY <1>1, WildIntact DEF ReadInv
<1>2. ASSUME NEW d \in OpenParent(files, path), n \in nandfs_open(files, path, type),
             files' = Removed(d, n), content' = [content EXCEPT ![n] = <<>>],
             fat' = IF type = 1 THEN Freed(files[n].first) ELSE fat,
             UNCHANGED <<rootok, data, used_fds, fd_array, handle>>
      PROVE  Sizes' /\ Intact'
    <2>1. files \in NodeTable /\ content \in ContentTable
        BY TypeParts DEF ReadInv
    <2>2. /\ files[n].attr = type /\ files'[n].attr = 0
          /\ \A m \in Node \ {n} : /\ files'[m].attr = files[m].attr
                                   /\ files'[m].attr = 1 => files'[m].first = files[m].first
        BY <1>2, <2>1, UnlinkNodes
    <2>3. \A m \in Node \ {n} : files'[m].name = files[m].name /\ files'[m].uid = files[m].uid
                                /\ files'[m].size = files[m].size
        BY <1>2, <2>1, UnlinkMeta
    <2>4. Sizes'
        <3>1. \A m \in Node : m \in OpenNodes /\ files[m].attr = 1 => m # n
            BY <2>2
        <3> QED BY <1>2, <2>3, <3>1, KeepSizes DEF ReadInv
    <2>5. \A m \in Node \ {n} : content'[m] = content[m]
        BY <1>2, <2>1 DEF ContentTable
    <2>6. Intact'
        <3> SUFFICES ASSUME rootok' PROVE Stored(files', fat', data', content')
            BY DEF Intact
        <3>1. Stored(files, fat, data, content)
            BY <1>2 DEF ReadInv, Intact
        <3>2. FatInv
            BY TypeParts DEF ReadInv, FatInv
        <3>3. Room(fat')
            <4>1. CASE type = 1
                BY <1>2, <2>2, <3>1, <3>2, <4>1, FreedRoom DEF Stored
            <4>2. CASE type # 1
                BY <1>2, <3>1, <4>2 DEF Stored
            <4> QED BY <4>1, <4>2
        <3>4. ASSUME NEW m \in Node, files'[m].attr = 1
              PROVE  Whole(fat', files'[m]) /\ Good(fat', data', files'[m], content'[m], m)
            <4>1. m # n /\ m \in Node \ {n}
                BY <2>2, <3>4
            <4>2. files[m].attr = 1 /\ files'[m].first = files[m].first
                  /\ files'[m].name = files[m].name /\ files'[m].uid = files[m].uid
                  /\ files'[m].size = files[m].size /\ content'[m] = content[m]
                BY <2>2, <2>3, <2>5, <3>4, <4>1
            <4>3. Whole(fat, files[m]) /\ Good(fat, data, files[m], content[m], m)
                BY <3>1, <4>2 DEF Stored
            <4>4. ASSUME NEW k \in Nat, HopIn(fat, files[m].first, k) \in Cluster
                  PROVE  /\ HopIn(fat', files[m].first, k) = HopIn(fat, files[m].first, k)
                         /\ data'[HopIn(fat, files[m].first, k)] = data[HopIn(fat, files[m].first, k)]
                <5>1. CASE type = 1
                    BY <1>2, <2>2, <3>2, <4>1, <4>2, <4>4, <5>1, FreedHops
                <5>2. CASE type # 1
                    BY <1>2, <5>2
                <5> QED BY <1>2, <5>1, <5>2
            <4>5. /\ files[m].size \in Nat /\ files'[m].size \in Nat /\ files'[m].size <= files[m].size
                  /\ Len(content'[m]) = files'[m].size
                <5>1. files[m].size \in Nat
                    BY <2>1, FileSize
                <5>2. Len(content[m]) = files[m].size
                    BY <4>3 DEF Good
                <5> QED BY <4>2, <5>1, <5>2
            <4> DEFINE q == files'[m]
                       t == content'[m]
                       g == fat'
                       e == data'
            <4>6. /\ q.first = files[m].first /\ q.name = files[m].name /\ q.uid = files[m].uid
                  /\ q.size <= files[m].size /\ q.size \in Nat /\ Len(t) = q.size
                  /\ t = content[m]
                BY <4>2, <4>5
            <4>7. \A k \in Nat : HopIn(fat, files[m].first, k) \in Cluster =>
                    /\ HopIn(g, files[m].first, k) = HopIn(fat, files[m].first, k)
                    /\ e[HopIn(fat, files[m].first, k)] = data[HopIn(fat, files[m].first, k)]
                BY <4>4
            <4> HIDE DEF q, t, g, e
            <4>8. Whole(g, q) /\ Good(g, e, q, t, m)
                <5>1. \A p \in 1 .. q.size : t[p] = content[m][p]
                    BY <4>6
                <5>2. NamesStay => q.name = files[m].name /\ q.uid = files[m].uid
                    BY <4>6
                <5> DEFINE r == files[m]
                           s == content[m]
                <5>3. /\ Whole(fat, r) /\ Good(fat, data, r, s, m)
                      /\ r.size \in Nat /\ q.size \in Nat
                      /\ q.first = r.first /\ (NamesStay => q.name = r.name /\ q.uid = r.uid)
                      /\ q.size <= r.size /\ Len(t) = q.size
                    BY <4>3, <4>5, <4>6, <5>2
                <5>4. \A p \in 1 .. q.size : t[p] = s[p]
                    BY <5>1
                <5>5. \A k \in Nat : HopIn(fat, r.first, k) \in Cluster =>
                        /\ HopIn(g, r.first, k) = HopIn(fat, r.first, k)
                        /\ e[HopIn(fat, r.first, k)] = data[HopIn(fat, r.first, k)]
                    BY <4>7
                <5> HIDE DEF r, s
                <5> QED BY <5>3, <5>4, <5>5, KeepFile
            <4> QED BY <4>8 DEF q, t, g, e
        <3> QED BY <3>3, <3>4 DEF Stored
    <2> QED BY <2>4, <2>6
<1> QED BY <1>1, <1>2 DEF nandfs_unlink, Removed

\* A shorter sequence is the beginning of a longer one.
LEMMA Shorter ==
    ASSUME NEW s, NEW size \in Nat, size <= Len(s), Len(s) \in Nat
    PROVE  Len(Resized(s, size)) = size /\ \A p \in 1 .. size : Resized(s, size)[p] = s[p]
<1>1. \A p \in 1 .. size : Resized(s, size)[p] = s[p]
    BY DEF Resized
<1>2. DOMAIN Resized(s, size) = 1 .. size
    BY DEF Resized
<1>3. Resized(s, size) \in Seq({Resized(s, size)[p] : p \in 1 .. size})
    <2> DEFINE t == Resized(s, size)
               S == {t[p] : p \in 1 .. size}
    <2>1. t = [p \in 1 .. size |-> t[p]]
        BY DEF Resized
    <2> HIDE DEF t
    <2>2. \A p \in 1 .. size : t[p] \in S
        OBVIOUS
    <2> HIDE DEF S
    <2>3. t \in [1 .. size -> S]
        BY <2>1, <2>2
    <2>4. t \in Seq(S)
        BY <2>3
    <2> QED BY <2>4 DEF S, t
<1> DEFINE t == Resized(s, size)
<1>4. DOMAIN t = 1 .. Len(t) /\ Len(t) \in Nat
    BY <1>3
<1> HIDE DEF t
<1>5. Len(t) = size
    BY <1>2, <1>4 DEF t
<1> QED BY <1>1, <1>5 DEF t

\* A file cut off within its last cluster keeps the rest.
LEMMA TruncateIntact ==
    ASSUME Polite, ReadInv, NEW path, NEW size \in 0 .. MaxSize, fs_truncate(path, size)
    PROVE  Sizes' /\ Intact'
<1>1. PICK n \in nandfs_open(files, path, 1) :
        LET sizeonly == \/ ClustersFor(files[n].size) = ClustersFor(size) /\ size # 0
                        \/ files[n].first = Nil
        IN  /\ TruncateAllowed(n, size)
            /\ sizeonly =>
                 /\ files' = [files EXCEPT ![n].size = size]
                 /\ content' = [content EXCEPT ![n] = Resized(@, size)]
                 /\ fat' = fat /\ (rootok' => rootok)
                 /\ UNCHANGED <<data, used_fds, fd_array, handle>>
    BY DEF fs_truncate
<1>2. /\ files' = [files EXCEPT ![n].size = size]
      /\ content' = [content EXCEPT ![n] = Resized(@, size)]
      /\ fat' = fat /\ (rootok' => rootok) /\ UNCHANGED <<data, used_fds, fd_array, handle>>
    BY <1>1 DEF TruncateAllowed
<1>3. n \notin OpenNodes /\ size < files[n].size
    BY <1>1 DEF TruncateAllowed
<1>4. n \in Node /\ files[n].attr = 1 /\ files \in NodeTable /\ content \in ContentTable
    BY OpenFinds, TypeParts DEF ReadInv
<1>5. /\ files'[n] = [files[n] EXCEPT !.size = size]
      /\ \A m \in Node \ {n} : files'[m] = files[m] /\ content'[m] = content[m]
      /\ content'[n] = Resized(content[n], size)
    BY <1>2, <1>4 DEF NodeTable, ContentTable
<1>6. Sizes'
    <2>1. \A m \in Node : m \in OpenNodes => files'[m].size = files[m].size
        BY <1>3, <1>5
    <2> QED BY <1>2, <2>1, KeepSizes DEF ReadInv
<1>7. Intact'
    <2> SUFFICES ASSUME rootok' PROVE Stored(files', fat', data', content')
        BY DEF Intact
    <2>1. Stored(files, fat, data, content)
        BY <1>2 DEF ReadInv, Intact
    <2>2. Whole(fat, files[n]) /\ Good(fat, data, files[n], content[n], n)
        BY <1>4, <2>1 DEF Stored
    <2> DEFINE r == files[n]
               q == [r EXCEPT !.size = size]
               t == Resized(content[n], size)
    <2>3. /\ q.first = r.first /\ q.name = r.name /\ q.uid = r.uid /\ q.size = size
          /\ r.size \in Nat /\ size \in Nat
        <3>1. r \in NodeRecord
            BY <1>4 DEF NodeTable
        <3>2. r.size \in Nat
            BY <1>4, FileSize
        <3>3. size \in Nat
            OBVIOUS
        <3> HIDE DEF r
        <3> QED BY <3>1, <3>2, <3>3 DEF NodeRecord
    <2>4. Len(content[n]) = r.size
        BY <2>2 DEF Good
    <2>5. Len(t) = size /\ \A p \in 1 .. size : t[p] = content[n][p]
        BY <1>3, <2>3, <2>4, Shorter
    <2> HIDE DEF q, t
    <2>6. \A k \in Nat : HopIn(fat, r.first, k) \in Cluster =>
              /\ HopIn(fat, r.first, k) = HopIn(fat, r.first, k)
              /\ data[HopIn(fat, r.first, k)] = data[HopIn(fat, r.first, k)]
        OBVIOUS
    <2>7. q.size <= r.size /\ q.size \in Nat
        BY <1>3, <2>3
    <2>8. Whole(fat, q) /\ Good(fat, data, q, t, n)
        <3> HIDE DEF r
        <3>1. Whole(fat, r) /\ Good(fat, data, r, content[n], n)
            BY <2>2 DEF r
        <3>2. Len(t) = q.size /\ \A p \in 1 .. q.size : t[p] = content[n][p]
            BY <2>3, <2>5
        <3> QED BY <2>3, <2>6, <2>7, <3>1, <3>2, KeepFile
    <2>9. files'[n] = q /\ content'[n] = t
        BY <1>5 DEF q, t
    <2>10. \A m \in Node : files'[m].attr = 1 =>
              Whole(fat, files'[m]) /\ Good(fat, data, files'[m], content'[m], m)
        BY <1>5, <2>1, <2>8, <2>9 DEF Stored
    <2> QED BY <1>2, <2>1, <2>10 DEF Stored
<1> QED BY <1>6, <1>7

\* A move by nandfs_unlink and nandfs_create leaves names, owners and sizes.
LEMMA MovedMeta ==
    ASSUME NEW fs \in NodeTable, NEW path, NEW newpath, NEW gs \in Moved(fs, path, newpath)
    PROVE  SameMeta(fs, gs)
<1> DEFINE src == nandfs_open(fs, path, 1)
           dir == OpenParent(fs, path)
           out == {[UnlinkChild(fs, d, n) EXCEPT ![n].sibling = Nil] : d \in dir, n \in src}
<1>1. CASE src = {} \/ dir = {}
    BY <1>1 DEF Moved, SameMeta
<1>2. ASSUME NEW d \in dir, NEW n \in src
      PROVE  LET x == [UnlinkChild(fs, d, n) EXCEPT ![n].sibling = Nil]
             IN  SameMeta(fs, x) /\ x \in NodeTable
    <2> DEFINE us == UnlinkChild(fs, d, n)
               r == [us[n] EXCEPT !.sibling = Nil]
    <2>1. d \in Node /\ n \in Node /\ fs[d].attr = 2
        BY OpenFinds, ParentFinds
    <2>2. us \in NodeTable /\ SameMeta(fs, us)
        BY <2>1, UnlinkChildFiles, UnlinkChildMeta DEF SameFiles
    <2> HIDE DEF us
    <2>3. /\ r.name = us[n].name /\ r.uid = us[n].uid /\ r.size = us[n].size
          /\ r \in NodeRecord
        <3>1. us[n] \in NodeRecord
            BY <2>1, <2>2 DEF NodeTable
        <3>2. r \in NodeRecord
            BY <3>1, RecordFields DEF Link
        <3> QED BY <3>1, <3>2, RecordMeta
    <2>4. [us EXCEPT ![n].sibling = Nil] = [us EXCEPT ![n] = r]
        OBVIOUS
    <2> HIDE DEF r
    <2>5. SameMeta(fs, [us EXCEPT ![n] = r]) /\ [us EXCEPT ![n] = r] \in NodeTable
        BY <2>1, <2>2, <2>3 DEF SameMeta, NodeTable
    <2> QED BY <2>4, <2>5 DEF us
<1>3. ASSUME NEW fs2 \in out, NEW e \in OpenParent(fs2, newpath), NEW n \in src
      PROVE  SameMeta(fs, LinkChild(fs2, e, n))
    <2>1. SameMeta(fs, fs2) /\ fs2 \in NodeTable
        BY <1>2
    <2>2. e \in Node /\ n \in Node
        BY OpenFinds, ParentFinds
    <2>3. SameMeta(fs2, LinkChild(fs2, e, n))
        BY <2>1, <2>2, LinkChildMeta
    <2> QED BY <2>1, <2>3 DEF SameMeta
<1>4. CASE ~(src = {} \/ dir = {})
    <2>1. PICK fs2 \in out :
              gs = fs2 \/ \E e \in OpenParent(fs2, newpath), n \in src : gs = LinkChild(fs2, e, n)
        BY <1>4 DEF Moved
    <2>2. SameMeta(fs, fs2)
        BY <1>2
    <2> QED BY <1>3, <2>1, <2>2
<1> QED BY <1>1, <1>4

\* Files that only change their names or owners still hold what was written to them.
LEMMA RenamedIntact ==
    ASSUME ReadInv, ~NamesStay, SameFiles(files, files'),
           \A n \in Node : files'[n].size = files[n].size,
           UNCHANGED <<fat, rootok, data, fd_array, handle, content>>
    PROVE  Sizes' /\ Intact'
<1>1. Sizes'
    BY KeepSizes DEF ReadInv
<1>2. ASSUME rootok', NEW n \in Node, files'[n].attr = 1
      PROVE  Whole(fat, files'[n]) /\ Good(fat, data, files'[n], content[n], n)
    <2>1. files[n].attr = 1 /\ files'[n].first = files[n].first /\ files'[n].size = files[n].size
        BY <1>2 DEF SameFiles
    <2>2. Whole(fat, files[n]) /\ Good(fat, data, files[n], content[n], n)
        BY <1>2, <2>1 DEF ReadInv, Intact, Stored
    <2> QED BY <2>1, <2>2 DEF Whole, Good
<1>3. rootok' => Room(fat)
    BY DEF ReadInv, Intact, Stored
<1> QED BY <1>1, <1>2, <1>3 DEF Intact, Stored

LEMMA RenameIntact ==
    ASSUME ReadInv, "rename" \in Ops, NEW path \in Paths, NEW newpath \in Paths,
           fs_rename(path, newpath)
    PROVE  Sizes' /\ Intact'
<1>1. files \in NodeTable
    BY TypeParts DEF ReadInv
<1>2. PICK n \in nandfs_open(files, path, 1) :
        LET fs == [files EXCEPT ![n].name = newpath.base]
        IN  IF path.dir = newpath.dir THEN files' = fs
            ELSE files' \in Moved(fs, path, newpath)
    BY DEF fs_rename
<1> DEFINE r == [files[n] EXCEPT !.name = newpath.base]
           fs == [files EXCEPT ![n] = r]
<1>3. n \in Node /\ newpath.base \in Names
    BY OpenFinds, NandFsConstants
<1>4. r \in NodeRecord /\ r.size = files[n].size
    BY <1>1, <1>3 DEF NodeTable, NodeRecord
<1>5. fs \in NodeTable /\ \A m \in Node : fs[m].size = files[m].size
    <2> HIDE DEF r
    <2> QED BY <1>1, <1>3, <1>4 DEF NodeTable
<1>6. files' = fs \/ files' \in Moved(fs, path, newpath)
    BY <1>2
<1> HIDE DEF fs
<1>7. \A m \in Node : files'[m].size = files[m].size
    <2>1. CASE files' = fs
        BY <1>5, <2>1
    <2>2. CASE files' \in Moved(fs, path, newpath)
        BY <1>5, <2>2, MovedMeta DEF SameMeta
    <2> QED BY <1>6, <2>1, <2>2
<1>8. SameFiles(files, files') /\ ~NamesStay
    BY <1>1, RenameNodes DEF NamesStay
<1> QED BY <1>7, <1>8, RenamedIntact DEF fs_rename

LEMMA ChownIntact ==
    ASSUME ReadInv, "chown" \in Ops, NEW path \in Paths, NEW uid \in Uids, fs_chown(path, uid)
    PROVE  Sizes' /\ Intact'
<1>1. files \in NodeTable
    BY TypeParts DEF ReadInv
<1>2. PICK n \in Node : files' = [files EXCEPT ![n].uid = uid]
    BY OpenFinds DEF fs_chown
<1> DEFINE r == [files[n] EXCEPT !.uid = uid]
<1>3. r.size = files[n].size /\ files' = [files EXCEPT ![n] = r]
    BY <1>1, <1>2 DEF NodeTable, NodeRecord
<1> HIDE DEF r
<1>4. \A m \in Node : files'[m].size = files[m].size
    BY <1>1, <1>3 DEF NodeTable
<1>5. SameFiles(files, files') /\ ~NamesStay
    BY <1>1, ChownNodes DEF NamesStay
<1> QED BY <1>4, <1>5, RenamedIntact DEF fs_chown

\* Nothing on the NAND changes while files are opened, read and closed.
LEMMA SameIntact ==
    ASSUME ReadInv, UNCHANGED <<files, fat, rootok, data, content>> PROVE Intact'
BY DEF ReadInv, Intact

LEMMA OpenIntact ==
    ASSUME Alone, ReadInv, NEW h \in Handles, NEW path \in Paths, fs_open(h, path)
    PROVE  Sizes' /\ Intact'
<1>1. PICK n \in nandfs_open(files, path, 1), i \in Slot \ used_fds :
        /\ fd_array' = [fd_array EXCEPT ![i] =
              [node |-> n, first |-> files[n].first, cur |-> files[n].first,
               size |-> files[n].size, index |-> 0]]
        /\ handle' = [handle EXCEPT ![h] = [fh |-> i, node |-> n]]
        /\ UNCHANGED <<files, fat, rootok, data, content>>
    BY DEF fs_open
<1>2. Sync'
    BY OpenLeak DEF ReadInv
<1>3. n \in Node /\ fd_array \in SlotTable /\ handle \in HandleTable
    BY OpenFinds, TypeParts DEF ReadInv
<1>4. handle'[h] = [fh |-> i, node |-> n] /\ handle'[h] # NoHandle
    <2>1. handle'[h] = [fh |-> i, node |-> n] /\ i # -1
        BY <1>1, <1>3, NandFsConstants DEF HandleTable, Slot
    <2> QED BY <2>1 DEF NoHandle
<1>5. Sizes'
    <2> SUFFICES ASSUME NEW g \in Handles, handle'[g] # NoHandle
                 PROVE  fd_array'[handle'[g].fh].size = files'[handle'[g].node].size
        BY DEF Sizes
    <2>1. g = h
        BY <1>2, <1>4 DEF Sync
    <2>2. handle'[g].fh = i /\ handle'[g].node = n
        BY <1>4, <2>1
    <2>3. fd_array'[i].size = files[n].size
        BY <1>1, <1>3 DEF SlotTable
    <2> QED BY <1>1, <2>2, <2>3
<1> QED BY <1>1, <1>5, SameIntact

LEMMA ReleaseIntact ==
    ASSUME ReadInv, NEW h \in Handles, fs_release(h) PROVE Sizes' /\ Intact'
<1>1. /\ handle[h] # NoHandle
      /\ handle' = [handle EXCEPT ![h] = NoHandle]
      /\ UNCHANGED <<files, fat, rootok, data, content>>
    BY DEF fs_release
<1>2. \A g \in Handles : handle'[g] = NoHandle
    <2>1. \A g \in Handles \ {h} : handle[g] = NoHandle
        BY <1>1 DEF ReadInv, Sync
    <2>2. handle \in HandleTable
        BY TypeParts DEF ReadInv
    <2> QED BY <1>1, <2>1, <2>2 DEF HandleTable
<1>3. Sizes'
    BY <1>2 DEF Sizes
<1> QED BY <1>1, <1>3, SameIntact

LEMMA ReadIntact ==
    ASSUME ReadInv, NEW h \in Handles, NEW off, NEW len, fs_read(h, off, len)
    PROVE  Sizes' /\ Intact'
<1>1. CASE GoWild
    BY <1>1, WildIntact DEF ReadInv
<1>2. CASE UNCHANGED vars
    BY <1>2, SameIntact DEF vars, ReadInv, Sizes
<1>3. ASSUME NEW c, NEW k,
             fd_array' = [fd_array EXCEPT ![handle[h].fh].cur = c, ![handle[h].fh].index = k],
             UNCHANGED <<files, fat, rootok, data, handle, content>>
      PROVE  Sizes' /\ Intact'
    <2>1. fd_array \in SlotTable
        BY TypeParts DEF ReadInv
    <2>2. \A i \in Slot : fd_array'[i].size = fd_array[i].size
        BY <1>3, <2>1 DEF SlotTable, SlotRecord
    <2>3. Sizes'
        <3> SUFFICES ASSUME NEW g \in Handles, handle[g] # NoHandle
                     PROVE  fd_array'[handle[g].fh].size = files[handle[g].node].size
            BY <1>3 DEF Sizes
        <3>1. handle[g].fh \in Slot
            BY OpenFile DEF ReadInv
        <3> QED BY <2>2, <3>1 DEF ReadInv, Sizes
    <2> QED BY <1>3, <2>3, SameIntact
<1> QED BY <1>1, <1>2, <1>3 DEF fs_read

\* The cluster a write starts with.  The file k, its nodes gs and the table g are then
\* as they would be had the file had this cluster before.
LEMMA StartCluster ==
    ASSUME FatInv, Stored(files, fat, data, content), NEW k \in Node, files[k].attr = 1,
           NEW fd, fd.first = files[k].first, NEW j \in Nat, j \in 0 .. files[k].size \div U,
           NEW cur, cur = HopIn(fat, fd.first, j),
           NEW a \in FirstCluster(fd, cur), ~a.full,
           NEW gs \in NodeTable, gs[k].attr = 1, gs[k].name = files[k].name,
           gs[k].uid = files[k].uid, gs[k].size = files[k].size,
           gs[k].first = IF NeedsFirst(fd, cur) THEN a.c ELSE fd.first,
           \A n \in Node \ {k} : gs[n] = files[n]
    PROVE  /\ Stored(gs, a.fat, data, content)
           /\ a.c \in Cluster /\ HopIn(a.fat, gs[k].first, j) = a.c
           /\ \A i \in 0 .. gs[k].size \div U : HopIn(a.fat, gs[k].first, i) \in Cluster
<1>1. /\ fat \in Table /\ files \in NodeTable /\ Room(fat)
      /\ \A n \in Node : files[n].attr = 1 =>
             Whole(fat, files[n]) /\ Good(fat, data, files[n], content[n], n)
    BY DEF FatInv, Stored
<1>2. Nil \notin Cluster /\ FREE \notin Cluster
    BY NandFsConstants DEF Nil, FREE, Cluster
<1>3. CASE \A i \in 0 .. files[k].size \div U : HopIn(fat, files[k].first, i) \in Cluster
    <2>1. cur \in Cluster /\ ~NeedsFirst(fd, cur)
        BY <1>2, <1>3 DEF NeedsFirst
    <2>2. a = [c |-> cur, fat |-> fat, full |-> FALSE]
        BY <2>1 DEF FirstCluster
    <2>3. a.fat = fat /\ a.c = cur /\ gs[k].first = files[k].first
        BY <2>1, <2>2
    <2>4. \A n \in Node : gs[n].attr = 1 => Whole(fat, gs[n]) /\ Good(fat, data, gs[n], content[n], n)
        <3> SUFFICES ASSUME NEW n \in Node, gs[n].attr = 1
                     PROVE  Whole(fat, gs[n]) /\ Good(fat, data, gs[n], content[n], n)
            OBVIOUS
        <3>1. CASE n = k
            <4>1. Whole(fat, files[k]) /\ Good(fat, data, files[k], content[k], k)
                BY <1>1
            <4> QED BY <2>3, <3>1, <4>1 DEF Whole, Good, MacOf
        <3>2. CASE n # k
            BY <1>1, <3>2
        <3> QED BY <3>1, <3>2
    <2> QED BY <1>1, <1>3, <2>1, <2>3, <2>4 DEF Stored
<1>4. CASE files[k].first = Nil /\ files[k].size = 0
    <2>1. 0 \div U = 0
        <3>1. U \in Nat /\ U > 0
            BY NandFsConstants
        <3> QED BY <3>1
    <2>2. j = 0 /\ cur = Nil
        BY <1>4, <2>1, HopInLinks
    <2>3. NeedsFirst(fd, cur)
        BY <1>4, <2>2 DEF NeedsFirst
    <2>4. a \in nandfs_allocatecluster(fat)
        BY <2>3 DEF FirstCluster
    <2>5. /\ a.c \in Cluster /\ fat[a.c] = FREE
          /\ a.fat = [fat EXCEPT ![a.c] = EOC] /\ Room(a.fat)
        BY <1>1, <2>4, AllocateRoom
    <2>6. \A c \in Cluster : fat[c] \in Cluster => a.fat[c] = fat[c]
        BY <1>1, <1>2, <2>5 DEF Table
    <2>7. gs[k].first = a.c /\ gs[k].size = 0
        BY <1>4, <2>3
    <2>8. \A i \in 0 .. gs[k].size \div U : HopIn(a.fat, gs[k].first, i) \in Cluster
        BY <2>1, <2>5, <2>7, HopInLinks
    <2>9. HopIn(a.fat, gs[k].first, j) = a.c
        BY <2>2, <2>7, HopInLinks
    <2>10. ASSUME NEW n \in Node, gs[n].attr = 1
           PROVE  Whole(a.fat, gs[n]) /\ Good(a.fat, data, gs[n], content[n], n)
        <3>1. CASE n = k
            <4>1. Good(fat, data, files[k], content[k], k)
                BY <1>1
            <4>2. Len(content[k]) = 0
                BY <1>4, <4>1 DEF Good
            <4> QED BY <2>7, <2>8, <3>1, <4>2 DEF Whole, Good
        <3>2. CASE n # k
            <4>1. gs[n] = files[n]
                BY <3>2
            <4>2. Whole(fat, files[n]) /\ Good(fat, data, files[n], content[n], n)
                BY <1>1, <2>10, <4>1
            <4>3. files[n].size \in Nat
                BY <1>1, FileSize
            <4>4. \A i \in Nat : HopIn(fat, files[n].first, i) \in Cluster =>
                      HopIn(a.fat, files[n].first, i) = HopIn(fat, files[n].first, i)
                BY <2>6, HopGrows
            <4> DEFINE r == files[n]
                       g == a.fat
            <4>5. \A i \in Nat : HopIn(fat, r.first, i) \in Cluster =>
                    /\ HopIn(g, r.first, i) = HopIn(fat, r.first, i)
                    /\ data[HopIn(fat, r.first, i)] = data[HopIn(fat, r.first, i)]
                BY <4>4
            <4>6. Whole(fat, r) /\ Good(fat, data, r, content[n], n) /\ r.size \in Nat
                BY <4>2, <4>3
            <4> HIDE DEF r, g
            <4>7. Whole(g, r) /\ Good(g, data, r, content[n], n)
                BY <4>5, <4>6, SameFile
            <4> QED BY <4>1, <4>7 DEF r, g
        <3> QED BY <3>1, <3>2
    <2> QED BY <2>5, <2>8, <2>9, <2>10 DEF Stored
<1>5. Whole(fat, files[k])
    BY <1>1
<1> QED BY <1>3, <1>4, <1>5 DEF Whole

\* The cluster a full one is followed by.
LEMMA FollowCluster ==
    ASSUME NEW gs, NEW a, a.fat \in Table, a.c \in Cluster, Room(a.fat),
           a.fat[a.c] \notin {FREE, RESV},
           NEW b \in NextCluster(a), ~b.full
    PROVE  /\ Room(b.fat) /\ b.fat \in Table /\ b.fat[a.c] \in Cluster
           /\ \A c \in Cluster : a.fat[c] \in Cluster => b.fat[c] = a.fat[c]
<1>1. CASE a.fat[a.c] = EOC
    <2>1. PICK e \in nandfs_allocatecluster(a.fat) :
              b = [c |-> e.c, fat |-> [e.fat EXCEPT ![a.c] = e.c], full |-> e.full]
        BY <1>1 DEF NextCluster
    <2>2. ~e.full
        BY <2>1
    <2>3. /\ e.c \in Cluster /\ a.fat[e.c] = FREE
          /\ e.fat = [a.fat EXCEPT ![e.c] = EOC] /\ Room(e.fat)
        BY <2>1, <2>2, AllocateRoom
    <2>4. /\ NC \notin Cluster /\ ENOSPC \notin Cluster /\ RESV \notin Cluster
          /\ EOC \notin Cluster /\ FREE \notin Cluster /\ EOC # FREE /\ EOC # RESV
          /\ NC - 1 \in Cluster /\ Cluster \subseteq FatValue /\ EOC \in FatValue
        BY NandFsConstants DEF Cluster, ENOSPC, RESV, EOC, FREE, FatValue
    <2> DEFINE f == a.fat
               g == [e.fat EXCEPT ![a.c] = e.c]
    <2>5. b.fat = g
        BY <2>1
    <2>6. /\ g[a.c] = e.c /\ g[e.c] = EOC /\ g \in Table
          /\ \A c \in Cluster : c # a.c /\ c # e.c => g[c] = f[c]
        BY <1>1, <2>3, <2>4 DEF Table
    <2> HIDE DEF g
    <2>7. f[a.c] = EOC /\ f[e.c] = FREE /\ Room(f)
        BY <1>1, <2>3
    <2> HIDE DEF f
    <2>8. Room(g)
        <3>1. NC - 1 # a.c /\ NC - 1 # e.c
            BY <2>7 DEF Room, FREE, RESV, EOC
        <3> QED BY <2>3, <2>4, <2>6, <2>7, <3>1 DEF Room
    <2>9. \A c \in Cluster : f[c] \in Cluster => g[c] = f[c]
        BY <2>4, <2>6, <2>7
    <2> QED BY <2>3, <2>5, <2>6, <2>8, <2>9 DEF f
<1>2. CASE a.fat[a.c] # EOC
    <2>1. b = [c |-> a.fat[a.c], fat |-> a.fat, full |-> FALSE]
        BY <1>2 DEF NextCluster
    <2>2. a.fat[a.c] \in FatValue /\ a.fat[a.c] \notin {NC, ENOSPC}
        BY DEF Table, Room
    <2>3. a.fat[a.c] \in Cluster
        BY <1>2, <2>2, NandFsConstants DEF FatValue, Cluster
    <2> QED BY <2>1, <2>3
<1> QED BY <1>1, <1>2

\* A place has one cluster and one unit in it.
LEMMA OnePlace ==
    ASSUME NEW a \in Nat, NEW b \in Nat, NEW r \in 0 .. U - 1, NEW s \in 0 .. U - 1,
           a * U + r = b * U + s
    PROVE  a = b
<1>1. ASSUME NEW x \in Nat, NEW y \in Nat, NEW t \in 0 .. U - 1, NEW u \in 0 .. U - 1,
             x * U + t = y * U + u
      PROVE  ~(x + 1 <= y)
    <2> SUFFICES ASSUME x + 1 <= y PROVE FALSE
        OBVIOUS
    <2>1. U \in Nat /\ x + 1 \in Nat
        BY NandFsConstants
    <2>2. (x + 1) * U <= y * U /\ (x + 1) * U = x * U + U /\ x * U \in Int /\ y * U \in Int
        <3>1. (x + 1) * U <= y * U
            BY <2>1, MulMonotone
        <3>2. (x + 1) * U = x * U + U /\ x * U \in Int /\ y * U \in Int
            BY <2>1
        <3> QED BY <3>1, <3>2
    <2> DEFINE m == x * U
               n == y * U
               l == (x + 1) * U
    <2>3. l <= n /\ l = m + U /\ m \in Int /\ n \in Int /\ m + t = n + u
        BY <1>1, <2>2
    <2> HIDE DEF m, n, l
    <2> QED BY <2>1, <2>3
<1>2. ~(a + 1 <= b)
    BY <1>1
<1>3. ~(b + 1 <= a)
    <2>1. b * U + s = a * U + r
        OBVIOUS
    <2> QED BY <1>1, <2>1
<1> QED BY <1>2, <1>3

\* The units a request within one cluster is about.
LEMMA RequestPlaces ==
    ASSUME NEW off \in Nat, NEW len \in Nat \ {0}, (off % U) + len <= U
    PROVE  /\ off \div U \in Nat /\ off % U \in 0 .. U - 1
           /\ \A p \in Nat \ {0} :
                /\ p > off /\ p <= off + len => Block(p) = off \div U
                /\ Block(p) = off \div U =>
                      /\ p > off <=> Unit(p) >= off % U
                      /\ p <= off + len <=> Unit(p) < (off % U) + len
           /\ (off + len) \div U =
                 IF (off % U) + len = U THEN (off \div U) + 1 ELSE off \div U
<1> DEFINE j == off \div U
           o == off % U
           x == j * U
<1>1. j \in Nat /\ o \in 0 .. U - 1 /\ off = x + o /\ x \in Int /\ U \in Nat /\ U > 0
    <2>1. off + 1 \in Nat \ {0} /\ (off + 1) - 1 = off
        OBVIOUS
    <2>2. j \in Nat /\ o \in 0 .. U - 1 /\ off = x + o
        BY <2>1, Places DEF Block, Unit
    <2>3. U \in Nat /\ U > 0
        BY NandFsConstants
    <2>4. x \in Int
        BY <2>2, <2>3
    <2> QED BY <2>2, <2>3, <2>4
<1>2. (off % U) + len <= U /\ off % U = o /\ off \div U = j
    OBVIOUS
<1>3. x = j * U
    OBVIOUS
<1> HIDE DEF j, o, x
<1>4. ASSUME NEW p \in Nat \ {0}
      PROVE  /\ p > off /\ p <= off + len => Block(p) = j
             /\ Block(p) = j => /\ p > off <=> Unit(p) >= o
                                /\ p <= off + len <=> Unit(p) < o + len
    <2> DEFINE b == Block(p)
               u == Unit(p)
               y == b * U
    <2>1. b \in Nat /\ u \in 0 .. U - 1 /\ p - 1 = y + u
        BY Places
    <2>2. y \in Int
        BY <1>1, <2>1
    <2>3. y = b * U
        OBVIOUS
    <2> HIDE DEF b, u, y
    <2>4. ASSUME p > off, p <= off + len PROVE b = j
        <3>1. (p - 1) - x \in 0 .. U - 1 /\ x + ((p - 1) - x) = y + u
            BY <1>1, <1>2, <2>1, <2>2, <2>4
        <3>2. j * U + ((p - 1) - x) = b * U + u
            BY <1>3, <2>3, <3>1
        <3> QED BY <1>1, <2>1, <3>1, <3>2, OnePlace
    <2>5. ASSUME b = j PROVE /\ p > off <=> u >= o
                             /\ p <= off + len <=> u < o + len
        <3>1. y = x
            BY <1>3, <2>3, <2>5
        <3> QED BY <1>1, <2>1, <3>1
    <2> QED BY <2>4, <2>5 DEF b, u
<1>5. (off + len) \div U = IF o + len = U THEN j + 1 ELSE j
    <2> DEFINE n == off + len
               q == n \div U
               w == n % U
    <2>1. q \in Nat /\ w \in 0 .. U - 1 /\ n = q * U + w
        <3>1. n + 1 \in Nat \ {0} /\ (n + 1) - 1 = n
            OBVIOUS
        <3> QED BY <3>1, Places DEF Block, Unit
    <2>2. n = off + len
        OBVIOUS
    <2> HIDE DEF n, q, w
    <2>3. CASE o + len = U
        <3>1. n = x + U /\ 0 \in 0 .. U - 1
            BY <1>1, <2>2, <2>3
        <3>2. (j + 1) * U = j * U + U /\ j + 1 \in Nat
            BY <1>1
        <3>3. (j + 1) * U + 0 = q * U + w
            <4> DEFINE l == (j + 1) * U
                       r == q * U
            <4>1. l = x + U /\ n = r + w /\ x \in Int
                BY <1>1, <1>3, <2>1, <3>2
            <4> HIDE DEF l, r
            <4>2. l + 0 = r + w
                BY <1>1, <3>1, <4>1
            <4> QED BY <4>2 DEF l, r
        <3>4. j + 1 = q
            BY <2>1, <3>1, <3>2, <3>3, OnePlace
        <3> QED BY <2>3, <3>4 DEF q, n
    <2>4. CASE o + len # U
        <3>1. n = x + (o + len) /\ o + len \in 0 .. U - 1
            BY <1>1, <1>2, <2>2, <2>4
        <3>2. j * U + (o + len) = q * U + w
            BY <1>3, <2>1, <3>1
        <3>3. j = q
            BY <1>1, <2>1, <3>1, <3>2, OnePlace
        <3> QED BY <2>4, <3>3 DEF q, n
    <2> QED BY <2>3, <2>4
<1> QED BY <1>1, <1>2, <1>4, <1>5

\* Two files lead to clusters of their own while links to clusters stay.
LEMMA KeepHops ==
    ASSUME NEW f, NEW g, NEW first, NEW k \in Nat, HopIn(f, first, k) \in Cluster,
           \A x \in Cluster : f[x] \in Cluster => g[x] = f[x]
    PROVE  HopIn(g, first, k) = HopIn(f, first, k) /\ HopIn(g, first, k) \in Cluster
<1>1. HopIn(g, first, k) = HopIn(f, first, k)
    BY HopGrows
<1> QED BY <1>1

\* The contents of a file and its length once a request has been carried out.
LEMMA OverwrittenIs ==
    ASSUME NEW s \in Seq(Vals), NEW off \in Nat, NEW len \in Nat, NEW v \in Vals
    PROVE  /\ Len(Overwritten(s, off, len, v)) = IF off + len > Len(s) THEN off + len ELSE Len(s)
           /\ \A p \in 1 .. (IF off + len > Len(s) THEN off + len ELSE Len(s)) :
                Overwritten(s, off, len, v)[p] =
                    IF p > off /\ p <= off + len THEN v ELSE IF p <= Len(s) THEN s[p] ELSE 0
<1> DEFINE t == Overwritten(s, off, len, v)
           n == IF off + len > Len(s) THEN off + len ELSE Len(s)
<1>1. t \in Seq(Vals)
    BY OverwrittenTypes
<1>2. DOMAIN t = 1 .. n /\ n \in Nat
    BY DEF Overwritten
<1>3. \A p \in 1 .. n : t[p] =
          IF p > off /\ p <= off + len THEN v ELSE IF p <= Len(s) THEN s[p] ELSE 0
    BY DEF Overwritten
<1> HIDE DEF t
<1>4. DOMAIN t = 1 .. Len(t) /\ Len(t) \in Nat
    BY <1>1
<1> HIDE DEF n
<1>5. Len(t) = n
    BY <1>2, <1>4
<1> QED BY <1>3, <1>5 DEF t, n

\* One cluster c, block j of the file k, is written.
Written(d, c, o, len, v, mac) ==
    [d EXCEPT ![c] = [val |-> [u \in 0 .. U - 1 |-> IF u >= o /\ u < o + len THEN v ELSE @.val[u]],
                      mac |-> mac]]

LEMMA WrittenIs ==
    ASSUME NEW d \in DataTable, NEW c \in Cluster, NEW o, NEW len, NEW v, NEW mac
    PROVE  /\ \A x \in Cluster \ {c} : Written(d, c, o, len, v, mac)[x] = d[x]
           /\ Written(d, c, o, len, v, mac)[c].mac = mac
           /\ \A u \in 0 .. U - 1 : Written(d, c, o, len, v, mac)[c].val[u] =
                  IF u >= o /\ u < o + len THEN v ELSE d[c].val[u]
BY DEF Written, DataTable

\* A write of len units v at off into the file k, on nodes gs, table f, clusters d and
\* contents ct: the cluster c that it needs is the file's, g has its next one once it is
\* full, and hs, e and dt are the nodes, the clusters and the contents after it.
WriteTo(gs, f, d, ct, k, off, len, c, v, hs, g, e, dt) ==
    /\ gs \in NodeTable /\ d \in DataTable /\ ct \in ContentTable
    /\ LinksOK(f) /\ FirstsOK(gs, f) /\ Stored(gs, f, d, ct)
    /\ k \in Node /\ gs[k].attr = 1
    /\ \A i \in 0 .. gs[k].size \div U : HopIn(f, gs[k].first, i) \in Cluster
    /\ off \in Nat /\ len \in Nat \ {0} /\ (off % U) + len <= U /\ off <= gs[k].size
    /\ c \in Cluster /\ HopIn(f, gs[k].first, off \div U) = c
    /\ Room(g) /\ \A x \in Cluster : f[x] \in Cluster => g[x] = f[x]
    /\ (off % U) + len = U => g[c] \in Cluster
    /\ v \in Vals
    /\ hs[k].first = gs[k].first /\ hs[k].name = gs[k].name /\ hs[k].uid = gs[k].uid
    /\ hs[k].size = IF off + len > gs[k].size THEN off + len ELSE gs[k].size
    /\ \A n \in Node \ {k} : hs[n] = gs[n]
    /\ e = Written(d, c, off % U, len, v, MacOf(gs[k], k, off \div U))
    /\ dt = [ct EXCEPT ![k] = Overwritten(ct[k], off, len, v)]

\* Such a write leaves every file holding what was written to it.
LEMMA WrittenStored ==
    ASSUME NEW gs, NEW f, NEW d, NEW ct, NEW k, NEW off, NEW len, NEW c, NEW v,
           NEW hs, NEW g, NEW e, NEW dt,
           WriteTo(gs, f, d, ct, k, off, len, c, v, hs, g, e, dt)
    PROVE  Stored(hs, g, e, dt)
<1> USE DEF WriteTo
<1> DEFINE j == off \div U
           o == off % U
           r == gs[k]
           q == hs[k]
           s == ct[k]
           t == dt[k]
<1>1. /\ j \in Nat /\ o \in 0 .. U - 1
      /\ \A p \in Nat \ {0} :
            /\ p > off /\ p <= off + len => Block(p) = j
            /\ Block(p) = j => /\ p > off <=> Unit(p) >= o
                               /\ p <= off + len <=> Unit(p) < o + len
      /\ (off + len) \div U = IF o + len = U THEN j + 1 ELSE j
    BY RequestPlaces
<1>2. /\ r.size \in Nat /\ Len(s) = r.size /\ s \in Seq(Vals)
      /\ Good(f, d, r, s, k)
    <2>1. r.size \in Nat
        BY FileSize
    <2>2. Good(f, d, r, s, k)
        BY DEF Stored
    <2>3. s \in Seq(Vals)
        BY DEF ContentTable
    <2> QED BY <2>1, <2>2, <2>3 DEF Good
<1>3. t = Overwritten(s, off, len, v) /\ \A n \in Node \ {k} : dt[n] = ct[n]
    BY DEF ContentTable
<1>4. /\ Len(t) = q.size /\ q.size \in Nat
      /\ \A p \in 1 .. q.size : t[p] =
            IF p > off /\ p <= off + len THEN v ELSE IF p <= Len(s) THEN s[p] ELSE 0
    <2>1. q.size = IF off + len > Len(s) THEN off + len ELSE Len(s)
        BY <1>2
    <2>2. q.size \in Nat
        BY <1>2, <2>1
    <2>3. len \in Nat
        OBVIOUS
    <2> DEFINE m == IF off + len > Len(s) THEN off + len ELSE Len(s)
    <2>4. /\ Len(t) = m
          /\ \A p \in 1 .. m : t[p] =
                IF p > off /\ p <= off + len THEN v ELSE IF p <= Len(s) THEN s[p] ELSE 0
        <3> HIDE DEF q, s, t
        <3> DEFINE w == Overwritten(s, off, len, v)
        <3>1. /\ Len(w) = m
              /\ \A p \in 1 .. m : w[p] =
                    IF p > off /\ p <= off + len THEN v ELSE IF p <= Len(s) THEN s[p] ELSE 0
            <4>1. s \in Seq(Vals) /\ off \in Nat /\ len \in Nat /\ v \in Vals
                BY <1>2, <2>3
            <4> QED BY ONLY <4>1, OverwrittenIs
        <3>2. t = w
            BY <1>3
        <3> HIDE DEF w, m
        <3> QED BY <3>1, <3>2
    <2>5. m = q.size
        BY <2>1
    <2> HIDE DEF m, q, s, t
    <2> QED BY <2>2, <2>4, <2>5
<1>5. /\ \A x \in Cluster \ {c} : e[x] = d[x]
      /\ e[c].mac = MacOf(r, k, j)
      /\ \A u \in 0 .. U - 1 : e[c].val[u] = IF u >= o /\ u < o + len THEN v ELSE d[c].val[u]
    BY WrittenIs
\* The file has its clusters.
<1>6. \A i \in 0 .. q.size \div U : HopIn(g, q.first, i) \in Cluster
    <2> SUFFICES ASSUME NEW i \in 0 .. q.size \div U PROVE HopIn(g, q.first, i) \in Cluster
        OBVIOUS
    <2>1. i \in Nat /\ q.first = r.first
        OBVIOUS
    <2>2. j \in 0 .. r.size \div U /\ r.size \div U \in Int
        <3>1. off \in Nat /\ r.size \in Nat /\ off <= r.size
            BY <1>2
        <3>2. 0 .. off \div U \subseteq 0 .. r.size \div U
            BY <3>1, BlocksMonotone
        <3>3. j \in 0 .. off \div U
            BY <1>1
        <3>4. r.size \div U \in Int
            BY <3>1, NandFsConstants
        <3> QED BY <3>2, <3>3, <3>4
    <2>3. CASE i \in 0 .. r.size \div U
        <3>1. HopIn(f, r.first, i) \in Cluster
            BY <2>3
        <3> QED BY <2>1, <3>1, KeepHops
    <2>4. CASE i \notin 0 .. r.size \div U
        <3>1. q.size = off + len
            BY <1>2, <2>4
        <3>2. i <= IF o + len = U THEN j + 1 ELSE j
            BY <1>1, <3>1
        <3>3. i > r.size \div U /\ j <= r.size \div U
            BY <2>1, <2>2, <2>4
        <3>4. i = j + 1 /\ o + len = U
            BY <1>1, <2>1, <2>2, <3>2, <3>3
        <3>5. HopIn(f, r.first, j) = c
            OBVIOUS
        <3>6. HopIn(g, r.first, j) = c
            BY <1>1, <3>5, KeepHops
        <3>7. HopIn(g, r.first, j + 1) = g[c]
            BY <1>1, <3>6, HopInLinks
        <3> QED BY <2>1, <3>4, <3>7
    <2> QED BY <2>3, <2>4
<1>7. Whole(g, q)
    BY <1>6 DEF Whole
<1>8. Good(g, e, q, t, k)
    <2> SUFFICES ASSUME NEW p \in 1 .. q.size
                 PROVE  LET x == HopIn(g, q.first, Block(p))
                        IN  /\ x \in Cluster /\ e[x].val[Unit(p)] = t[p]
                            /\ NamesStay => e[x].mac = MacOf(q, k, Block(p))
        BY <1>4 DEF Good
    <2> DEFINE b == Block(p)
               u == Unit(p)
               x == HopIn(g, q.first, b)
    <2>1. p \in Nat \ {0} /\ p <= q.size
        BY <1>4
    <2>2. b \in Nat /\ u \in 0 .. U - 1 /\ b \in 0 .. q.size \div U
        BY <1>4, <2>1, Places
    <2>3. x \in Cluster /\ q.first = r.first
        BY <1>6, <2>2
    <2>4. MacOf(q, k, b) = MacOf(r, k, b)
        BY DEF MacOf
\* Where nothing was written the file was that long before.
    <2>5. ~(p > off /\ p <= off + len) => p \in 1 .. r.size
        BY <1>2, <2>1
    <2>6. p \in 1 .. r.size => /\ HopIn(f, r.first, b) \in Cluster
                               /\ d[HopIn(f, r.first, b)].val[u] = s[p]
                               /\ NamesStay =>
                                     d[HopIn(f, r.first, b)].mac = MacOf(r, k, b)
        BY <1>2 DEF Good
    <2>7. p \in 1 .. r.size => x = HopIn(f, r.first, b)
        BY <2>2, <2>3, <2>6, KeepHops
    <2>8. t[p] = IF p > off /\ p <= off + len THEN v ELSE IF p <= r.size THEN s[p] ELSE 0
        BY <1>2, <1>4
    <2>9. HopIn(f, r.first, j) = c /\ HopIn(g, r.first, j) = c
        <3>1. HopIn(f, r.first, j) = c
            OBVIOUS
        <3> QED BY <1>1, <3>1, KeepHops
    <2>10. CASE b = j
        <3>1. x = c
            BY <2>3, <2>9, <2>10
        <3>2. p > off /\ p <= off + len <=> u >= o /\ u < o + len
            BY <1>1, <2>1, <2>10
        <3>3. e[c].val[u] = t[p]
            <4>1. CASE p > off /\ p <= off + len
                BY <1>5, <2>2, <2>8, <3>2, <4>1
            <4>2. CASE ~(p > off /\ p <= off + len)
                <5>1. d[c].val[u] = s[p] /\ p <= r.size
                    BY <2>5, <2>6, <2>9, <2>10, <4>2
                <5> QED BY <1>5, <2>2, <2>8, <3>2, <4>2, <5>1
            <4> QED BY <4>1, <4>2
        <3> HIDE DEF x, b, u, q, t
        <3>4. x \in Cluster /\ e[x].val[u] = t[p] /\ e[x].mac = MacOf(q, k, b)
            BY <1>5, <2>3, <2>4, <2>10, <3>1, <3>3
        <3> QED BY <3>4 DEF x, b, u
    <2>11. CASE b # j
        <3>1. ~(p > off /\ p <= off + len) /\ p \in 1 .. r.size
            BY <1>1, <2>1, <2>5, <2>11
        <3>2. HopIn(f, r.first, b) # c
            BY <1>1, <2>2, <2>6, <2>9, <2>11, <3>1, HopDistinct
        <3>3. x # c /\ e[x] = d[x]
            BY <1>5, <2>3, <2>7, <3>1, <3>2
        <3>4. d[x].val[u] = s[p] /\ (NamesStay => d[x].mac = MacOf(r, k, b))
            BY <2>6, <2>7, <3>1
        <3>5. t[p] = s[p]
            BY <2>8, <3>1
        <3> HIDE DEF x, b, u, q, t
        <3> QED BY <2>3, <2>4, <3>3, <3>4, <3>5 DEF x, b, u
    <2> QED BY <2>10, <2>11
\* The other files do not have the cluster.
<1>9. ASSUME NEW n \in Node \ {k}, gs[n].attr = 1
      PROVE  Whole(g, gs[n]) /\ Good(g, e, gs[n], ct[n], n)
    <2> DEFINE m == gs[n]
    <2>1. Whole(f, m) /\ Good(f, d, m, ct[n], n) /\ m.size \in Nat
        BY <1>9, FileSize DEF Stored
    <2>2. ASSUME NEW i \in Nat, HopIn(f, m.first, i) \in Cluster
          PROVE  /\ HopIn(g, m.first, i) = HopIn(f, m.first, i)
                 /\ e[HopIn(f, m.first, i)] = d[HopIn(f, m.first, i)]
        <3>1. HopIn(f, r.first, j) = c
            OBVIOUS
        <3>2. HopIn(f, m.first, i) # c
            BY <1>1, <1>9, <2>2, <3>1, HopDistinct
        <3>3. HopIn(g, m.first, i) = HopIn(f, m.first, i)
            BY <2>2, HopGrows
        <3> QED BY <1>5, <2>2, <3>2, <3>3
    <2>3. \A i \in Nat : HopIn(f, m.first, i) \in Cluster =>
              /\ HopIn(g, m.first, i) = HopIn(f, m.first, i)
              /\ e[HopIn(f, m.first, i)] = d[HopIn(f, m.first, i)]
        BY <2>2
    <2> HIDE DEF m
    <2>4. Whole(g, m) /\ Good(g, e, m, ct[n], n)
        BY <2>1, <2>3, SameFile
    <2> QED BY <2>4 DEF m
<1>10. ASSUME NEW n \in Node, hs[n].attr = 1 PROVE Whole(g, hs[n]) /\ Good(g, e, hs[n], dt[n], n)
    <2>1. CASE n = k
        BY <1>7, <1>8, <2>1
    <2>2. CASE n # k
        BY <1>3, <1>9, <1>10, <2>2
    <2> QED BY <2>1, <2>2
<1> QED BY <1>10 DEF Stored

\* The open file is the only one, and its slot is right about it.
LEMMA WriteIntact ==
    ASSUME Polite, ReadInv, NEW h \in Handles, NEW r \in Requests, NEW v \in Vals,
           NEW eio \in BOOLEAN, fs_write(h, r.off, r.len, v, eio)
    PROVE  Sizes' /\ Intact'
<1> DEFINE fh    == handle[h].fh
           fd    == fd_array[fh]
           k     == fd.node
           off   == r.off
           len   == r.len
           j     == off \div U
           cur   == SeekCur(fd, off)
           index == SeekIndex(fd, off)
           first(a) == IF NeedsFirst(fd, cur) THEN a.c ELSE fd.first
           node(a) == [files[k] EXCEPT !.first = IF NeedsFirst(fd, cur) THEN a.c ELSE @]
           gs(a) == [files EXCEPT ![k] = node(a)]
           big   == off + len > fd.size
           size  == IF off + len > fd.size THEN off + len ELSE fd.size
           fills == (off % U) + len = U
<1>1. /\ files \in NodeTable /\ fat \in Table /\ fd_array \in SlotTable /\ data \in DataTable
      /\ handle \in HandleTable /\ content \in ContentTable /\ FatInv
    BY TypeParts DEF ReadInv, FatInv
<1>2. fh \in Slot /\ handle[h] # NoHandle
    <2>1. fh \in used_fds /\ used_fds \subseteq Slot
        BY TypeParts DEF ReadInv, fs_write
    <2> QED BY <1>1, <2>1, OpenFile DEF ReadInv
<1>3. /\ \A g \in Handles : handle[g] # NoHandle => g = h
      /\ k = handle[h].node /\ k \in Node /\ files[k].attr = 1 /\ fd.first = files[k].first
      /\ fd.size = files[k].size /\ files[k].size \in Nat
    BY <1>1, <1>2, OpenFile, FileSize DEF ReadInv, Sync, Sizes
<1>4. /\ off \in Nat /\ len \in Nat \ {0} /\ (off % U) + len <= U
      /\ off <= files[k].size
    <2>1. off \in 0 .. MaxSize - 1 /\ len \in 1 .. U /\ (off % U) + len <= U
        BY DEF Requests
    <2>2. off \in Nat /\ len \in Nat \ {0}
        BY <2>1, NandFsConstants
    <2>3. off <= files[handle[h].node].size
        BY DEF fs_write
    <2> QED BY <1>3, <2>1, <2>2, <2>3
<1>5. cur = HopIn(fat, fd.first, j) /\ index = j
    BY <1>3, <1>4, HopIs DEF SeekCur, SeekIndex
<1>6. j \in Nat /\ j \in 0 .. files[k].size \div U /\ off % U \in 0 .. U - 1
    <2>1. 0 .. off \div U \subseteq 0 .. files[k].size \div U
        BY <1>3, <1>4, BlocksMonotone
    <2>2. j \in Nat /\ off % U \in 0 .. U - 1
        BY <1>4, RequestPlaces
    <2> QED BY <2>1, <2>2
<1>7. \A a : /\ gs(a)[k] = node(a) /\ \A n \in Node \ {k} : gs(a)[n] = files[n]
             /\ node(a).first = first(a) /\ node(a).attr = 1 /\ node(a).name = files[k].name
             /\ node(a).uid = files[k].uid /\ node(a).size = files[k].size
    <2> TAKE a
    <2>1. files[k] \in NodeRecord
        BY <1>1, <1>3 DEF NodeTable
    <2>2. gs(a)[k] = node(a) /\ \A n \in Node \ {k} : gs(a)[n] = files[n]
        BY <1>1, <1>3 DEF NodeTable
    <2>3. /\ node(a).first = first(a) /\ node(a).attr = 1 /\ node(a).name = files[k].name
          /\ node(a).uid = files[k].uid /\ node(a).size = files[k].size
        <3> HIDE DEF k, fd, cur
        <3> QED BY <1>3, <2>1 DEF NodeRecord
    <2> QED BY <2>2, <2>3
\* The state once the write has the cluster it starts with.
<1>8. ASSUME NEW a \in FirstCluster(fd, cur), rootok, ~a.full
      PROVE  /\ gs(a) \in NodeTable /\ a.fat \in Table
             /\ LinksOK(a.fat) /\ FirstsOK(gs(a), a.fat)
             /\ Stored(gs(a), a.fat, data, content)
             /\ a.c \in Cluster /\ HopIn(a.fat, gs(a)[k].first, j) = a.c
             /\ \A i \in 0 .. gs(a)[k].size \div U : HopIn(a.fat, gs(a)[k].first, i) \in Cluster
    <2>1. gs(a) \in NodeTable /\ a.fat \in Table /\ LinksOK(a.fat) /\ FirstsOK(gs(a), a.fat)
        <3> DEFINE x == gs(a)
        <3>1. x = [files EXCEPT ![fd.node] =
                     [files[fd.node] EXCEPT !.first = IF NeedsFirst(fd, cur) THEN a.c ELSE @]]
            OBVIOUS
        <3> HIDE DEF x, fd, cur
        <3> QED BY <1>1, <3>1, FirstClusterFat DEF x
    <2>2. Stored(files, fat, data, content)
        BY <1>8 DEF ReadInv, Intact
    <2> DEFINE x == gs(a)
    <2>3. /\ x[k].attr = 1 /\ x[k].name = files[k].name /\ x[k].uid = files[k].uid
          /\ x[k].size = files[k].size /\ x[k].first = first(a)
          /\ \A n \in Node \ {k} : x[n] = files[n]
        <3> HIDE DEF gs, node, first, k
        <3> QED BY <1>7
    <2>4. x \in NodeTable
        BY <2>1
    <2> HIDE DEF x, k, fd, cur, j
    <2>5. /\ Stored(x, a.fat, data, content)
          /\ a.c \in Cluster /\ HopIn(a.fat, x[k].first, j) = a.c
          /\ \A i \in 0 .. x[k].size \div U : HopIn(a.fat, x[k].first, i) \in Cluster
        <3>1. /\ FatInv /\ Stored(files, fat, data, content) /\ k \in Node /\ files[k].attr = 1
              /\ fd.first = files[k].first /\ j \in Nat /\ j \in 0 .. files[k].size \div U
              /\ cur = HopIn(fat, fd.first, j) /\ a \in FirstCluster(fd, cur) /\ ~a.full
            BY <1>1, <1>3, <1>5, <1>6, <1>8, <2>2
        <3>2. /\ x \in NodeTable /\ x[k].attr = 1 /\ x[k].name = files[k].name
              /\ x[k].uid = files[k].uid /\ x[k].size = files[k].size
              /\ x[k].first = IF NeedsFirst(fd, cur) THEN a.c ELSE fd.first
              /\ \A n \in Node \ {k} : x[n] = files[n]
            BY <2>3, <2>4
        <3> QED BY ONLY <3>1, <3>2, StartCluster
    <2> QED BY <2>1, <2>5 DEF x
<1>9. ASSUME NEW s, fd_array' = [fd_array EXCEPT ![fh] = s], s.size = files'[k].size,
             UNCHANGED handle
      PROVE  Sizes'
    <2> SUFFICES ASSUME NEW g \in Handles, handle[g] # NoHandle
                 PROVE  fd_array'[handle[g].fh].size = files'[handle[g].node].size
        BY <1>9 DEF Sizes
    <2>1. g = h
        BY <1>3
    <2>2. fd_array'[fh] = s
        BY <1>1, <1>2, <1>9 DEF SlotTable
    <2> QED BY <1>3, <1>9, <2>1, <2>2
<1> HIDE DEF gs, node, cur, index, big, size, fills, j
<1>10. CASE GoWild
    BY <1>10, WildIntact DEF ReadInv
<1>11. ASSUME NEW a, a \in FirstCluster(fd, cur),
              files' = gs(a), fat' = a.fat, rootok' = (rootok /\ ~a.full),
              fd_array' = [fd_array EXCEPT ![fh] =
                  [fd EXCEPT !.first = first(a), !.cur = a.c, !.index = index]],
              UNCHANGED <<data, handle, content>>
       PROVE  Sizes' /\ Intact'
    <2> DEFINE s == [fd EXCEPT !.first = first(a), !.cur = a.c, !.index = index]
    <2>1. s.size = files'[k].size
        <3>1. s.size = fd.size
            BY <1>1, <1>2 DEF SlotTable, SlotRecord
        <3>2. files'[k].size = files[k].size
            BY <1>7, <1>11
        <3> QED BY <1>3, <3>1, <3>2
    <2>2. fd_array' = [fd_array EXCEPT ![fh] = s]
        BY <1>11
    <2> HIDE DEF s
    <2>3. Sizes'
        <3> HIDE DEF k, fh
        <3> QED BY <1>9, <1>11, <2>1, <2>2
    <2>4. Intact'
        BY <1>8, <1>11 DEF Intact
    <2> QED BY <2>3, <2>4
<1>12. ASSUME NEW a, a \in FirstCluster(fd, cur),
              NEW b, b \in (IF fills THEN NextCluster(a) ELSE {a}), NEW i,
              fat' = b.fat, rootok' = (rootok /\ ~a.full /\ ~b.full),
              fd_array' = [fd_array EXCEPT ![fh] =
                  [fd EXCEPT !.first = first(a), !.cur = b.c, !.size = size, !.index = i]],
              files' = [files EXCEPT ![k] = [node(a) EXCEPT !.size = IF big THEN size ELSE @]],
              data' = IF a.c \in Cluster
                  THEN [data EXCEPT ![a.c] =
                         [val |-> [u \in 0 .. U - 1 |->
                             IF u >= off % U /\ u < (off % U) + len THEN v ELSE @.val[u]],
                          mac |-> MacFor(k, index)]]
                  ELSE data,
              content' = [content EXCEPT ![handle[h].node] = Overwritten(@, off, len, v)],
              UNCHANGED handle
       PROVE  Sizes' /\ Intact'
    <2> DEFINE s == [fd EXCEPT !.first = first(a), !.cur = b.c, !.size = size, !.index = i]
               z == IF big THEN size ELSE node(a).size
               q == [node(a) EXCEPT !.size = z]
    <2>1. s.size = size
        BY <1>1, <1>2 DEF SlotTable, SlotRecord
    <2>2. size = IF off + len > files[k].size THEN off + len ELSE files[k].size
        BY <1>3 DEF size
    <2>3. z = size
        BY <1>3, <1>7 DEF size, big
    <2>4. /\ q.first = first(a) /\ q.name = files[k].name /\ q.uid = files[k].uid
          /\ q.size = z
        <3>1. node(a) = [files[k] EXCEPT !.first = IF NeedsFirst(fd, cur) THEN a.c ELSE @]
            BY DEF node
        <3>2. files[k] \in NodeRecord
            BY <1>1, <1>3 DEF NodeTable
        <3>3. node(a).first = first(a) /\ node(a).name = files[k].name /\ node(a).uid = files[k].uid
            BY <1>7
        <3> HIDE DEF z, k, first, fd
        <3>4. DOMAIN node(a) = {"attr", "name", "first", "sibling", "size", "uid"}
            BY <3>1, <3>2 DEF NodeRecord
        <3> QED BY <3>3, <3>4
    <2>5. files' = [files EXCEPT ![k] = q]
        BY <1>12
    <2>6. fd_array' = [fd_array EXCEPT ![fh] = s]
        BY <1>12
    <2> HIDE DEF s, q, z
    <2>7. files'[k] = q /\ \A n \in Node \ {k} : files'[n] = files[n]
        BY <1>1, <1>3, <2>5 DEF NodeTable
    <2>8. Sizes'
        <3>1. s.size = files'[k].size
            BY <2>1, <2>3, <2>4, <2>7
        <3> HIDE DEF k, fh
        <3> QED BY <1>9, <1>12, <2>6, <3>1
    <2>9. Intact'
        <3> SUFFICES ASSUME rootok, ~a.full, ~b.full PROVE Stored(files', fat', data', content')
            BY <1>12 DEF Intact
        <3>1. /\ gs(a) \in NodeTable /\ a.fat \in Table
              /\ LinksOK(a.fat) /\ FirstsOK(gs(a), a.fat)
              /\ Stored(gs(a), a.fat, data, content)
              /\ a.c \in Cluster /\ HopIn(a.fat, gs(a)[k].first, j) = a.c
              /\ \A l \in 0 .. gs(a)[k].size \div U : HopIn(a.fat, gs(a)[k].first, l) \in Cluster
            BY <1>8, <1>12
        <3>2. /\ gs(a)[k].attr = 1 /\ gs(a)[k].first = first(a) /\ gs(a)[k].name = files[k].name
              /\ gs(a)[k].uid = files[k].uid /\ gs(a)[k].size = files[k].size
              /\ \A n \in Node \ {k} : gs(a)[n] = files[n]
            BY <1>7
        <3>3. a.fat[a.c] \notin {FREE, RESV}
            BY <1>3, <1>6, <3>1, <3>2, HopInUse
        <3>4. /\ Room(b.fat) /\ (fills => b.fat[a.c] \in Cluster)
              /\ \A x \in Cluster : a.fat[x] \in Cluster => b.fat[x] = a.fat[x]
            <4>1. Room(a.fat)
                BY <3>1 DEF Stored
            <4>2. CASE fills
                BY <1>12, <3>1, <3>3, <4>1, <4>2, FollowCluster
            <4>3. CASE ~fills
                BY <1>12, <4>1, <4>3
            <4> QED BY <4>2, <4>3
        <3>5. data' = Written(data, a.c, off % U, len, v, MacOf(gs(a)[k], k, j))
            <4>1. MacOf(gs(a)[k], k, j) = MacFor(k, index)
                BY <1>5, <3>2 DEF MacOf, MacFor
            <4>2. data' = [data EXCEPT ![a.c] =
                         [val |-> [u \in 0 .. U - 1 |->
                             IF u >= off % U /\ u < (off % U) + len THEN v ELSE @.val[u]],
                          mac |-> MacFor(k, index)]]
                BY <1>12, <3>1
            <4> QED BY <4>1, <4>2 DEF Written
        <3>6. content' = [content EXCEPT ![k] = Overwritten(content[k], off, len, v)]
            BY <1>3, <1>12
        <3> DEFINE x == gs(a)
                   g == b.fat
                   hs == files'
                   e == data'
                   dt == content'
                   c == a.c
                   f == a.fat
        <3>7. /\ hs[k].first = x[k].first /\ hs[k].name = x[k].name /\ hs[k].uid = x[k].uid
              /\ hs[k].size = IF off + len > x[k].size THEN off + len ELSE x[k].size
              /\ \A n \in Node \ {k} : hs[n] = x[n]
            BY <2>2, <2>3, <2>4, <2>7, <3>2
        <3>8. off <= x[k].size
            BY <1>4, <3>2
        <3>9. fills <=> (off % U) + len = U
            BY DEF fills
        <3>10. Stored(hs, g, e, dt)
            <4>1. /\ x \in NodeTable /\ LinksOK(f) /\ FirstsOK(x, f) /\ Stored(x, f, data, content)
                  /\ x[k].attr = 1
                  /\ \A l \in 0 .. x[k].size \div U : HopIn(f, x[k].first, l) \in Cluster
                  /\ c \in Cluster /\ HopIn(f, x[k].first, off \div U) = c
                BY <3>1, <3>2 DEF j
            <4>2. /\ Room(g) /\ \A y \in Cluster : f[y] \in Cluster => g[y] = f[y]
                  /\ (off % U) + len = U => g[c] \in Cluster
                BY <3>4, <3>9
            <4>3. e = Written(data, c, off % U, len, v, MacOf(x[k], k, off \div U))
                BY <3>5 DEF j
            <4>4. dt = [content EXCEPT ![k] = Overwritten(content[k], off, len, v)]
                BY <3>6
            <4>5. /\ data \in DataTable /\ content \in ContentTable /\ k \in Node /\ v \in Vals
                  /\ off \in Nat /\ len \in Nat \ {0} /\ (off % U) + len <= U
                BY <1>1, <1>3, <1>4
            <4> HIDE DEF x, g, hs, e, dt, c, f, k, off, len
            <4>6. WriteTo(x, f, data, content, k, off, len, c, v, hs, g, e, dt)
                BY ONLY <4>1, <4>2, <4>3, <4>4, <4>5, <3>7, <3>8, Zenon DEF WriteTo
            <4> QED BY <4>6, WrittenStored
        <3> QED BY <1>12, <3>10
    <2> QED BY <2>8, <2>9
<1> DEFINE short(a) == /\ files' = gs(a) /\ fat' = a.fat /\ rootok' = (rootok /\ ~a.full)
                       /\ fd_array' = [fd_array EXCEPT ![fh] =
                             [fd EXCEPT !.first = first(a), !.cur = a.c, !.index = index]]
                       /\ UNCHANGED <<data, handle, content>>
           full(a, b) ==
              /\ fat' = b.fat /\ rootok' = (rootok /\ ~a.full /\ ~b.full)
              /\ fd_array' = [fd_array EXCEPT ![fh] =
                   [fd EXCEPT !.first = first(a), !.cur = b.c, !.size = size,
                              !.index = IF fills THEN index + 1 ELSE index]]
              /\ files' = [files EXCEPT ![k] = [node(a) EXCEPT !.size = IF big THEN size ELSE @]]
              /\ data' = IF a.c \in Cluster
                  THEN [data EXCEPT ![a.c] =
                         [val |-> [u \in 0 .. U - 1 |->
                             IF u >= off % U /\ u < (off % U) + len THEN v ELSE @.val[u]],
                          mac |-> MacFor(k, index)]]
                  ELSE data
              /\ content' = [content EXCEPT ![handle[h].node] = Overwritten(@, off, len, v)]
              /\ UNCHANGED handle
<1>13. \/ GoWild
       \/ \E a \in FirstCluster(fd, cur) : short(a)
       \/ \E a \in FirstCluster(fd, cur) :
             \E b \in IF fills THEN NextCluster(a) ELSE {a} : full(a, b)
    BY ZenonT(40) DEF fs_write, cur, gs, node, big, size, fills, index
<1> QED BY <1>10, <1>11, <1>12, <1>13

LEMMA StepIntact ==
    ASSUME Alone, Polite, ReadInv, [Next]_vars
    PROVE  Sizes' /\ Intact'
<1>1. ASSUME NEW path \in Paths, PathStep(path) PROVE Sizes' /\ Intact'
    <2>1. CASE fs_mknod(path)
        BY <2>1, CreateIntact DEF fs_mknod
    <2>2. CASE fs_mkdir(path)
        BY <2>2, CreateIntact DEF fs_mkdir
    <2>3. CASE fs_unlink(path)
        BY <2>3, UnlinkIntact DEF fs_unlink
    <2>4. CASE fs_rmdir(path)
        BY <2>4, UnlinkIntact DEF fs_rmdir
    <2>5. ASSUME NEW size \in 0 .. MaxSize, fs_truncate(path, size) PROVE Sizes' /\ Intact'
        BY <2>5, TruncateIntact
    <2>6. ASSUME "rename" \in Ops, NEW newpath \in Paths, fs_rename(path, newpath)
          PROVE  Sizes' /\ Intact'
        BY <2>6, RenameIntact
    <2>7. ASSUME "chown" \in Ops, NEW uid \in Uids, fs_chown(path, uid)
          PROVE  Sizes' /\ Intact'
        BY <2>7, ChownIntact
    <2> QED BY <1>1, <2>1, <2>2, <2>3, <2>4, <2>5, <2>6, <2>7 DEF PathStep
<1>2. ASSUME NEW h \in Handles, HandleStep(h) PROVE Sizes' /\ Intact'
    <2>1. ASSUME NEW path \in Paths, fs_open(h, path) PROVE Sizes' /\ Intact'
        BY <2>1, OpenIntact
    <2>2. CASE fs_release(h)
        BY <2>2, ReleaseIntact
    <2>3. ASSUME NEW off, NEW len, fs_read(h, off, len) PROVE Sizes' /\ Intact'
        BY <2>3, ReadIntact
    <2>4. ASSUME NEW r \in Requests, NEW v \in Vals \ {0}, NEW eio \in BOOLEAN,
                 fs_write(h, r.off, r.len, v, eio)
          PROVE  Sizes' /\ Intact'
        BY <2>4, WriteIntact
    <2> QED BY <1>2, <2>1, <2>2, <2>3, <2>4 DEF HandleStep
<1>3. CASE UNCHANGED vars
    BY <1>3, SameIntact DEF vars, ReadInv, Sizes
<1> QED BY <1>1, <1>2, <1>3 DEF Next

-----------------------------------------------------------------------------
(* The files found on the NAND *)

\* Every file found is empty or has its clusters, no more of them than there are.
InitWhole ==
    /\ Room(InitFat)
    /\ \A n \in Node : InitFiles[n].attr = 1 =>
          Whole(InitFat, InitFiles[n]) /\ InitFiles[n].size \div U <= NC

\* The Wii wrote every cluster under the HMAC of its place.
LEMMA InitMac ==
    ASSUME Init, FatOK, NEW n \in Node, files[n].attr = 1, NEW k \in 0 .. NC,
           HopIn(fat, files[n].first, k) \in Cluster
    PROVE  data[HopIn(fat, files[n].first, k)].mac = MacOf(files[n], n, k)
<1> DEFINE c == HopIn(fat, files[n].first, k)
           S == {MacFor(m, j) : m \in Files, j \in 0 .. NC}
           P(m) == Hop(files[m.node].first, m.index) = c
<1>1. n \in Files /\ Hop(files[n].first, k) = c
    BY HopIs DEF Files
<1>2. data[c].mac = CHOOSE m \in S : P(m)
    <2>1. FoundMac(c) = CHOOSE m \in S : P(m)
        BY <1>1 DEF FoundMac
    <2> HIDE DEF c, S, P
    <2>2. data[c].mac = FoundMac(c)
        BY DEF Init, c
    <2> QED BY <2>1, <2>2
<1>3. MacFor(n, k) \in S /\ P(MacFor(n, k))
    BY <1>1 DEF MacFor
<1>4. ASSUME NEW m \in S, P(m) PROVE m = MacOf(files[n], n, k)
    <2>1. PICK b \in Files, j \in 0 .. NC : m = MacFor(b, j)
        OBVIOUS
    <2>2. b \in Node /\ files[b].attr = 1 /\ j \in Nat /\ k \in Nat
        BY DEF Files
    <2>3. m.node = b /\ m.index = j
        BY <2>1 DEF MacFor
    <2>4. HopIn(fat, files[b].first, j) = c
        BY <1>4, <2>3, HopIs
    <2>5. LinksOK(fat) /\ FirstsOK(files, fat)
        BY DEF FatOK
    <2>6. b = n /\ j = k
        BY <2>2, <2>4, <2>5, HopDistinct
    <2> QED BY <2>1, <2>6 DEF MacFor, MacOf
<1> HIDE DEF c, S, P
<1>5. data[c].mac \in S /\ P(data[c].mac)
    BY <1>2, <1>3
<1> QED BY <1>4, <1>5 DEF c

\* A file is as long as the zeros found in it.
LEMMA Zeros ==
    ASSUME NEW size \in Nat
    PROVE  LET z == [p \in 1 .. size |-> 0]
           IN  Len(z) = size /\ \A p \in 1 .. size : z[p] = 0
<1> DEFINE z == [p \in 1 .. size |-> 0]
<1>1. z \in [1 .. size -> {0}] /\ DOMAIN z = 1 .. size /\ \A p \in 1 .. size : z[p] = 0
    OBVIOUS
<1> HIDE DEF z
<1>2. z \in Seq({0})
    BY <1>1
<1>3. DOMAIN z = 1 .. Len(z) /\ Len(z) \in Nat
    BY <1>2
<1>4. Len(z) = size
    BY <1>1, <1>3
<1> QED BY <1>1, <1>4 DEF z

LEMMA InitIntact ==
    ASSUME InitConsistent, InitWhole, Init PROVE ReadInv
<1>1. TypeOK /\ FatOK
    BY InitTypes, InitFatInv DEF FatInv
<1>2. Sync /\ Sizes
    BY DEF Init, Sync, Sizes
<1>3. ASSUME NEW n \in Node, files[n].attr = 1
      PROVE  Whole(fat, files[n]) /\ Good(fat, data, files[n], content[n], n)
    <2>1. Whole(fat, files[n]) /\ files[n].size \div U <= NC
        BY <1>3 DEF Init, InitWhole
    <2>2. files[n].size \in Nat
        BY <1>1, FileSize, TypeParts
    <2> DEFINE z == [p \in 1 .. files[n].size |-> 0]
    <2>3. content[n] = z
        BY <1>3 DEF Init
    <2>4. Len(z) = files[n].size /\ \A p \in 1 .. files[n].size : z[p] = 0
        BY <2>2, Zeros
    <2> HIDE DEF z
    <2>5. ASSUME NEW p \in 1 .. files[n].size
          PROVE  LET c == HopIn(fat, files[n].first, Block(p))
                 IN  /\ c \in Cluster /\ data[c].val[Unit(p)] = content[n][p]
                     /\ data[c].mac = MacOf(files[n], n, Block(p))
        <3> DEFINE c == HopIn(fat, files[n].first, Block(p))
        <3>1. p \in Nat \ {0}
            BY <2>2
        <3>2. Block(p) \in 0 .. files[n].size \div U /\ c \in Cluster
            BY <2>1, <2>2, WholeBlocks
        <3>3. Block(p) \in 0 .. NC
            BY <2>1, <2>2, <3>2, NandFsConstants
        <3>4. data[c].mac = MacOf(files[n], n, Block(p))
            BY <1>1, <1>3, <3>2, <3>3, InitMac
        <3>5. Unit(p) \in 0 .. U - 1
            BY <3>1, Places
        <3> HIDE DEF c
        <3>6. data[c].val[Unit(p)] = 0
            <4>1. data[c].val = [u \in 0 .. U - 1 |-> 0]
                BY <3>2, Zenon DEF Init
            <4> QED BY <3>5, <4>1
        <3>7. content[n][p] = 0
            BY <2>3, <2>4
        <3> QED BY <3>2, <3>4, <3>6, <3>7 DEF c
    <2>6. Good(fat, data, files[n], content[n], n)
        BY <2>3, <2>4, <2>5 DEF Good
    <2> QED BY <2>1, <2>6
<1>4. Room(fat)
    BY DEF Init, InitWhole
<1>5. Intact
    BY <1>3, <1>4 DEF Intact, Stored
<1> QED BY <1>1, <1>2, <1>5 DEF ReadInv

\* Every step with files open one at a time keeps the invariant.
LEMMA StepReadInv ==
    ASSUME Alone, Polite, ReadInv, [Next]_vars PROVE ReadInv'
<1>1. FatInv
    BY TypeParts DEF ReadInv, FatInv, NodeTable, Table
<1>2. FatOK'
    BY <1>1, StepFatInv DEF FatInv
<1>3. TypeOK' /\ Sync'
    BY StepTypes, StepLeak DEF ReadInv
<1>4. Sizes' /\ Intact'
    BY StepIntact
<1> QED BY <1>2, <1>3, <1>4 DEF ReadInv

\* With files open one at a time, without holes and truncation across clusters, every
\* file holds what was written to it, cluster by cluster through its chain: fs_write,
\* nandfs_seek, the cluster nandfs_write allocates ahead, reads that fail, renames and
\* the removal of other files never get one file's data into another, as long as no
\* allocation overwrote the name of files[0].
THEOREM ContentsStay ==
    ASSUME Alone, Polite, InitConsistent, InitWhole
    PROVE  Spec => [](rootok => \A n \in Files : Holds(n))
<1>1. Init => ReadInv
    BY InitIntact
<1>2. ReadInv /\ [Next]_vars => ReadInv'
    BY StepReadInv
<1>3. ReadInv => (rootok => \A n \in Files : Holds(n))
    BY StoredReads DEF ReadInv, Intact
<1> QED BY <1>1, <1>2, <1>3, PTL DEF Spec

\* Moreover, every cluster is under the HMAC nandfs_read computes for its place.  The
\* HMAC binds name and owner, so fs_rename and fs_chown are out.
THEOREM WrittenIsRead ==
    ASSUME Alone, Polite, NamesStay, InitConsistent, InitWhole
    PROVE  Spec => [](rootok => ReadsBack)
<1>1. Init => ReadInv
    BY InitIntact
<1>2. ReadInv /\ [Next]_vars => ReadInv'
    BY StepReadInv
<1>3. ReadInv => (rootok => ReadsBack)
    BY StoredReads DEF ReadInv, Intact, ReadsBack
<1> QED BY <1>1, <1>2, <1>3, PTL DEF Spec

-----------------------------------------------------------------------------
(* The tree *)

\* The nodes in use, apart from the root.
Linked(fs) == {n \in Node \ {0} : fs[n].attr # 0}

\* The nodes of K make up the sibling lists of fs: each has one parent and its
\* place there, counted from 0 and without gaps.
Laid(fs, K, par, pos) ==
    /\ par \in [Node -> Node] /\ pos \in [Node -> Nat]
    /\ K \subseteq Node \ {0}
    /\ \A n \in K :
        /\ par[n] # n /\ fs[par[n]].attr = 2 /\ fs[par[n]].first # Nil
        /\ fs[n].sibling # Nil =>
              /\ fs[n].sibling \in K
              /\ par[fs[n].sibling] = par[n] /\ pos[fs[n].sibling] = pos[n] + 1
        /\ \A m \in K : par[m] = par[n] =>
              /\ pos[m] = pos[n] => m = n
              /\ fs[n].sibling = Nil => pos[m] <= pos[n]
    /\ \A d \in Node : fs[d].attr = 2 /\ fs[d].first # Nil =>
          fs[d].first \in K /\ par[fs[d].first] = d /\ pos[fs[d].first] = 0

\* A directory lists no two objects of a type under one name.
Distinct(fs, K, par) ==
    \A n, m \in K :
        par[n] = par[m] /\ fs[n].name = fs[m].name /\ fs[n].attr = fs[m].attr => n = m

\* w follows the siblings from start, for as many links as there are nodes.
SiblingWalk(fs, start, w) ==
    /\ w[0] = start
    /\ \A k \in 1 .. NN : w[k] = IF w[k-1] \in Node THEN fs[w[k-1]].sibling ELSE Nil

\* What FirstOf finds, it finds on such a walk.
LEMMA FirstOfWalk ==
    ASSUME NEW fs, NEW start
    PROVE  \E w : /\ SiblingWalk(fs, start, w)
                  /\ \A S : FirstOf(fs, start, S) =
                        {n \in S : \E k \in 0 .. NN :
                            w[k] = n /\ \A j \in 0 .. k - 1 : w[j] \notin S}
<1> DEFINE g == [n \in Node |-> fs[n].sibling]
           R(w) == w = [k \in 0 .. NN |-> IF k = 0 THEN start
                          ELSE IF w[k-1] \in Node THEN fs[w[k-1]].sibling ELSE Nil]
           w == CHOOSE v : R(v)
<1>1. NN \in Nat
    BY NandFsConstants
<1>2. PICK v : Walk(Node, g, Nil, start, v, NN)
    BY <1>1, WalkExists
<1>3. R(v)
    BY <1>2 DEF Walk
<1>4. R(w)
    <2> HIDE DEF R
    <2> QED BY <1>3
<1>5. \A S : FirstOf(fs, start, S) =
                        {n \in S : \E k \in 0 .. NN :
                            w[k] = n /\ \A j \in 0 .. k - 1 : w[j] \notin S}
    BY DEF FirstOf
<1> HIDE DEF w
<1>6. \A k \in 0 .. NN : w[k] = IF k = 0 THEN start
                          ELSE IF w[k-1] \in Node THEN fs[w[k-1]].sibling ELSE Nil
    BY <1>4
<1>7. SiblingWalk(fs, start, w)
    BY <1>1, <1>6 DEF SiblingWalk
<1> QED BY <1>5, <1>7

\* n is a child of d.
Kid(K, par, n, d) == n \in K /\ par[n] = d

\* A walk from the first child of d meets only its children, in their places.
LEMMA WalkMeetsKids ==
    ASSUME NEW fs, NEW K, NEW par, NEW pos, Laid(fs, K, par, pos),
           NEW d \in Node, fs[d].attr = 2, NEW w, SiblingWalk(fs, fs[d].first, w)
    PROVE  \A k \in 0 .. NN : w[k] = Nil \/ (Kid(K, par, w[k], d) /\ pos[w[k]] = k)
<1> DEFINE P(k) == w[k] = Nil \/ (Kid(K, par, w[k], d) /\ pos[w[k]] = k)
           Bad == {k \in 0 .. NN : ~P(k)}
<1>1. SUFFICES ASSUME Bad # {} PROVE FALSE
    OBVIOUS
<1>2. Bad \subseteq Nat /\ \A k : k \in Bad <=> k \in 0 .. NN /\ ~P(k)
    OBVIOUS
<1> HIDE DEF Bad
<1>3. PICK k \in Bad : \A j \in Bad : k <= j
    BY <1>1, <1>2, LeastNumber
<1>4. k # 0
    <2>1. P(0)
        BY DEF Laid, SiblingWalk, Kid
    <2> QED BY <1>2, <1>3, <2>1
<1>5. k - 1 \in 0 .. NN /\ k - 1 \notin Bad /\ k \in 1 .. NN
    BY <1>2, <1>3, <1>4, NandFsConstants
<1>6. w[k] = IF w[k-1] \in Node THEN fs[w[k-1]].sibling ELSE Nil
    BY <1>5 DEF SiblingWalk
<1>7. P(k - 1)
    BY <1>2, <1>5
<1>8. P(k)
    <2>1. CASE w[k - 1] = Nil
        <3>1. Nil \notin Node
            BY NandFsConstants DEF Nil, Node
        <3> QED BY <1>6, <2>1, <3>1
    <2>2. CASE Kid(K, par, w[k-1], d) /\ pos[w[k-1]] = k - 1
        BY <1>5, <1>6, <2>2 DEF Laid, Kid
    <2> QED BY <1>7, <2>1, <2>2
<1> QED BY <1>2, <1>3, <1>8

\* It meets a child of d at every place up to that of any child.
LEMMA WalkGoesOn ==
    ASSUME NEW fs, NEW K, NEW par, NEW pos, Laid(fs, K, par, pos),
           NEW d \in Node, fs[d].attr = 2, NEW w, SiblingWalk(fs, fs[d].first, w),
           NEW n, Kid(K, par, n, d)
    PROVE  \A k \in 0 .. NN : k <= pos[n] => Kid(K, par, w[k], d) /\ pos[w[k]] = k
<1> DEFINE Bad == {k \in 0 .. NN : k <= pos[n] /\ w[k] = Nil}
<1>1. \A k \in 0 .. NN : w[k] = Nil \/ (Kid(K, par, w[k], d) /\ pos[w[k]] = k)
    BY WalkMeetsKids
<1>2. SUFFICES ASSUME Bad # {} PROVE FALSE
    BY <1>1
<1>3. Bad \subseteq Nat /\ \A k : k \in Bad <=> k \in 0 .. NN /\ k <= pos[n] /\ w[k] = Nil
    OBVIOUS
<1> HIDE DEF Bad
<1>4. PICK k \in Bad : \A j \in Bad : k <= j
    BY <1>2, <1>3, LeastNumber
<1>5. k # 0
    <2>1. fs[d].first # Nil
        BY DEF Laid, Kid
    <2> QED BY <1>3, <1>4, <2>1 DEF SiblingWalk
<1>6. k - 1 \in 0 .. NN /\ k - 1 \notin Bad /\ k \in 1 .. NN /\ k <= pos[n] /\ w[k] = Nil
    BY <1>3, <1>4, <1>5, NandFsConstants
<1>7. pos[n] \in Nat
    BY DEF Laid, Kid
<1>8. Kid(K, par, w[k-1], d) /\ pos[w[k-1]] = k - 1
    BY <1>1, <1>3, <1>6, <1>7
<1>9. fs[w[k-1]].sibling = Nil
    BY <1>6, <1>8 DEF SiblingWalk, Laid, Kid
<1>10. pos[n] <= pos[w[k-1]]
    BY <1>8, <1>9 DEF Laid, Kid
<1> QED BY <1>6, <1>7, <1>8, <1>10

\* A list has fewer places than there are nodes.
LEMMA PlacesBounded ==
    ASSUME NEW fs, NEW K, NEW par, NEW pos, Laid(fs, K, par, pos), NEW n \in K
    PROVE  pos[n] \in 0 .. NN
<1> DEFINE d == par[n]
<1>1. d \in Node /\ fs[d].attr = 2 /\ pos[n] \in Nat /\ Kid(K, par, n, d) /\ K \subseteq Node \ {0}
    BY DEF Laid, Kid
<1>2. PICK w : SiblingWalk(fs, fs[d].first, w)
    BY FirstOfWalk
<1>3. SUFFICES ASSUME pos[n] > NN PROVE FALSE
    BY <1>1, NandFsConstants
<1>4. \A k \in 0 .. NN : w[k] \in K /\ pos[w[k]] = k
    BY <1>1, <1>2, <1>3, WalkGoesOn, NandFsConstants DEF Kid
<1> DEFINE f == [k \in 0 .. NN |-> w[k]]
<1>5. f \in [0 .. NN -> Node] /\ \A i, j \in 0 .. NN : i # j => f[i] # f[j]
    BY <1>1, <1>4
<1>6. /\ IsFiniteSet(0 .. NN) /\ IsFiniteSet(Node)
      /\ Cardinality(0 .. NN) = NN + 1 /\ Cardinality(Node) = NN
    <2>1. NN \in Nat /\ NN > 1
        BY NandFsConstants
    <2> QED BY <2>1, FS_Interval DEF Node
<1>7. Cardinality(Node) < Cardinality(0 .. NN)
    BY <1>6, NandFsConstants
<1> HIDE DEF f
<1>8. \E i, j \in 0 .. NN : i # j /\ f[i] = f[j]
    <2>1. f \in [0 .. NN -> Node] /\ IsFiniteSet(0 .. NN) /\ IsFiniteSet(Node)
        BY <1>5, <1>6
    <2> QED BY <1>7, <2>1, FS_PigeonHole, Zenon
<1> QED BY <1>5, <1>8

\* Two children of a directory are not in one place.
LEMMA OnePerPlace ==
    ASSUME NEW fs, NEW K, NEW par, NEW pos, Laid(fs, K, par, pos),
           NEW d, NEW m, NEW n, Kid(K, par, m, d), Kid(K, par, n, d), pos[m] = pos[n]
    PROVE  m = n
BY DEF Laid, Kid

\* A search among the children of d finds the first of them.
LEMMA FirstKid ==
    ASSUME NEW fs, NEW K, NEW par, NEW pos, Laid(fs, K, par, pos),
           NEW d \in Node, fs[d].attr = 2, NEW S, S \subseteq Node
    PROVE  FirstOf(fs, fs[d].first, S) =
              {n \in S : /\ Kid(K, par, n, d)
                         /\ \A m \in S : Kid(K, par, m, d) => pos[n] <= pos[m]}
<1>1. PICK w : /\ SiblingWalk(fs, fs[d].first, w)
               /\ FirstOf(fs, fs[d].first, S) =
                     {n \in S : \E k \in 0 .. NN :
                         w[k] = n /\ \A j \in 0 .. k - 1 : w[j] \notin S}
    BY FirstOfWalk
<1>2. Nil \notin Node /\ NN \in Nat
    BY NandFsConstants DEF Nil, Node
<1>3. \A n : Kid(K, par, n, d) => pos[n] \in 0 .. NN /\ pos[n] \in Nat
    BY PlacesBounded, <1>2 DEF Kid
<1>4. ASSUME NEW n \in S, NEW k \in 0 .. NN, w[k] = n, \A j \in 0 .. k - 1 : w[j] \notin S
      PROVE  /\ Kid(K, par, n, d)
             /\ \A m \in S : Kid(K, par, m, d) => pos[n] <= pos[m]
    <2>1. Kid(K, par, n, d) /\ pos[n] = k
        BY <1>1, <1>2, <1>4, WalkMeetsKids
    <2>2. SUFFICES ASSUME NEW m \in S, Kid(K, par, m, d), pos[m] < pos[n] PROVE FALSE
        BY <1>3, <2>1
    <2>3. pos[m] \in 0 .. NN /\ pos[m] \in 0 .. k - 1
        BY <1>3, <2>1, <2>2
    <2>4. Kid(K, par, w[pos[m]], d) /\ pos[w[pos[m]]] = pos[m]
        BY <1>1, <2>2, <2>3, WalkGoesOn
    <2>5. w[pos[m]] = m
        BY <2>2, <2>4, OnePerPlace
    <2> QED BY <1>4, <2>3, <2>5
<1>5. ASSUME NEW n \in S, Kid(K, par, n, d),
             \A m \in S : Kid(K, par, m, d) => pos[n] <= pos[m]
      PROVE  \E k \in 0 .. NN : w[k] = n /\ \A j \in 0 .. k - 1 : w[j] \notin S
    <2>1. \A j \in 0 .. pos[n] : /\ j \in 0 .. NN /\ j <= pos[n]
                                 /\ Kid(K, par, w[j], d) /\ pos[w[j]] = j
        <3>1. \A j \in 0 .. pos[n] : j \in 0 .. NN /\ j <= pos[n]
            BY <1>2, <1>3, <1>5
        <3>2. \A j \in 0 .. NN : j <= pos[n] => Kid(K, par, w[j], d) /\ pos[w[j]] = j
            BY <1>1, <1>5, WalkGoesOn
        <3> QED BY <3>1, <3>2
    <2>2. w[pos[n]] = n
        BY <1>3, <1>5, <2>1, OnePerPlace
    <2>3. \A j \in 0 .. pos[n] - 1 : w[j] \notin S
        <3> SUFFICES ASSUME NEW j \in 0 .. pos[n] - 1, w[j] \in S PROVE FALSE
            OBVIOUS
        <3>1. j \in 0 .. pos[n] /\ j < pos[n]
            BY <1>3, <1>5
        <3>2. Kid(K, par, w[j], d) /\ pos[w[j]] = j
            BY <2>1, <3>1
        <3>3. pos[n] <= j
            BY <1>5, <3>2
        <3> QED BY <1>3, <1>5, <3>1, <3>3
    <2> QED BY <1>3, <1>5, <2>2, <2>3
<1> DEFINE F == FirstOf(fs, fs[d].first, S)
<1>6. F \subseteq S /\ \A n \in S : n \in F <=>
          \E k \in 0 .. NN : w[k] = n /\ \A j \in 0 .. k - 1 : w[j] \notin S
    BY <1>1
<1> HIDE DEF F
<1>7. \A n \in S : n \in F <=>
          Kid(K, par, n, d) /\ \A m \in S : Kid(K, par, m, d) => pos[n] <= pos[m]
    BY <1>4, <1>5, <1>6
<1>8. F = {n \in S : /\ Kid(K, par, n, d)
                      /\ \A m \in S : Kid(K, par, m, d) => pos[n] <= pos[m]}
    BY <1>6, <1>7
<1> QED BY <1>8 DEF F

\* It finds one if there is one.
LEMMA FindsKid ==
    ASSUME NEW fs, NEW K, NEW par, NEW pos, Laid(fs, K, par, pos),
           NEW d \in Node, fs[d].attr = 2, NEW S, S \subseteq Node,
           NEW m \in S, Kid(K, par, m, d)
    PROVE  FirstOf(fs, fs[d].first, S) # {}
<1> DEFINE P == {pos[x] : x \in {y \in S : Kid(K, par, y, d)}}
<1>1. P \subseteq Nat /\ P # {}
    <2>1. \A y \in K : pos[y] \in Nat
        BY DEF Laid
    <2>2. P # {}
        OBVIOUS
    <2>3. P \subseteq Nat
        BY <2>1 DEF Kid
    <2> QED BY <2>2, <2>3
<1>2. \A y \in S : Kid(K, par, y, d) => pos[y] \in P
    OBVIOUS
<1>3. \A p \in P : \E y \in S : Kid(K, par, y, d) /\ pos[y] = p
    OBVIOUS
<1> HIDE DEF P
<1>4. PICK p \in P : \A q \in P : p <= q
    BY <1>1, LeastNumber
<1>5. PICK n \in S : Kid(K, par, n, d) /\ pos[n] = p
    BY <1>3
<1>6. n \in FirstOf(fs, fs[d].first, S)
    BY <1>2, <1>4, <1>5, FirstKid
<1> QED BY <1>6

\* It finds the child there is when there are not two.
LEMMA OnlyKid ==
    ASSUME NEW fs, NEW K, NEW par, NEW pos, Laid(fs, K, par, pos),
           NEW d \in Node, fs[d].attr = 2, NEW S, S \subseteq Node,
           \A m, n \in S : Kid(K, par, m, d) /\ Kid(K, par, n, d) => m = n
    PROVE  FirstOf(fs, fs[d].first, S) = {n \in S : Kid(K, par, n, d)}
<1>1. \A n \in K : pos[n] \in Nat
    BY DEF Laid
<1> QED BY <1>1, FirstKid DEF Kid

\* Nothing is found on an empty list.
LEMMA NoneFound ==
    ASSUME NEW fs, NEW S, S \subseteq Node PROVE FirstOf(fs, Nil, S) = {}
<1>1. PICK w : /\ SiblingWalk(fs, Nil, w)
               /\ FirstOf(fs, Nil, S) = {n \in S : \E k \in 0 .. NN :
                         w[k] = n /\ \A j \in 0 .. k - 1 : w[j] \notin S}
    BY FirstOfWalk
<1>2. Nil \notin Node
    BY NandFsConstants DEF Nil, Node
<1> DEFINE Bad == {k \in 0 .. NN : w[k] # Nil}
<1>3. Bad = {}
    <2> SUFFICES ASSUME Bad # {} PROVE FALSE
        OBVIOUS
    <2>1. Bad \subseteq Nat /\ \A k : k \in Bad <=> k \in 0 .. NN /\ w[k] # Nil
        OBVIOUS
    <2> HIDE DEF Bad
    <2>2. PICK k \in Bad : \A j \in Bad : k <= j
        BY <2>1, LeastNumber
    <2>3. k # 0
        BY <1>1, <2>1, <2>2 DEF SiblingWalk
    <2>4. k \in 1 .. NN /\ k - 1 \in 0 .. NN /\ k - 1 \notin Bad
        BY <2>1, <2>2, <2>3, NandFsConstants
    <2> QED BY <1>1, <1>2, <2>1, <2>2, <2>4 DEF SiblingWalk
<1> QED BY <1>1, <1>2, <1>3

\* A tree: the lists, and the names on them, under a root.
Tree(fs, K, par, pos) == fs[0].attr = 2 /\ Laid(fs, K, par, pos) /\ Distinct(fs, K, par)

\* The inductive invariant: the nodes in use make up a tree.
TreeAt(fs) == \E par \in [Node -> Node], pos \in [Node -> Nat] : Tree(fs, Linked(fs), par, pos)

\* The children of a directory, as TreeOK reads them off its list, are those whose
\* parent it is.
LEMMA ChildrenAre ==
    ASSUME NEW K, NEW par, NEW pos, Laid(files, K, par, pos),
           NEW d \in Node, files[d].attr = 2
    PROVE  ChildrenOf(d) = {n \in Node : Kid(K, par, n, d)}
<1>1. \A n \in Node : FirstOf(files, files[d].first, {n}) = {m \in {n} : Kid(K, par, m, d)}
    <2> SUFFICES ASSUME NEW n \in Node
                 PROVE  FirstOf(files, files[d].first, {n}) = {m \in {n} : Kid(K, par, m, d)}
        OBVIOUS
    <2> DEFINE S == {n}
    <2>1. S \subseteq Node /\ \A x, y \in S : x = y
        OBVIOUS
    <2> HIDE DEF S
    <2>2. FirstOf(files, files[d].first, S) = {m \in S : Kid(K, par, m, d)}
        BY <2>1, OnlyKid
    <2> QED BY <2>2 DEF S
<1> QED BY <1>1 DEF ChildrenOf

\* What the inductive invariant says of the lists the code walks.
LEMMA TreeAtOK == ASSUME TreeAt(files) PROVE TreeOK
<1>1. PICK par \in [Node -> Node], pos \in [Node -> Nat] : Tree(files, Linked(files), par, pos)
    BY DEF TreeAt
<1> DEFINE K == Linked(files)
<1>2. Laid(files, K, par, pos) /\ Distinct(files, K, par)
    BY <1>1 DEF Tree
<1>3. \A d \in Dirs : ChildrenOf(d) = {n \in Node : Kid(K, par, n, d)}
    <2> HIDE DEF K
    <2> QED BY <1>2, ChildrenAre DEF Dirs
<1>4. ASSUME NEW n \in Node \ {0}, files[n].attr # 0
      PROVE  \E d \in Dirs \ {n} : n \in ChildrenOf(d)
    <2>1. n \in K
        BY <1>4 DEF Linked
    <2>2. par[n] \in Dirs \ {n}
        BY <1>2, <2>1 DEF Laid, Dirs
    <2> QED BY <1>3, <2>1, <2>2 DEF Kid
<1>5. \A n \in K : n # 0 /\ files[n].attr # 0
    BY DEF Linked
<1> HIDE DEF K
<1>6. ASSUME NEW d \in Dirs, NEW n \in ChildrenOf(d)
      PROVE  /\ files[n].attr # 0 /\ n # 0
             /\ \A e \in Dirs \ {d} : n \notin ChildrenOf(e)
             /\ \A m \in ChildrenOf(d) \ {n} :
                   files[m].name = files[n].name => files[m].attr # files[n].attr
    <2>1. Kid(K, par, n, d)
        BY <1>3
    <2>2. files[n].attr # 0 /\ n # 0
        BY <1>5, <2>1 DEF Kid
    <2>3. \A e \in Dirs \ {d} : n \notin ChildrenOf(e)
        BY <1>3, <2>1 DEF Kid
    <2>4. \A m \in ChildrenOf(d) \ {n} :
                   files[m].name = files[n].name => files[m].attr # files[n].attr
        BY <1>2, <1>3, <2>1 DEF Kid, Distinct
    <2> QED BY <2>2, <2>3, <2>4
<1> QED BY <1>4, <1>6 DEF TreeOK

-----------------------------------------------------------------------------
(* Paths *)

\* One step of ChildList: from the head of a list to that of the directory of
\* a name on it.
Within(fs, name) == {n \in Named(fs, name, 2) : fs[n].first # Nil}
NextHead(fs, h, name) ==
    LET d == FirstOf(fs, h, Within(fs, name))
    IN  IF d = {} THEN Nil ELSE fs[CHOOSE n \in d : TRUE].first

\* The heads along the first m names of dir.
HeadWalk(fs, dir, m, h) ==
    h = [i \in 0 .. m |-> IF i = 0 THEN fs[0].first ELSE NextHead(fs, h[i-1], dir[i])]

\* A path goes on for one name more.
LEMMA OneHeadMore ==
    ASSUME NEW fs, NEW dir, NEW m \in Nat \ {0}, NEW h, HeadWalk(fs, dir, m - 1, h)
    PROVE  \E t : HeadWalk(fs, dir, m, t)
<1> DEFINE t == [i \in 0 .. m |-> IF i = m THEN NextHead(fs, h[m - 1], dir[m]) ELSE h[i]]
<1>1. DOMAIN t = 0 .. m /\ t = [i \in 0 .. m |-> t[i]]
    OBVIOUS
<1>2. \A i \in 0 .. m : t[i] = IF i = m THEN NextHead(fs, h[m - 1], dir[m]) ELSE h[i]
    OBVIOUS
<1>3. \A i \in 0 .. m - 1 : h[i] = IF i = 0 THEN fs[0].first ELSE NextHead(fs, h[i-1], dir[i])
    BY DEF HeadWalk
<1> HIDE DEF t
<1>4. \A i \in 0 .. m : t[i] = IF i = 0 THEN fs[0].first ELSE NextHead(fs, t[i-1], dir[i])
    <2> SUFFICES ASSUME NEW i \in 0 .. m
                 PROVE  t[i] = IF i = 0 THEN fs[0].first ELSE NextHead(fs, t[i-1], dir[i])
        OBVIOUS
    <2>1. CASE i = m
        <3>1. m - 1 \in 0 .. m /\ m - 1 # m /\ m # 0
            OBVIOUS
        <3>2. t[m - 1] = h[m - 1] /\ t[m] = NextHead(fs, h[m - 1], dir[m])
            BY <1>2, <3>1
        <3> QED BY <2>1, <3>1, <3>2
    <2>2. CASE i # m /\ i # 0
        <3>1. i \in 0 .. m - 1 /\ i - 1 \in 0 .. m /\ i - 1 # m
            BY <2>2
        <3>2. t[i - 1] = h[i - 1] /\ t[i] = h[i]
            BY <1>2, <2>2, <3>1
        <3> QED BY <1>3, <2>2, <3>1, <3>2
    <2>3. CASE i # m /\ i = 0
        <3>1. i \in 0 .. m - 1
            BY <2>3
        <3> QED BY <1>2, <1>3, <2>3, <3>1
    <2> QED BY <2>1, <2>2, <2>3
<1>5. [i \in 0 .. m |-> t[i]] =
          [i \in 0 .. m |-> IF i = 0 THEN fs[0].first ELSE NextHead(fs, t[i-1], dir[i])]
    BY <1>4
<1>6. HeadWalk(fs, dir, m, t)
    BY <1>1, <1>5, Zenon DEF HeadWalk
<1> QED BY <1>6

\* Every path has its heads.
LEMMA HeadsExist ==
    ASSUME NEW fs, NEW dir, NEW n \in Nat PROVE \E h : HeadWalk(fs, dir, n, h)
<1> DEFINE Bad == {m \in Nat : ~\E h : HeadWalk(fs, dir, m, h)}
<1>1. SUFFICES ASSUME Bad # {} PROVE FALSE
    OBVIOUS
<1>2. Bad \subseteq Nat /\ \A m : m \in Bad <=> m \in Nat /\ ~\E h : HeadWalk(fs, dir, m, h)
    OBVIOUS
<1> HIDE DEF Bad
<1>3. PICK m \in Bad : \A k \in Bad : m <= k
    BY <1>1, <1>2, LeastNumber
<1>4. m # 0
    <2> DEFINE h == [i \in 0 .. 0 |-> fs[0].first]
    <2>1. h = [i \in 0 .. 0 |-> IF i = 0 THEN fs[0].first ELSE NextHead(fs, h[i-1], dir[i])]
        OBVIOUS
    <2> HIDE DEF h
    <2>2. HeadWalk(fs, dir, 0, h)
        BY <2>1 DEF HeadWalk
    <2> QED BY <1>2, <1>3, <2>2
<1>5. m - 1 \in Nat /\ m - 1 \notin Bad /\ m \in Nat \ {0}
    BY <1>2, <1>3, <1>4
<1>6. PICK h : HeadWalk(fs, dir, m - 1, h)
    BY <1>2, <1>5
<1> QED BY <1>2, <1>3, <1>5, <1>6, OneHeadMore

\* ChildList is the last of the heads along dir.
LEMMA ChildListHeads ==
    ASSUME NEW fs, NEW dir, Len(dir) \in Nat
    PROVE  \E h : /\ h[0] = fs[0].first
                  /\ \A i \in 1 .. Len(dir) : h[i] = NextHead(fs, h[i-1], dir[i])
                  /\ ChildList(fs, dir) = h[Len(dir)]
<1> DEFINE l == Len(dir)
           h == CHOOSE g : HeadWalk(fs, dir, l, g)
<1>1. HeadWalk(fs, dir, l, h)
    BY HeadsExist
<1>2. ChildList(fs, dir) = h[l]
    BY DEF ChildList, HeadWalk, NextHead, Within
<1> HIDE DEF h
<1>3. \A i \in 0 .. l : h[i] = IF i = 0 THEN fs[0].first ELSE NextHead(fs, h[i-1], dir[i])
    BY <1>1 DEF HeadWalk
<1>4. 0 \in 0 .. l /\ \A i \in 1 .. l : i \in 0 .. l /\ i # 0
    OBVIOUS
<1>5. h[0] = fs[0].first
    BY <1>3, <1>4
<1>6. \A i \in 1 .. l : h[i] = NextHead(fs, h[i-1], dir[i])
    BY <1>3, <1>4
<1> QED BY <1>2, <1>5, <1>6

\* D leads from the root along the first m names of dir, directory by directory.
Resolves(fs, K, par, dir, m, D) ==
    /\ D[0] = 0
    /\ \A i \in 1 .. m : /\ Kid(K, par, D[i], D[i-1])
                         /\ fs[D[i]].name = dir[i] /\ fs[D[i]].attr = 2

\* Every node on the way is a directory.
LEMMA ResolvesDirs ==
    ASSUME NEW fs, NEW K, NEW par, NEW pos, Tree(fs, K, par, pos),
           NEW dir, NEW m \in Nat, NEW D, Resolves(fs, K, par, dir, m, D)
    PROVE  \A i \in 0 .. m : D[i] \in Node /\ fs[D[i]].attr = 2
<1>1. D[0] \in Node /\ fs[D[0]].attr = 2
    BY NandFsConstants DEF Tree, Resolves, Node
<1>2. \A i \in 1 .. m : D[i] \in Node /\ fs[D[i]].attr = 2
    BY DEF Tree, Laid, Resolves, Kid
<1> QED BY <1>1, <1>2

\* The step of ChildList from the list of d to that of its child e.
LEMMA NextHeadIs ==
    ASSUME NEW fs, NEW K, NEW par, NEW pos, Tree(fs, K, par, pos),
           NEW d \in Node, fs[d].attr = 2, NEW e, Kid(K, par, e, d), fs[e].attr = 2
    PROVE  NextHead(fs, fs[d].first, fs[e].name) = fs[e].first
<1> DEFINE S == Within(fs, fs[e].name)
           F == FirstOf(fs, fs[d].first, S)
<1>1. S \subseteq Node /\ \A n \in S : fs[n].name = fs[e].name /\ fs[n].attr = 2 /\ fs[n].first # Nil
    BY DEF Within, Named
<1>2. e \in Node /\ (fs[e].first # Nil => e \in S)
    BY DEF Within, Named, Tree, Laid, Kid
<1>3. NextHead(fs, fs[d].first, fs[e].name) =
          IF F = {} THEN Nil ELSE fs[CHOOSE n \in F : TRUE].first
    BY DEF NextHead
<1>4. Laid(fs, K, par, pos) /\ \A n \in S : Kid(K, par, n, d) => n = e
    BY <1>1 DEF Tree, Distinct, Kid
<1> HIDE DEF S
<1>5. F = {n \in S : Kid(K, par, n, d)}
    <2>1. S \subseteq Node /\ \A m, n \in S : Kid(K, par, m, d) /\ Kid(K, par, n, d) => m = n
        BY <1>1, <1>4
    <2>2. Laid(fs, K, par, pos)
        BY <1>4
    <2> QED BY ONLY <2>1, <2>2, d \in Node, fs[d].attr = 2, OnlyKid DEF F
<1> HIDE DEF F
<1>6. CASE fs[e].first = Nil
    <2>1. F = {}
        BY <1>1, <1>4, <1>5, <1>6
    <2> QED BY <1>3, <1>6, <2>1
<1>7. CASE fs[e].first # Nil
    <2>1. F = {e}
        BY <1>2, <1>4, <1>5, <1>7
    <2> QED BY <1>3, <2>1
<1> QED BY <1>6, <1>7

\* The list ChildList gets to is that of the directory the path leads to.
LEMMA ChildListIs ==
    ASSUME NEW fs, NEW K, NEW par, NEW pos, Tree(fs, K, par, pos),
           NEW dir, Len(dir) \in Nat, NEW D, Resolves(fs, K, par, dir, Len(dir), D)
    PROVE  ChildList(fs, dir) = fs[D[Len(dir)]].first
<1> DEFINE l == Len(dir)
<1>1. PICK h : /\ h[0] = fs[0].first
               /\ \A i \in 1 .. l : h[i] = NextHead(fs, h[i-1], dir[i])
               /\ ChildList(fs, dir) = h[l]
    BY ChildListHeads
<1> DEFINE Bad == {i \in 0 .. l : h[i] # fs[D[i]].first}
<1>2. SUFFICES ASSUME Bad # {} PROVE FALSE
    BY <1>1
<1>3. Bad \subseteq Nat /\ \A i : i \in Bad <=> i \in 0 .. l /\ h[i] # fs[D[i]].first
    OBVIOUS
<1> HIDE DEF Bad
<1>4. PICK i \in Bad : \A k \in Bad : i <= k
    BY <1>2, <1>3, LeastNumber
<1>5. i # 0
    BY <1>1, <1>3, <1>4 DEF Resolves
<1>6. i \in 1 .. l /\ i - 1 \in 0 .. l /\ i - 1 \notin Bad
    BY <1>3, <1>4, <1>5
<1>7. h[i-1] = fs[D[i-1]].first
    BY <1>3, <1>6
<1>8. D[i-1] \in Node /\ fs[D[i-1]].attr = 2
    BY <1>6, ResolvesDirs
<1>9. Kid(K, par, D[i], D[i-1]) /\ fs[D[i]].name = dir[i] /\ fs[D[i]].attr = 2
    BY <1>6 DEF Resolves
<1>10. NextHead(fs, fs[D[i-1]].first, fs[D[i]].name) = fs[D[i]].first
    BY <1>8, <1>9, NextHeadIs
<1> QED BY <1>1, <1>3, <1>4, <1>6, <1>7, <1>9, <1>10

\* A path that leads anywhere leads from directory to directory.
LEMMA HeadResolves ==
    ASSUME NEW fs, NEW K, NEW par, NEW pos, Tree(fs, K, par, pos),
           NEW dir, Len(dir) \in Nat, NEW S, S \subseteq Node,
           NEW n \in FirstOf(fs, ChildList(fs, dir), S)
    PROVE  \E D : Resolves(fs, K, par, dir, Len(dir), D) /\ Kid(K, par, n, D[Len(dir)])
<1> DEFINE l == Len(dir)
           Led(i, x) == \E D : Resolves(fs, K, par, dir, i, D) /\ x = fs[D[i]].first
<1>1. PICK h : /\ h[0] = fs[0].first
               /\ \A i \in 1 .. l : h[i] = NextHead(fs, h[i-1], dir[i])
               /\ ChildList(fs, dir) = h[l]
    BY ChildListHeads
<1>2. Laid(fs, K, par, pos)
    BY DEF Tree
<1> DEFINE Bad == {i \in 0 .. l : ~(h[i] = Nil \/ Led(i, h[i]))}
<1>3. Bad = {}
    <2>1. SUFFICES ASSUME Bad # {} PROVE FALSE
        OBVIOUS
    <2>2. Bad \subseteq Nat /\ \A i : i \in Bad <=> i \in 0 .. l /\ ~(h[i] = Nil \/ Led(i, h[i]))
        OBVIOUS
    <2> HIDE DEF Bad
    <2>3. PICK i \in Bad : \A k \in Bad : i <= k
        BY <2>1, <2>2, LeastNumber
    <2>4. i # 0
        <3> DEFINE D == [j \in {0} |-> 0]
        <3>1. D[0] = 0
            OBVIOUS
        <3> HIDE DEF D
        <3>2. Resolves(fs, K, par, dir, 0, D) /\ h[0] = fs[D[0]].first
            BY <1>1, <3>1 DEF Resolves
        <3>3. Led(0, h[0])
            BY <3>2
        <3> QED BY <2>2, <2>3, <3>3
    <2>5. i \in 1 .. l /\ i - 1 \in 0 .. l /\ i - 1 \notin Bad /\ i - 1 \in Nat /\ h[i] # Nil
        BY <2>2, <2>3, <2>4
    <2>6. h[i-1] = Nil \/ Led(i - 1, h[i-1])
        BY <2>2, <2>5
    <2> DEFINE W == Within(fs, dir[i])
               F == FirstOf(fs, h[i-1], W)
    <2>7. F # {} /\ h[i] = fs[CHOOSE e \in F : TRUE].first /\ W \subseteq Node
        BY <1>1, <2>5 DEF NextHead, Within, Named
    <2>8. PICK e \in F : h[i] = fs[e].first
        <3> HIDE DEF F, W
        <3> QED BY <2>7
    <2>9. h[i-1] # Nil
        <3> HIDE DEF W
        <3> QED BY <2>7, NoneFound
    <2>10. PICK D : Resolves(fs, K, par, dir, i - 1, D) /\ h[i-1] = fs[D[i-1]].first
        BY <2>6, <2>9
    <2>11. D[i-1] \in Node /\ fs[D[i-1]].attr = 2
        <3>1. \A j \in 0 .. i - 1 : D[j] \in Node /\ fs[D[j]].attr = 2
            BY <2>5, <2>10, ResolvesDirs
        <3>2. i - 1 \in 0 .. i - 1
            BY <2>5
        <3> QED BY <3>1, <3>2
    <2>12. e \in W /\ Kid(K, par, e, D[i-1])
        <3> HIDE DEF W
        <3> QED BY <1>2, <2>7, <2>8, <2>10, <2>11, FirstKid
    <2>13. fs[e].name = dir[i] /\ fs[e].attr = 2
        BY <2>12 DEF Within, Named
    <2> DEFINE E == [j \in 0 .. i |-> IF j = i THEN e ELSE D[j]]
    <2>14. Resolves(fs, K, par, dir, i, E)
        <3>0. i \in Nat /\ i # 0 /\ \A j \in 0 .. i : E[j] = IF j = i THEN e ELSE D[j]
            BY <2>5
        <3> HIDE DEF E
        <3>1. /\ E[0] = 0 /\ E[i] = e /\ E[i-1] = D[i-1]
              /\ \A j \in 1 .. i - 1 : E[j] = D[j] /\ E[j-1] = D[j-1]
            <4>1. \A j \in 0 .. i - 1 : j \in 0 .. i /\ j # i
                BY <3>0
            <4>2. \A j \in 0 .. i - 1 : E[j] = D[j]
                BY <3>0, <4>1
            <4>3. 0 \in 0 .. i - 1 /\ i - 1 \in 0 .. i - 1 /\ i \in 0 .. i
                BY <3>0
            <4>4. \A j \in 1 .. i - 1 : j \in 0 .. i - 1 /\ j - 1 \in 0 .. i - 1
                BY <3>0
            <4> QED BY <2>10, <3>0, <4>2, <4>3, <4>4 DEF Resolves
        <3>2. \A j \in 1 .. i : j = i \/ j \in 1 .. i - 1
            BY <3>0
        <3>3. \A j \in 1 .. i - 1 : /\ Kid(K, par, D[j], D[j-1])
                                    /\ fs[D[j]].name = dir[j] /\ fs[D[j]].attr = 2
            BY <2>10 DEF Resolves
        <3> QED BY <2>12, <2>13, <3>1, <3>2, <3>3 DEF Resolves
    <2>15. E[i] = e
        <3>1. i \in 0 .. i
            BY <2>5
        <3> QED BY <3>1
    <2> HIDE DEF E
    <2>16. Led(i, h[i])
        BY <2>8, <2>14, <2>15
    <2> QED BY <2>2, <2>3, <2>16
<1>4. h[l] = Nil \/ Led(l, h[l])
    BY <1>3
<1>5. h[l] # Nil
    BY <1>1, NoneFound
<1>6. PICK D : Resolves(fs, K, par, dir, l, D) /\ h[l] = fs[D[l]].first
    BY <1>4, <1>5
<1>7. D[l] \in Node /\ fs[D[l]].attr = 2
    <2>1. \A j \in 0 .. l : D[j] \in Node /\ fs[D[j]].attr = 2
        BY <1>6, ResolvesDirs
    <2>2. l \in 0 .. l
        OBVIOUS
    <2> QED BY <2>1, <2>2
<1>8. n \in FirstOf(fs, fs[D[l]].first, S)
    BY <1>1, <1>6
<1>9. Kid(K, par, n, D[l])
    <2> DEFINE F == FirstOf(fs, fs[D[l]].first, S)
    <2>1. F = {m \in S : /\ Kid(K, par, m, D[l])
                         /\ \A x \in S : Kid(K, par, x, D[l]) => pos[m] <= pos[x]}
        BY <1>2, <1>7, FirstKid
    <2>2. n \in F
        BY <1>8
    <2> HIDE DEF F
    <2> QED BY <2>1, <2>2
<1>10. Resolves(fs, K, par, dir, Len(dir), D) /\ Kid(K, par, n, D[Len(dir)])
    BY <1>6, <1>9
<1> HIDE DEF l
<1> QED BY <1>10

\* nandfs_open looks among the children of the directory the path leads to.
LEMMA OpenIs ==
    ASSUME rootok, NEW fs, NEW K, NEW par, NEW pos, Tree(fs, K, par, pos),
           NEW path, Len(path.dir) \in Nat,
           NEW D, Resolves(fs, K, par, path.dir, Len(path.dir), D), NEW type
    PROVE  nandfs_open(fs, path, type) =
              {n \in Named(fs, path.base, type) : Kid(K, par, n, D[Len(path.dir)])}
<1> DEFINE l == Len(path.dir)
           d == D[l]
           S == Named(fs, path.base, type)
<1>1. ChildList(fs, path.dir) = fs[d].first
    BY ChildListIs
<1>2. d \in Node /\ fs[d].attr = 2
    <2>1. l \in Nat /\ Resolves(fs, K, par, path.dir, l, D)
        OBVIOUS
    <2> HIDE DEF l
    <2>2. \A j \in 0 .. l : D[j] \in Node /\ fs[D[j]].attr = 2
        BY <2>1, ResolvesDirs
    <2>3. l \in 0 .. l
        BY <2>1
    <2> QED BY <2>2, <2>3
<1>3. S \subseteq Node /\ \A m, n \in S : fs[m].name = fs[n].name /\ fs[m].attr = fs[n].attr
    BY DEF Named
<1>4. nandfs_open(fs, path, type) = FirstOf(fs, fs[d].first, S)
    BY <1>1 DEF nandfs_open
<1>5. Laid(fs, K, par, pos)
    BY DEF Tree
<1> HIDE DEF d, S
<1>6. \A m, n \in S : Kid(K, par, m, d) /\ Kid(K, par, n, d) => m = n
    BY <1>3 DEF Tree, Distinct, Kid
<1>7. FirstOf(fs, fs[d].first, S) = {n \in S : Kid(K, par, n, d)}
    BY <1>2, <1>3, <1>5, <1>6, OnlyKid
<1> QED BY <1>4, <1>7 DEF d, S

\* What nandfs_open finds is a child of a directory the path leads to.
LEMMA OpenResolves ==
    ASSUME NEW fs, NEW K, NEW par, NEW pos, Tree(fs, K, par, pos),
           NEW path, Len(path.dir) \in Nat, NEW type,
           NEW n \in nandfs_open(fs, path, type)
    PROVE  /\ rootok /\ n \in Named(fs, path.base, type) /\ n \in K
           /\ \E D : /\ Resolves(fs, K, par, path.dir, Len(path.dir), D)
                     /\ Kid(K, par, n, D[Len(path.dir)])
<1> DEFINE S == Named(fs, path.base, type)
<1>1. rootok /\ n \in FirstOf(fs, ChildList(fs, path.dir), S)
    BY DEF nandfs_open
<1>2. n \in S /\ S \subseteq Node
    BY <1>1, FirstOfMember DEF Named
<1>3. \E D : /\ Resolves(fs, K, par, path.dir, Len(path.dir), D)
             /\ Kid(K, par, n, D[Len(path.dir)])
    <2> HIDE DEF S
    <2> QED BY <1>1, <1>2, HeadResolves
<1> QED BY <1>1, <1>2, <1>3 DEF Kid

\* The path of a parent directory.
Up(path) == [dir  |-> SubSeq(path.dir, 1, Len(path.dir) - 1),
             base |-> path.dir[Len(path.dir)]]

\* The path of a parent is one name shorter.
LEMMA UpIs ==
    ASSUME NEW path \in Paths, Len(path.dir) # 0
    PROVE  /\ Len(path.dir) \in Nat \ {0}
           /\ Up(path).base = path.dir[Len(path.dir)]
           /\ Len(Up(path).dir) = Len(path.dir) - 1
           /\ \A i \in 1 .. Len(path.dir) - 1 : Up(path).dir[i] = path.dir[i]
<1>1. path.dir \in Seq(Names)
    BY NandFsConstants
<1> DEFINE s == path.dir
<1>2. Len(s) \in Nat \ {0}
    BY <1>1
<1>3. /\ Len(SubSeq(s, 1, Len(s) - 1)) = Len(s) - 1
      /\ \A i \in 1 .. Len(s) - 1 : SubSeq(s, 1, Len(s) - 1)[i] = s[i]
    BY <1>1, <1>2
<1> QED BY <1>2, <1>3 DEF Up

\* The parent of a path is the directory it leads to.
LEMMA ParentIs ==
    ASSUME rootok, NEW fs, NEW K, NEW par, NEW pos, Tree(fs, K, par, pos),
           NEW path \in Paths, Len(path.dir) # 0,
           NEW D, Resolves(fs, K, par, path.dir, Len(path.dir), D)
    PROVE  OpenParent(fs, path) = {D[Len(path.dir)]}
<1> DEFINE l == Len(path.dir)
           S == Named(fs, path.dir[l], 2)
<1>1. /\ l \in Nat \ {0} /\ Up(path).base = path.dir[l] /\ Len(Up(path).dir) = l - 1
      /\ \A i \in 1 .. l - 1 : Up(path).dir[i] = path.dir[i]
    BY UpIs
<1>2. \A i \in 1 .. l : /\ Kid(K, par, D[i], D[i-1])
                        /\ fs[D[i]].name = path.dir[i] /\ fs[D[i]].attr = 2
    BY DEF Resolves
<1>3. Resolves(fs, K, par, Up(path).dir, l - 1, D)
    BY <1>1 DEF Resolves
<1>4. Kid(K, par, D[l], D[l-1]) /\ fs[D[l]].name = path.dir[l] /\ fs[D[l]].attr = 2
    BY <1>1, <1>2
<1>5. OpenParent(fs, path) = nandfs_open(fs, Up(path), 2)
    BY DEF OpenParent, Up
<1>6. nandfs_open(fs, Up(path), 2) = {n \in S : Kid(K, par, n, D[l-1])}
    BY <1>1, <1>3, OpenIs
<1>7. D[l] \in S
    BY <1>4 DEF Named, Tree, Laid, Kid
<1>8. \A n \in S : Kid(K, par, n, D[l-1]) => n = D[l]
    BY <1>4 DEF Named, Tree, Distinct, Kid
<1> HIDE DEF S
<1>9. {n \in S : Kid(K, par, n, D[l-1])} = {D[l]}
    BY <1>4, <1>7, <1>8
<1> QED BY <1>5, <1>6, <1>9

\* The parent of a path is a directory below the root that the path's names lead to.
LEMMA ParentResolves ==
    ASSUME NEW fs, NEW K, NEW par, NEW pos, Tree(fs, K, par, pos),
           NEW path \in Paths, NEW d \in OpenParent(fs, path)
    PROVE  /\ rootok /\ Len(path.dir) # 0 /\ d \in K /\ d \in Node /\ fs[d].attr = 2
           /\ \E D : Resolves(fs, K, par, path.dir, Len(path.dir), D) /\ D[Len(path.dir)] = d
<1> DEFINE l == Len(path.dir)
<1>1. l # 0 /\ d \in nandfs_open(fs, Up(path), 2)
    BY DEF OpenParent, Up
<1>2. /\ l \in Nat \ {0} /\ Up(path).base = path.dir[l] /\ Len(Up(path).dir) = l - 1
      /\ \A i \in 1 .. l - 1 : Up(path).dir[i] = path.dir[i]
    BY <1>1, UpIs
<1>3. /\ rootok /\ d \in Named(fs, path.dir[l], 2) /\ d \in K
      /\ \E D : Resolves(fs, K, par, Up(path).dir, l - 1, D) /\ Kid(K, par, d, D[l-1])
    <2> DEFINE up == Up(path)
    <2>1. d \in nandfs_open(fs, up, 2) /\ Len(up.dir) \in Nat
        BY <1>1, <1>2
    <2> HIDE DEF up
    <2>2. /\ rootok /\ d \in Named(fs, up.base, 2) /\ d \in K
          /\ \E D : /\ Resolves(fs, K, par, up.dir, Len(up.dir), D)
                    /\ Kid(K, par, d, D[Len(up.dir)])
        BY <2>1, OpenResolves
    <2> QED BY <1>2, <2>2 DEF up
<1>4. PICK D : Resolves(fs, K, par, Up(path).dir, l - 1, D) /\ Kid(K, par, d, D[l-1])
    BY <1>3
<1>5. d \in Node /\ fs[d].name = path.dir[l] /\ fs[d].attr = 2
    BY <1>3 DEF Named
<1> DEFINE E == [i \in 0 .. l |-> IF i = l THEN d ELSE D[i]]
<1>6. E[l] = d /\ \A i \in 0 .. l - 1 : E[i] = D[i]
    BY <1>2
<1> HIDE DEF E
<1>7. \A i \in 1 .. l - 1 : /\ Kid(K, par, D[i], D[i-1])
                            /\ fs[D[i]].name = path.dir[i] /\ fs[D[i]].attr = 2
    BY <1>2, <1>4 DEF Resolves
<1>8. E[0] = 0
    <2>1. 0 \in 0 .. l - 1
        BY <1>2
    <2> QED BY <1>4, <1>6, <2>1 DEF Resolves
<1>9. ASSUME NEW i \in 1 .. l
      PROVE  Kid(K, par, E[i], E[i-1]) /\ fs[E[i]].name = path.dir[i] /\ fs[E[i]].attr = 2
    <2>1. i - 1 \in 0 .. l - 1
        BY <1>2
    <2>2. CASE i = l
        BY <1>4, <1>5, <1>6, <2>1, <2>2
    <2>3. CASE i # l
        <3>1. i \in 1 .. l - 1 /\ i \in 0 .. l - 1
            BY <1>2, <2>3
        <3>2. E[i] = D[i] /\ E[i-1] = D[i-1]
            BY <1>6, <2>1, <3>1
        <3> QED BY <1>7, <3>1, <3>2
    <2> QED BY <2>2, <2>3
<1>10. Resolves(fs, K, par, path.dir, l, E)
    BY <1>8, <1>9 DEF Resolves
<1> QED BY <1>1, <1>3, <1>5, <1>6, <1>10

\* What nandfs_open finds, it finds among the children of the parent.
LEMMA InParent ==
    ASSUME NEW fs, NEW K, NEW par, NEW pos, Tree(fs, K, par, pos),
           NEW path \in Paths, NEW d \in OpenParent(fs, path), NEW type
    PROVE  nandfs_open(fs, path, type) =
              {n \in Named(fs, path.base, type) : Kid(K, par, n, d)}
<1>1. PICK D : Resolves(fs, K, par, path.dir, Len(path.dir), D) /\ D[Len(path.dir)] = d
    BY ParentResolves
<1>2. rootok
    BY ParentResolves
<1>3. Len(path.dir) \in Nat
    BY NandFsConstants
<1> QED BY <1>1, <1>2, <1>3, OpenIs

-----------------------------------------------------------------------------
(* Changes of the lists *)

\* The nodes of K make up lists, with the parents par.
Placed(fs, K, par) == \E pos \in [Node -> Nat] : Laid(fs, K, par, pos)

\* Tables that agree on the lists have the same lists.
LEMMA Relaid ==
    ASSUME NEW fs, NEW K, NEW par, NEW pos, Laid(fs, K, par, pos), NEW gs,
           \A n \in K : /\ gs[n].sibling = fs[n].sibling
                        /\ gs[par[n]].attr = 2 /\ gs[par[n]].first = fs[par[n]].first,
           \A d \in Node : gs[d].attr = 2 /\ gs[d].first # Nil =>
               fs[d].attr = 2 /\ gs[d].first = fs[d].first
    PROVE  Laid(gs, K, par, pos)
<1>1. \A n \in K : par[n] \in Node
    BY DEF Laid
<1> QED BY <1>1 DEF Laid

\* The last child of a directory.
LEMMA LastKid ==
    ASSUME NEW fs, NEW K, NEW par, NEW pos, Laid(fs, K, par, pos),
           NEW d \in Node, fs[d].attr = 2, fs[d].first # Nil
    PROVE  \E x : /\ Kid(K, par, x, d) /\ x \in Node /\ fs[x].sibling = Nil
                  /\ \A m : Kid(K, par, m, d) => pos[m] <= pos[x]
                  /\ FirstOf(fs, fs[d].first, {m \in Node : fs[m].sibling = Nil}) = {x}
<1> DEFINE P == {NN - pos[m] : m \in {y \in K : Kid(K, par, y, d)}}
<1>1. Kid(K, par, fs[d].first, d)
    BY DEF Laid, Kid
<1>2. \A m \in K : pos[m] \in 0 .. NN
    BY PlacesBounded
<1>3. NN \in Nat
    BY NandFsConstants
<1>4. P # {} /\ P \subseteq Nat
    <2>1. P # {}
        BY <1>1 DEF Kid
    <2>2. \A m \in K : NN - pos[m] \in Nat
        BY <1>2, <1>3
    <2> QED BY <2>1, <2>2
<1>5. \A m \in K : Kid(K, par, m, d) => NN - pos[m] \in P
    OBVIOUS
<1>6. \A p \in P : \E m \in K : Kid(K, par, m, d) /\ NN - pos[m] = p
    OBVIOUS
<1> HIDE DEF P
<1>7. PICK p \in P : \A q \in P : p <= q
    BY <1>4, LeastNumber
<1>8. PICK x \in K : Kid(K, par, x, d) /\ NN - pos[x] = p
    BY <1>6
<1>9. \A m \in K : Kid(K, par, m, d) => pos[m] <= pos[x]
    BY <1>2, <1>3, <1>5, <1>7, <1>8
<1>10. fs[x].sibling = Nil
    BY <1>2, <1>8, <1>9 DEF Laid, Kid
<1> DEFINE S == {m \in Node : fs[m].sibling = Nil}
<1>11. x \in S /\ S \subseteq Node /\ \A m \in S : fs[m].sibling = Nil
    BY <1>10 DEF Laid
<1> HIDE DEF S
<1>12. \A m \in S : Kid(K, par, m, d) => m = x
    BY <1>2, <1>8, <1>9, <1>11 DEF Laid, Kid
<1>13. FirstOf(fs, fs[d].first, S) = {n \in S : Kid(K, par, n, d)}
    <2>1. \A m, n \in S : Kid(K, par, m, d) /\ Kid(K, par, n, d) => m = n
        BY <1>12
    <2>2. S \subseteq Node
        BY <1>11
    <2> QED BY <2>1, <2>2, OnlyKid
<1>14. FirstOf(fs, fs[d].first, S) = {x}
    BY <1>8, <1>11, <1>12, <1>13
<1> QED BY <1>8, <1>9, <1>10, <1>11, <1>14 DEF S, Kid

\* p is the child of d before its child n, and nandfs_unlink finds it.
Before(fs, K, par, pos, d, n, p) ==
    /\ Kid(K, par, p, d) /\ p \in Node /\ p # n
    /\ fs[p].sibling = n /\ pos[n] = pos[p] + 1
    /\ FirstOf(fs, fs[d].first, {m \in Node : fs[m].sibling \in {n, Nil}}) = {p}

\* Every child but the first has one before it.
LEMMA KidBefore ==
    ASSUME NEW fs, NEW K, NEW par, NEW pos, Laid(fs, K, par, pos),
           NEW d \in Node, fs[d].attr = 2, NEW n, Kid(K, par, n, d), fs[d].first # n
    PROVE  \E p : Before(fs, K, par, pos, d, n, p)
<1>1. \A m \in K : pos[m] \in 0 .. NN /\ pos[m] \in Nat
    <2>1. \A m \in K : pos[m] \in 0 .. NN
        BY PlacesBounded
    <2> QED BY <2>1
<1>2. Kid(K, par, fs[d].first, d) /\ pos[fs[d].first] = 0
    BY DEF Laid, Kid
<1>3. pos[n] # 0
    BY <1>2, OnePerPlace
<1>4. PICK w : SiblingWalk(fs, fs[d].first, w)
    BY FirstOfWalk
<1> DEFINE k == pos[n] - 1
           p == w[k]
<1>5. k \in 0 .. NN /\ k <= pos[n] /\ n \in Node
    <2>1. n \in K /\ n \in Node
        BY DEF Kid, Laid
    <2>2. pos[n] \in 0 .. NN /\ NN \in Nat
        BY <1>1, <2>1, NandFsConstants
    <2> QED BY <1>3, <2>1, <2>2
<1>6. Kid(K, par, p, d) /\ pos[p] = k
    BY <1>4, <1>5, WalkGoesOn
<1>7. pos[n] = pos[p] + 1 /\ p # n /\ p \in Node
    BY <1>1, <1>3, <1>6 DEF Kid, Laid
<1> HIDE DEF p, k
<1>8. fs[p].sibling = n
    <2>1. fs[p].sibling # Nil
        BY <1>1, <1>6, <1>7 DEF Kid, Laid
    <2>2. Kid(K, par, fs[p].sibling, d) /\ pos[fs[p].sibling] = pos[n]
        BY <1>6, <1>7, <2>1 DEF Kid, Laid
    <2> QED BY <2>2, OnePerPlace
<1> DEFINE S == {m \in Node : fs[m].sibling \in {n, Nil}}
<1>9. p \in S /\ S \subseteq Node /\ \A m \in S : fs[m].sibling \in {n, Nil}
    BY <1>7, <1>8
<1> HIDE DEF S
<1>10. \A m \in S : Kid(K, par, m, d) => pos[p] <= pos[m]
    <2> SUFFICES ASSUME NEW m \in S, Kid(K, par, m, d) PROVE pos[p] <= pos[m]
        OBVIOUS
    <2>1. CASE fs[m].sibling = Nil
        <3>1. pos[n] <= pos[m]
            BY <2>1 DEF Kid, Laid
        <3> QED BY <1>1, <1>6, <1>7, <3>1 DEF Kid
    <2>2. CASE fs[m].sibling = n /\ n # Nil
        <3>1. pos[n] = pos[m] + 1
            BY <2>2 DEF Kid, Laid
        <3> QED BY <1>1, <1>6, <1>7, <3>1 DEF Kid
    <2> QED BY <1>9, <2>1, <2>2
<1> DEFINE F == FirstOf(fs, fs[d].first, S)
<1>11. F = {m \in S : /\ Kid(K, par, m, d)
                      /\ \A x \in S : Kid(K, par, x, d) => pos[m] <= pos[x]}
    <2>1. S \subseteq Node
        BY <1>9
    <2> HIDE DEF F
    <2>2. FirstOf(fs, fs[d].first, S) =
              {m \in S : /\ Kid(K, par, m, d)
                         /\ \A x \in S : Kid(K, par, x, d) => pos[m] <= pos[x]}
        BY <2>1, FirstKid
    <2> QED BY <2>2 DEF F
<1> HIDE DEF F
<1>12. p \in F
    BY <1>6, <1>9, <1>10, <1>11
<1>13. \A m \in F : m = p
    <2> SUFFICES ASSUME NEW m \in F PROVE m = p
        OBVIOUS
    <2>1. Kid(K, par, m, d) /\ pos[m] <= pos[p] /\ pos[p] <= pos[m]
        BY <1>6, <1>9, <1>10, <1>11
    <2>2. pos[m] = pos[p]
        BY <1>1, <1>6, <2>1 DEF Kid
    <2> QED BY <1>6, <2>1, <2>2, OnePerPlace
<1>14. F = {p}
    BY <1>12, <1>13
<1>15. Before(fs, K, par, pos, d, n, p)
    BY <1>6, <1>7, <1>8, <1>14 DEF S, F, Before
<1> QED BY <1>15

\* The types and the names stay.
SameMarks(fs, gs) == \A m \in Node : gs[m].attr = fs[m].attr /\ gs[m].name = fs[m].name

\* Changing a link of a node record.
LEMMA RecordLinks ==
    ASSUME NEW r \in NodeRecord, NEW x
    PROVE  /\ [r EXCEPT !.first = x].first = x
           /\ [r EXCEPT !.first = x].sibling = r.sibling
           /\ [r EXCEPT !.first = x].attr = r.attr
           /\ [r EXCEPT !.first = x].name = r.name
           /\ [r EXCEPT !.sibling = x].sibling = x
           /\ [r EXCEPT !.sibling = x].first = r.first
           /\ [r EXCEPT !.sibling = x].attr = r.attr
           /\ [r EXCEPT !.sibling = x].name = r.name
BY DEF NodeRecord

\* One link of one node of a table changes.
FirstSet(fs, d, x, gs) ==
    /\ SameMarks(fs, gs)
    /\ \A m \in Node : gs[m].sibling = fs[m].sibling
    /\ \A m \in Node : gs[m].first = IF m = d THEN x ELSE fs[m].first
SiblingSet(fs, p, x, gs) ==
    /\ SameMarks(fs, gs)
    /\ \A m \in Node : gs[m].first = fs[m].first
    /\ \A m \in Node : gs[m].sibling = IF m = p THEN x ELSE fs[m].sibling

\* An update of one head.
LEMMA SetFirst ==
    ASSUME NEW fs \in NodeTable, NEW d \in Node, NEW x
    PROVE  FirstSet(fs, d, x, [fs EXCEPT ![d].first = x])
<1> DEFINE r == [fs[d] EXCEPT !.first = x]
           gs == [fs EXCEPT ![d] = r]
<1>1. /\ r.first = x /\ r.sibling = fs[d].sibling
      /\ r.attr = fs[d].attr /\ r.name = fs[d].name
    BY RecordLinks DEF NodeTable
<1>2. [fs EXCEPT ![d].first = x] = gs
    OBVIOUS
<1>3. gs[d] = r /\ \A m \in Node \ {d} : gs[m] = fs[m]
    BY DEF NodeTable
<1> HIDE DEF r, gs
<1>4. FirstSet(fs, d, x, gs)
    BY <1>1, <1>3 DEF FirstSet, SameMarks
<1> QED BY <1>2, <1>4

\* An update of one sibling, as nandfs_create and nandfs_unlink write it.
LEMMA SetSibling ==
    ASSUME NEW fs \in NodeTable, NEW p \in Node, NEW x
    PROVE  SiblingSet(fs, p, x,
              [m \in Node |-> IF m \in {p} THEN [fs[m] EXCEPT !.sibling = x] ELSE fs[m]])
<1> DEFINE r == [fs[p] EXCEPT !.sibling = x]
           gs == [m \in Node |-> IF m \in {p} THEN [fs[m] EXCEPT !.sibling = x] ELSE fs[m]]
<1>1. /\ r.sibling = x /\ r.first = fs[p].first
      /\ r.attr = fs[p].attr /\ r.name = fs[p].name
    BY RecordLinks DEF NodeTable
<1>2. gs[p] = r /\ \A m \in Node \ {p} : gs[m] = fs[m]
    OBVIOUS
<1> HIDE DEF r, gs
<1>3. SiblingSet(fs, p, x, gs)
    BY <1>1, <1>2 DEF SiblingSet, SameMarks
<1> QED BY <1>3 DEF gs

\* A node put on the list of a directory that has no children.
LEMMA LinkFirst ==
    ASSUME NEW fs, NEW K, NEW par, NEW pos, Laid(fs, K, par, pos),
           NEW d \in Node, fs[d].attr = 2, fs[d].first = Nil,
           NEW n \in Node \ {0}, n \notin K, n # d, fs[n].sibling = Nil,
           NEW gs, FirstSet(fs, d, n, gs),
           NEW q, q = [par EXCEPT ![n] = d], NEW s, s = [pos EXCEPT ![n] = 0]
    PROVE  Laid(gs, K \cup {n}, q, s)
<1>1. /\ par \in [Node -> Node] /\ pos \in [Node -> Nat] /\ K \subseteq Node \ {0}
    BY DEF Laid
<1>2. /\ q \in [Node -> Node] /\ s \in [Node -> Nat]
      /\ q[n] = d /\ s[n] = 0 /\ \A m \in K : m # n /\ q[m] = par[m] /\ s[m] = pos[m]
    BY <1>1
<1>3. n # Nil
    BY NandFsConstants DEF Nil, Node
<1>4. \A m \in Node : /\ gs[m].attr = fs[m].attr /\ gs[m].sibling = fs[m].sibling
                      /\ gs[m].first = IF m = d THEN n ELSE fs[m].first
    BY DEF FirstSet, SameMarks
<1>5. \A m \in K : par[m] # d /\ par[m] \in Node /\ m \in Node
    BY <1>1 DEF Laid
<1>6. \A m \in K : /\ q[m] # m /\ gs[q[m]].attr = 2 /\ gs[q[m]].first # Nil
                   /\ gs[m].sibling # Nil =>
                         /\ gs[m].sibling \in K
                         /\ q[gs[m].sibling] = q[m] /\ s[gs[m].sibling] = s[m] + 1
    BY <1>2, <1>4, <1>5 DEF Laid
<1>7. \A m \in K : \A l \in K : q[l] = q[m] =>
              /\ s[l] = s[m] => l = m
              /\ gs[m].sibling = Nil => s[l] <= s[m]
    BY <1>2, <1>4, <1>5 DEF Laid
<1>8. q[n] # n /\ gs[q[n]].attr = 2 /\ gs[q[n]].first # Nil /\ gs[n].sibling = Nil
    BY <1>2, <1>3, <1>4
<1>9. \A m \in K : q[m] # q[n]
    BY <1>2, <1>5
<1>10. \A e \in Node : gs[e].attr = 2 /\ gs[e].first # Nil =>
          gs[e].first \in K \cup {n} /\ q[gs[e].first] = e /\ s[gs[e].first] = 0
    <2> SUFFICES ASSUME NEW e \in Node, gs[e].attr = 2, gs[e].first # Nil
                 PROVE  gs[e].first \in K \cup {n} /\ q[gs[e].first] = e /\ s[gs[e].first] = 0
        OBVIOUS
    <2>1. CASE e = d
        BY <1>2, <1>4, <2>1
    <2>2. CASE e # d
        <3>1. fs[e].first \in K /\ par[fs[e].first] = e /\ pos[fs[e].first] = 0
            BY <1>4, <2>2 DEF Laid
        <3> QED BY <1>2, <1>4, <2>2, <3>1
    <2> QED BY <2>1, <2>2
<1>11. K \cup {n} \subseteq Node \ {0} /\ s[n] <= s[n]
    BY <1>1, <1>2
<1> QED BY <1>2, <1>6, <1>7, <1>8, <1>9, <1>10, <1>11 DEF Laid

\* A node put behind the last child of a directory.
LEMMA LinkLast ==
    ASSUME NEW fs, NEW K, NEW par, NEW pos, Laid(fs, K, par, pos),
           NEW d \in Node, fs[d].attr = 2, fs[d].first # Nil,
           NEW n \in Node \ {0}, n \notin K, n # d, fs[n].sibling = Nil,
           NEW x \in Node, Kid(K, par, x, d), fs[x].sibling = Nil,
           \A m : Kid(K, par, m, d) => pos[m] <= pos[x],
           NEW gs, SiblingSet(fs, x, n, gs),
           NEW q, q = [par EXCEPT ![n] = d], NEW s, s = [pos EXCEPT ![n] = pos[x] + 1]
    PROVE  Laid(gs, K \cup {n}, q, s)
<1>1. /\ par \in [Node -> Node] /\ pos \in [Node -> Nat] /\ K \subseteq Node \ {0}
    BY DEF Laid
<1>2. /\ q \in [Node -> Node] /\ s \in [Node -> Nat]
      /\ q[n] = d /\ s[n] = pos[x] + 1 /\ \A m \in K : m # n /\ q[m] = par[m] /\ s[m] = pos[m]
    BY <1>1
<1>3. \A m \in Node : /\ gs[m].attr = fs[m].attr /\ gs[m].first = fs[m].first
                      /\ gs[m].sibling = IF m = x THEN n ELSE fs[m].sibling
    BY DEF SiblingSet, SameMarks
<1>4. \A m \in K : par[m] \in Node /\ m \in Node /\ pos[m] \in Nat
    BY <1>1
<1>5. x \in K /\ par[x] = d /\ x # n /\ \A m \in K : par[m] = d => pos[m] <= pos[x]
    BY DEF Kid
<1>6. \A m \in K : q[m] # m /\ gs[q[m]].attr = 2 /\ gs[q[m]].first # Nil
    BY <1>2, <1>3, <1>4 DEF Laid
<1>7. \A m \in K : gs[m].sibling # Nil =>
          /\ gs[m].sibling \in K \cup {n}
          /\ q[gs[m].sibling] = q[m] /\ s[gs[m].sibling] = s[m] + 1
    <2> SUFFICES ASSUME NEW m \in K, gs[m].sibling # Nil
                 PROVE  /\ gs[m].sibling \in K \cup {n}
                        /\ q[gs[m].sibling] = q[m] /\ s[gs[m].sibling] = s[m] + 1
        OBVIOUS
    <2>1. CASE m = x
        BY <1>2, <1>3, <1>5, <2>1
    <2>2. CASE m # x
        <3>1. gs[m].sibling = fs[m].sibling
            BY <1>3, <1>4, <2>2
        <3>2. /\ fs[m].sibling \in K
              /\ par[fs[m].sibling] = par[m] /\ pos[fs[m].sibling] = pos[m] + 1
            BY <3>1 DEF Laid
        <3> QED BY <1>2, <3>1, <3>2
    <2> QED BY <2>1, <2>2
<1>8. \A m \in K : \A l \in K : q[l] = q[m] =>
              /\ s[l] = s[m] => l = m
              /\ gs[m].sibling = Nil => s[l] <= s[m]
    <2> SUFFICES ASSUME NEW m \in K, NEW l \in K, par[l] = par[m]
                 PROVE  /\ pos[l] = pos[m] => l = m
                        /\ gs[m].sibling = Nil => pos[l] <= pos[m]
        BY <1>2
    <2>1. gs[m].sibling = Nil => fs[m].sibling = Nil
        BY <1>3, <1>4
    <2> QED BY <2>1 DEF Laid
<1>9. q[n] # n /\ gs[q[n]].attr = 2 /\ gs[q[n]].first # Nil /\ gs[n].sibling = Nil
    BY <1>2, <1>3, <1>5
<1>10. \A m \in K : q[m] = q[n] => s[m] < s[n] /\ gs[m].sibling # Nil
    <2> SUFFICES ASSUME NEW m \in K, par[m] = d PROVE pos[m] < pos[x] + 1 /\ gs[m].sibling # Nil
        BY <1>2
    <2>1. pos[m] <= pos[x] /\ pos[m] \in Nat /\ pos[x] \in Nat
        BY <1>4, <1>5
    <2>2. CASE m = x
        <3>1. n # Nil
            BY NandFsConstants DEF Nil, Node
        <3> QED BY <1>3, <2>1, <2>2, <3>1
    <2>3. CASE m # x
        <3>1. pos[m] # pos[x]
            BY <1>5, <2>3 DEF Laid
        <3>2. fs[m].sibling = Nil => pos[x] <= pos[m]
            BY <1>5 DEF Laid
        <3> QED BY <1>3, <1>4, <2>1, <2>3, <3>1, <3>2
    <2> QED BY <2>2, <2>3
<1>11. \A e \in Node : gs[e].attr = 2 /\ gs[e].first # Nil =>
          gs[e].first \in K \cup {n} /\ q[gs[e].first] = e /\ s[gs[e].first] = 0
    BY <1>2, <1>3 DEF Laid
<1>12. K \cup {n} \subseteq Node \ {0} /\ \A m \in K \cup {n} : s[m] \in Nat
    BY <1>1, <1>2
<1> QED BY <1>2, <1>6, <1>7, <1>8, <1>9, <1>10, <1>11, <1>12 DEF Laid

\* LinkChild puts a node on the list of a directory.
LEMMA LinkLaid ==
    ASSUME NEW fs \in NodeTable, NEW K, NEW par, NEW pos, Laid(fs, K, par, pos),
           NEW d \in Node, fs[d].attr = 2,
           NEW n \in Node \ {0}, n \notin K, n # d, fs[n].sibling = Nil,
           NEW gs, gs = LinkChild(fs, d, n), NEW q, q = [par EXCEPT ![n] = d]
    PROVE  /\ SameMarks(fs, gs)
           /\ \A e \in Node : fs[e].attr # 2 \/ e = n => gs[e].first = fs[e].first
           /\ Placed(gs, K \cup {n}, q)
<1>1. pos \in [Node -> Nat]
    BY DEF Laid
<1>2. CASE fs[d].first = Nil
    <2> DEFINE s == [pos EXCEPT ![n] = 0]
    <2>1. gs = [fs EXCEPT ![d].first = n]
        BY <1>2 DEF LinkChild
    <2>2. FirstSet(fs, d, n, gs)
        <3>1. FirstSet(fs, d, n, [fs EXCEPT ![d].first = n])
            BY SetFirst, Zenon
        <3> QED BY <2>1, <3>1, Zenon
    <2>3. s \in [Node -> Nat] /\ s = [pos EXCEPT ![n] = 0]
        BY <1>1
    <2> HIDE DEF s
    <2>4. Laid(gs, K \cup {n}, q, s)
        BY <1>2, <2>2, <2>3, LinkFirst
    <2>5. \A e \in Node : fs[e].attr # 2 \/ e = n => gs[e].first = fs[e].first
        BY <2>2 DEF FirstSet
    <2>6. SameMarks(fs, gs)
        BY <2>2 DEF FirstSet
    <2> QED BY <2>3, <2>4, <2>5, <2>6 DEF Placed
<1>3. CASE fs[d].first # Nil
    <2>1. PICK x : /\ Kid(K, par, x, d) /\ x \in Node /\ fs[x].sibling = Nil
                   /\ \A m : Kid(K, par, m, d) => pos[m] <= pos[x]
                   /\ FirstOf(fs, fs[d].first, {m \in Node : fs[m].sibling = Nil}) = {x}
        BY <1>3, LastKid
    <2>2. gs = [m \in Node |-> IF m \in {x} THEN [fs[m] EXCEPT !.sibling = n] ELSE fs[m]]
        BY <1>3, <2>1 DEF LinkChild
    <2>3. SiblingSet(fs, x, n, gs)
        BY <2>1, <2>2, SetSibling
    <2> DEFINE s == [pos EXCEPT ![n] = pos[x] + 1]
    <2>4. s \in [Node -> Nat] /\ s = [pos EXCEPT ![n] = pos[x] + 1]
        BY <1>1, <2>1
    <2> HIDE DEF s
    <2>5. Laid(gs, K \cup {n}, q, s)
        BY <1>3, <2>1, <2>3, <2>4, LinkLast
    <2>6. \A e \in Node : gs[e].first = fs[e].first
        BY <2>3 DEF SiblingSet
    <2>7. SameMarks(fs, gs)
        BY <2>3 DEF SiblingSet
    <2> QED BY <2>4, <2>5, <2>6, <2>7 DEF Placed
<1> QED BY <1>2, <1>3

\* The places on the list of d once n is off it.
Closed(par, pos, d, n) ==
    [m \in Node |-> IF par[m] = d /\ pos[m] > pos[n] THEN pos[m] - 1 ELSE pos[m]]

\* They are places again, and in the same order.
LEMMA ClosedPlaces ==
    ASSUME NEW fs, NEW K, NEW par, NEW pos, Laid(fs, K, par, pos),
           NEW d, NEW n, Kid(K, par, n, d),
           NEW s, s = Closed(par, pos, d, n)
    PROVE  /\ s \in [Node -> Nat]
           /\ \A m \in Node : par[m] # d => s[m] = pos[m]
           /\ \A m \in Node : s[m] = IF par[m] = d /\ pos[m] > pos[n] THEN pos[m] - 1 ELSE pos[m]
           /\ \A m, l \in K \ {n} : par[m] = par[l] =>
                 (s[m] = s[l] => m = l) /\ (pos[m] <= pos[l] => s[m] <= s[l])
<1>1. pos \in [Node -> Nat] /\ n \in Node /\ K \subseteq Node
    BY DEF Laid, Kid
<1>2. \A m \in Node : s[m] = IF par[m] = d /\ pos[m] > pos[n] THEN pos[m] - 1 ELSE pos[m]
    BY DEF Closed
<1>3. \A m \in Node : s[m] \in Nat
    <2> SUFFICES ASSUME NEW m \in Node PROVE s[m] \in Nat
        OBVIOUS
    <2>1. pos[m] \in Nat /\ pos[n] \in Nat
        BY <1>1
    <2> QED BY <1>2, <2>1
<1>4. s \in [Node -> Nat]
    BY <1>3 DEF Closed
<1>5. ASSUME NEW m \in K \ {n}, NEW l \in K \ {n}, par[m] = par[l]
      PROVE  (s[m] = s[l] => m = l) /\ (pos[m] <= pos[l] => s[m] <= s[l])
    <2>1. pos[m] \in Nat /\ pos[l] \in Nat /\ pos[n] \in Nat /\ m \in Node /\ l \in Node
        BY <1>1
    <2>2. pos[m] = pos[l] => m = l
        BY <1>5 DEF Laid
    <2>3. par[m] = d => pos[m] # pos[n] /\ pos[l] # pos[n]
        <3>1. \A k \in K \ {n} : par[k] = d => pos[k] # pos[n]
            BY DEF Laid, Kid
        <3> QED BY <1>5, <3>1
    <2> QED BY <1>2, <1>5, <2>1, <2>2, <2>3
<1> QED BY <1>2, <1>4, <1>5

\* The first child is taken off.
LEMMA UnlinkFirst ==
    ASSUME NEW fs, NEW K, NEW par, NEW pos, Laid(fs, K, par, pos),
           NEW d \in Node, fs[d].attr = 2, NEW n, Kid(K, par, n, d), fs[d].first = n,
           NEW gs, FirstSet(fs, d, fs[n].sibling, gs),
           NEW s, s = Closed(par, pos, d, n)
    PROVE  Laid(gs, K \ {n}, par, s)
<1>1. /\ par \in [Node -> Node] /\ pos \in [Node -> Nat] /\ K \subseteq Node \ {0}
      /\ n \in K /\ n \in Node /\ par[n] = d /\ n # Nil
    BY NandFsConstants DEF Laid, Kid, Node, Nil
<1>2. /\ s \in [Node -> Nat]
      /\ \A m \in Node : par[m] # d => s[m] = pos[m]
      /\ \A m \in Node : s[m] = IF par[m] = d /\ pos[m] > pos[n] THEN pos[m] - 1 ELSE pos[m]
      /\ \A m, l \in K \ {n} : par[m] = par[l] =>
            (s[m] = s[l] => m = l) /\ (pos[m] <= pos[l] => s[m] <= s[l])
    BY ClosedPlaces
<1>3. \A m \in Node : /\ gs[m].attr = fs[m].attr /\ gs[m].sibling = fs[m].sibling
                      /\ gs[m].first = IF m = d THEN fs[n].sibling ELSE fs[m].first
    BY DEF FirstSet, SameMarks
<1>4. pos[n] = 0
    BY <1>1 DEF Laid
<1>5. ASSUME NEW m \in K \ {n} PROVE par[m] = d => fs[n].sibling # Nil /\ pos[m] > 0
    <2>1. SUFFICES ASSUME par[m] = d PROVE fs[n].sibling # Nil /\ pos[m] > 0
        OBVIOUS
    <2>2. pos[m] # pos[n] /\ (fs[n].sibling = Nil => pos[m] <= pos[n]) /\ pos[m] \in Nat
        BY <1>1, <1>5, <2>1 DEF Laid
    <2> QED BY <1>4, <2>2
<1>6. \A m \in K \ {n} : par[m] # m /\ gs[par[m]].attr = 2 /\ gs[par[m]].first # Nil
    BY <1>1, <1>3, <1>5 DEF Laid
<1>7. ASSUME NEW m \in K \ {n}, gs[m].sibling # Nil
      PROVE  /\ gs[m].sibling \in K \ {n}
             /\ par[gs[m].sibling] = par[m] /\ s[gs[m].sibling] = s[m] + 1
    <2> DEFINE t == fs[m].sibling
    <2>1. gs[m].sibling = t /\ m \in Node
        BY <1>1, <1>3
    <2>2. t \in K /\ par[t] = par[m] /\ pos[t] = pos[m] + 1
        BY <1>7, <2>1 DEF Laid
    <2> HIDE DEF t
    <2>3. pos[m] \in Nat /\ pos[t] \in Nat /\ t \in Node
        BY <1>1, <2>2
    <2>4. t # n
        BY <1>4, <2>2, <2>3
    <2>5. s[t] = s[m] + 1
        BY <1>2, <1>4, <1>5, <2>1, <2>2, <2>3
    <2> QED BY <2>1, <2>2, <2>4, <2>5
<1>8. ASSUME NEW m \in K \ {n}, NEW l \in K \ {n}, par[l] = par[m], gs[m].sibling = Nil
      PROVE  s[l] <= s[m]
    <2>1. fs[m].sibling = Nil
        BY <1>1, <1>3, <1>8
    <2>2. pos[l] <= pos[m]
        BY <1>8, <2>1 DEF Laid
    <2> QED BY <1>2, <1>8, <2>2
<1>9. ASSUME NEW e \in Node, gs[e].attr = 2, gs[e].first # Nil
      PROVE  gs[e].first \in K \ {n} /\ par[gs[e].first] = e /\ s[gs[e].first] = 0
    <2>1. CASE e = d
        <3> DEFINE t == fs[n].sibling
        <3>1. gs[e].first = t
            BY <1>3, <2>1
        <3>2. t \in K /\ par[t] = d /\ pos[t] = pos[n] + 1
            BY <1>1, <1>9, <3>1 DEF Laid
        <3> HIDE DEF t
        <3>3. t # n /\ t \in Node /\ s[t] = 0
            BY <1>1, <1>2, <1>4, <3>2
        <3> QED BY <2>1, <3>1, <3>2, <3>3
    <2>2. CASE e # d
        <3> DEFINE t == fs[e].first
        <3>1. gs[e].first = t
            BY <1>3, <2>2
        <3>2. t \in K /\ par[t] = e /\ pos[t] = 0
            BY <1>3, <1>9, <3>1 DEF Laid
        <3> HIDE DEF t
        <3>3. t # n /\ s[t] = 0
            BY <1>1, <1>2, <2>2, <3>2
        <3> QED BY <3>1, <3>2, <3>3
    <2> QED BY <2>1, <2>2
<1>10. \A m \in K \ {n} : \A l \in K \ {n} : par[l] = par[m] => (s[l] = s[m] => l = m)
    BY <1>2
<1>11. K \ {n} \subseteq Node \ {0}
    BY <1>1
<1> HIDE DEF Laid
<1> QED BY <1>1, <1>2, <1>6, <1>7, <1>8, <1>9, <1>10, <1>11 DEF Laid

\* A child behind another one, p, is taken off.
LEMMA UnlinkLater ==
    ASSUME NEW fs, NEW K, NEW par, NEW pos, Laid(fs, K, par, pos),
           NEW d \in Node, fs[d].attr = 2, NEW n, Kid(K, par, n, d),
           NEW p \in Node, Kid(K, par, p, d), p # n, fs[p].sibling = n, pos[n] = pos[p] + 1,
           NEW gs, SiblingSet(fs, p, fs[n].sibling, gs),
           NEW s, s = Closed(par, pos, d, n)
    PROVE  Laid(gs, K \ {n}, par, s)
<1>1. /\ par \in [Node -> Node] /\ pos \in [Node -> Nat] /\ K \subseteq Node \ {0}
      /\ n \in K /\ n \in Node /\ par[n] = d /\ p \in K /\ par[p] = d
    BY DEF Laid, Kid
<1>2. /\ s \in [Node -> Nat]
      /\ \A m \in Node : par[m] # d => s[m] = pos[m]
      /\ \A m \in Node : s[m] = IF par[m] = d /\ pos[m] > pos[n] THEN pos[m] - 1 ELSE pos[m]
      /\ \A m, l \in K \ {n} : par[m] = par[l] =>
            (s[m] = s[l] => m = l) /\ (pos[m] <= pos[l] => s[m] <= s[l])
    BY ClosedPlaces
<1>3. \A m \in Node : /\ gs[m].attr = fs[m].attr /\ gs[m].first = fs[m].first
                      /\ gs[m].sibling = IF m = p THEN fs[n].sibling ELSE fs[m].sibling
    BY DEF SiblingSet, SameMarks
<1>4. pos[p] \in Nat /\ pos[n] \in Nat /\ s[p] = pos[p]
    BY <1>1, <1>2
<1>5. \A m \in K \ {n} : par[m] # m /\ gs[par[m]].attr = 2 /\ gs[par[m]].first # Nil
    BY <1>1, <1>3 DEF Laid
<1>6. ASSUME NEW m \in K \ {n}, gs[m].sibling # Nil
      PROVE  /\ gs[m].sibling \in K \ {n}
             /\ par[gs[m].sibling] = par[m] /\ s[gs[m].sibling] = s[m] + 1
    <2>1. CASE m = p
        <3> DEFINE t == fs[n].sibling
        <3>1. gs[m].sibling = t
            BY <1>3, <2>1
        <3>2. t \in K /\ par[t] = d /\ pos[t] = pos[n] + 1
            BY <1>1, <1>6, <3>1 DEF Laid
        <3> HIDE DEF t
        <3>3. t # n /\ t \in Node /\ s[t] = pos[n]
            BY <1>1, <1>2, <1>4, <3>2
        <3> QED BY <1>1, <1>4, <2>1, <3>1, <3>2, <3>3
    <2>2. CASE m # p
        <3> DEFINE t == fs[m].sibling
        <3>1. gs[m].sibling = t /\ m \in Node
            BY <1>1, <1>3, <2>2
        <3>2. t \in K /\ par[t] = par[m] /\ pos[t] = pos[m] + 1
            BY <1>6, <3>1 DEF Laid
        <3> HIDE DEF t
        <3>3. pos[m] \in Nat /\ pos[t] \in Nat /\ t \in Node
            BY <1>1, <3>1, <3>2
        <3>4. par[m] = d => pos[m] # pos[p] /\ pos[m] # pos[n]
            BY <1>1, <1>6, <2>2 DEF Laid
        <3>5. t # n
            BY <1>1, <1>4, <3>2, <3>3, <3>4
        <3>6. s[t] = s[m] + 1
            BY <1>2, <1>4, <3>1, <3>2, <3>3, <3>4
        <3> QED BY <3>1, <3>2, <3>5, <3>6
    <2> QED BY <2>1, <2>2
<1>7. ASSUME NEW m \in K \ {n}, NEW l \in K \ {n}, par[l] = par[m], gs[m].sibling = Nil
      PROVE  s[l] <= s[m]
    <2>1. CASE m = p
        <3>1. fs[n].sibling = Nil
            BY <1>3, <1>7, <2>1
        <3>2. pos[l] <= pos[n] /\ pos[l] # pos[n] /\ pos[l] \in Nat
            BY <1>1, <1>7, <2>1, <3>1 DEF Laid
        <3>3. pos[l] <= pos[p]
            BY <1>4, <3>2
        <3> QED BY <1>2, <1>7, <2>1, <3>3
    <2>2. CASE m # p
        <3>1. fs[m].sibling = Nil
            BY <1>1, <1>3, <1>7, <2>2
        <3>2. pos[l] <= pos[m]
            BY <1>7, <3>1 DEF Laid
        <3> QED BY <1>2, <1>7, <3>2
    <2> QED BY <2>1, <2>2
<1>8. ASSUME NEW e \in Node, gs[e].attr = 2, gs[e].first # Nil
      PROVE  gs[e].first \in K \ {n} /\ par[gs[e].first] = e /\ s[gs[e].first] = 0
    <2> DEFINE t == fs[e].first
    <2>1. gs[e].first = t
        BY <1>3
    <2>2. t \in K /\ par[t] = e /\ pos[t] = 0
        BY <1>3, <1>8, <2>1 DEF Laid
    <2> HIDE DEF t
    <2>3. t # n
        BY <1>4, <2>2
    <2>4. s[t] = 0
        BY <1>1, <1>2, <1>4, <2>2
    <2> QED BY <2>1, <2>2, <2>3, <2>4
<1>9. \A m \in K \ {n} : \A l \in K \ {n} : par[l] = par[m] => (s[l] = s[m] => l = m)
    BY <1>2
<1>10. K \ {n} \subseteq Node \ {0}
    BY <1>1
<1> QED BY <1>1, <1>2, <1>5, <1>6, <1>7, <1>8, <1>9, <1>10 DEF Laid

\* UnlinkChild takes a child off the list of its directory.
LEMMA UnlinkLaid ==
    ASSUME NEW fs \in NodeTable, NEW K, NEW par, NEW pos, Laid(fs, K, par, pos),
           NEW d \in Node, fs[d].attr = 2, NEW n, Kid(K, par, n, d),
           NEW gs, gs = UnlinkChild(fs, d, n)
    PROVE  /\ SameMarks(fs, gs)
           /\ \A e \in Node : e # d => gs[e].first = fs[e].first
           /\ Placed(gs, K \ {n}, par)
<1> DEFINE s == Closed(par, pos, d, n)
<1>1. n \in Node /\ fs[d].first # Nil
    BY DEF Laid, Kid
<1>2. s \in [Node -> Nat]
    BY ClosedPlaces
<1> HIDE DEF s
<1>3. s = Closed(par, pos, d, n)
    BY DEF s
<1>4. CASE fs[d].first = n
    <2> DEFINE x == fs[n].sibling
    <2>1. gs = [fs EXCEPT ![d].first = x]
        BY <1>1, <1>4 DEF UnlinkChild
    <2> HIDE DEF x
    <2>2. FirstSet(fs, d, x, [fs EXCEPT ![d].first = x])
        BY SetFirst, Zenon
    <2>3. FirstSet(fs, d, x, gs)
        BY <2>1, <2>2, Zenon
    <2>4. FirstSet(fs, d, fs[n].sibling, gs)
        BY <2>3 DEF x
    <2>5. Laid(gs, K \ {n}, par, s)
        BY <1>3, <1>4, <2>4, UnlinkFirst
    <2>6. SameMarks(fs, gs) /\ \A e \in Node : e # d => gs[e].first = fs[e].first
        BY <2>3 DEF FirstSet
    <2> QED BY <1>2, <2>5, <2>6 DEF Placed
<1>5. CASE fs[d].first # n
    <2>0. PICK p : Before(fs, K, par, pos, d, n, p)
        BY <1>5, KidBefore
    <2>1. /\ Kid(K, par, p, d) /\ p \in Node /\ p # n
          /\ fs[p].sibling = n /\ pos[n] = pos[p] + 1
          /\ FirstOf(fs, fs[d].first, {m \in Node : fs[m].sibling \in {n, Nil}}) = {p}
        BY <2>0 DEF Before
    <2> DEFINE x == fs[n].sibling
    <2>2. gs = [m \in Node |-> IF m \in {p} THEN [fs[m] EXCEPT !.sibling = x] ELSE fs[m]]
        BY <1>1, <1>5, <2>1 DEF UnlinkChild
    <2> HIDE DEF x
    <2>3. SiblingSet(fs, p, x, gs)
        BY <2>1, <2>2, SetSibling
    <2>4. SiblingSet(fs, p, fs[n].sibling, gs)
        BY <2>3 DEF x
    <2>5. Laid(gs, K \ {n}, par, s)
        BY <1>3, <2>1, <2>4, UnlinkLater
    <2>6. SameMarks(fs, gs) /\ \A e \in Node : gs[e].first = fs[e].first
        BY <2>3 DEF SiblingSet
    <2> QED BY <1>2, <2>5, <2>6 DEF Placed
<1> QED BY <1>4, <1>5

-----------------------------------------------------------------------------
(* Changes of the tree *)

\* A tree with the types and names of another one on the same lists.
LEMMA TreeIs ==
    ASSUME NEW gs, gs[0].attr = 2, NEW par, Placed(gs, Linked(gs), par),
           Distinct(gs, Linked(gs), par)
    PROVE  TreeAt(gs)
<1>1. PICK pos \in [Node -> Nat] : Laid(gs, Linked(gs), par, pos)
    BY DEF Placed
<1>2. par \in [Node -> Node]
    BY <1>1 DEF Laid
<1> QED BY <1>1, <1>2 DEF TreeAt, Tree

\* What no list, type or name depends on changes.
LEMMA SameTree ==
    ASSUME NEW fs, TreeAt(fs), NEW gs, SameMarks(fs, gs),
           \A m \in Node : gs[m].sibling = fs[m].sibling,
           \A m \in Node : fs[m].attr = 2 => gs[m].first = fs[m].first
    PROVE  TreeAt(gs)
<1>1. PICK par \in [Node -> Node], pos \in [Node -> Nat] : Tree(fs, Linked(fs), par, pos)
    BY DEF TreeAt
<1>2. 0 \in Node /\ \A m \in Node : gs[m].attr = fs[m].attr /\ gs[m].name = fs[m].name
    BY NandFsConstants DEF SameMarks, Node
<1> DEFINE K == Linked(fs)
<1>3. Linked(gs) = K /\ K \subseteq Node
    BY <1>2 DEF Linked
<1> HIDE DEF K
<1>4. Laid(fs, K, par, pos) /\ fs[0].attr = 2 /\ Distinct(fs, K, par)
    BY <1>1 DEF Tree, K
<1>5. \A n \in K : /\ gs[n].sibling = fs[n].sibling
                   /\ gs[par[n]].attr = 2 /\ gs[par[n]].first = fs[par[n]].first
    BY <1>2, <1>3, <1>4 DEF Laid
<1>6. \A d \in Node : gs[d].attr = 2 /\ gs[d].first # Nil =>
               fs[d].attr = 2 /\ gs[d].first = fs[d].first
    BY <1>2
<1>7. Placed(gs, K, par)
    BY <1>4, <1>5, <1>6, Relaid DEF Placed
<1>8. Distinct(gs, K, par)
    BY <1>2, <1>3, <1>4 DEF Distinct
<1> QED BY <1>2, <1>3, <1>4, <1>7, <1>8, TreeIs

\* A node in use that is on no list is put on that of a directory which has no
\* object of its type and name.
LEMMA LinkTree ==
    ASSUME NEW fs \in NodeTable, NEW K, NEW par, NEW pos, Tree(fs, K, par, pos),
           NEW d \in Node, fs[d].attr = 2,
           NEW n \in Node \ {0}, n \notin K, n # d, fs[n].sibling = Nil,
           Linked(fs) = K \cup {n},
           \A m \in K : par[m] = d /\ fs[m].name = fs[n].name => fs[m].attr # fs[n].attr,
           NEW gs, gs = LinkChild(fs, d, n)
    PROVE  TreeAt(gs)
<1> DEFINE q == [par EXCEPT ![n] = d]
<1>1. Laid(fs, K, par, pos) /\ fs[0].attr = 2 /\ Distinct(fs, K, par)
    BY DEF Tree
<1>2. K \subseteq Node \ {0} /\ par \in [Node -> Node] /\ 0 \in Node
    BY <1>1, NandFsConstants DEF Laid, Node
<1>3. q[n] = d /\ \A m \in K : q[m] = par[m]
    BY <1>2
<1>4. q = [par EXCEPT ![n] = d]
    OBVIOUS
<1> HIDE DEF q
<1>5. SameMarks(fs, gs) /\ Placed(gs, K \cup {n}, q)
    BY <1>1, <1>4, LinkLaid
<1>6. \A m \in Node : gs[m].attr = fs[m].attr /\ gs[m].name = fs[m].name
    BY <1>5 DEF SameMarks
<1>7. Linked(gs) = K \cup {n}
    BY <1>6 DEF Linked
<1>8. Distinct(gs, K \cup {n}, q)
    <2>1. \A m \in K : q[m] = q[n] /\ gs[m].name = gs[n].name => gs[m].attr # gs[n].attr
        BY <1>2, <1>3, <1>6
    <2>2. \A m, l \in K :
              q[m] = q[l] /\ gs[m].name = gs[l].name /\ gs[m].attr = gs[l].attr => m = l
        BY <1>1, <1>2, <1>3, <1>6 DEF Distinct
    <2> QED BY <2>1, <2>2 DEF Distinct
<1>9. gs[0].attr = 2
    BY <1>1, <1>2, <1>6
<1> QED BY <1>5, <1>7, <1>8, <1>9, TreeIs

\* gs is the tree fs without the node n.
Without(fs, K, par, n, gs) ==
    /\ \A m \in Node \ {n} : gs[m].attr = fs[m].attr /\ gs[m].name = fs[m].name
    /\ \E s \in [Node -> Nat] : Tree(gs, K \ {n}, par, s)

\* A node without children is taken off its list, and cleared or kept.
LEMMA UnlinkTree ==
    ASSUME NEW fs \in NodeTable, NEW K, NEW par, NEW pos, Tree(fs, K, par, pos),
           NEW d \in Node, fs[d].attr = 2, NEW n, Kid(K, par, n, d),
           fs[n].attr = 2 => fs[n].first = Nil,
           NEW us, us = UnlinkChild(fs, d, n),
           NEW gs, \A m \in Node \ {n} : gs[m] = us[m],
           gs[n].attr = 2 => gs[n].first = Nil
    PROVE  Without(fs, K, par, n, gs)
<1>1. Laid(fs, K, par, pos) /\ fs[0].attr = 2 /\ Distinct(fs, K, par)
    BY DEF Tree
<1>2. K \subseteq Node \ {0} /\ n \in K /\ n \in Node \ {0} /\ n # d /\ 0 \in Node \ {n}
    <2>1. n \in K /\ K \subseteq Node \ {0} /\ n # d
        BY <1>1 DEF Laid, Kid
    <2>2. 0 \in Node
        BY NandFsConstants DEF Node
    <2> QED BY <2>1, <2>2
<1>3. /\ SameMarks(fs, us)
      /\ \A e \in Node : e # d => us[e].first = fs[e].first
      /\ Placed(us, K \ {n}, par)
    BY <1>1, UnlinkLaid
<1> DEFINE L == K \ {n}
<1>4. n \notin L /\ L \subseteq Node
    BY <1>2
<1> HIDE DEF L
<1>5. PICK s \in [Node -> Nat] : Laid(us, L, par, s)
    BY <1>3 DEF Placed, L
<1>6. \A m \in Node : us[m].attr = fs[m].attr /\ us[m].name = fs[m].name
    BY <1>3 DEF SameMarks
<1>7. us[n].attr = 2 => us[n].first = Nil
    BY <1>2, <1>3, <1>6
<1>8. \A m \in L : par[m] # n /\ us[par[m]].attr = 2 /\ par[m] \in Node /\ m \in Node
    BY <1>4, <1>5, <1>7 DEF Laid
<1>9. \A m \in L : /\ gs[m].sibling = us[m].sibling
                   /\ gs[par[m]].attr = 2 /\ gs[par[m]].first = us[par[m]].first
    BY <1>4, <1>8
<1>10. \A e \in Node : gs[e].attr = 2 /\ gs[e].first # Nil =>
               us[e].attr = 2 /\ gs[e].first = us[e].first
    BY <1>2
<1>11. Laid(gs, L, par, s)
    BY <1>5, <1>9, <1>10, Relaid
<1>12. \A m \in Node \ {n} : gs[m].attr = fs[m].attr /\ gs[m].name = fs[m].name
    BY <1>6
<1>13. Distinct(gs, L, par)
    BY <1>1, <1>4, <1>12 DEF Distinct, L
<1>14. gs[0].attr = 2
    BY <1>1, <1>2, <1>12
<1> QED BY <1>5, <1>11, <1>12, <1>13, <1>14 DEF Without, Tree, L

\* mknod and mkdir.
LEMMA CreateTree ==
    ASSUME files \in NodeTable, TreeAt(files), NEW path \in Paths, NEW type \in {1, 2},
           nandfs_open(files, path, type) = {},
           NEW d \in OpenParent(files, path), NEW n \in EmptyNode,
           NEW gs, gs = Created(path, type, d, n)
    PROVE  TreeAt(gs)
<1>1. PICK par \in [Node -> Node], pos \in [Node -> Nat] : Tree(files, Linked(files), par, pos)
    BY DEF TreeAt
<1> DEFINE K == Linked(files)
           r == NewNode(path, type)
           fs == [files EXCEPT ![n] = r]
<1>2. K \subseteq Node \ {0} /\ \A m \in Node \ {0} : files[m].attr # 0 <=> m \in K
    BY DEF Linked
<1> HIDE DEF K
<1>3. Tree(files, K, par, pos) /\ Laid(files, K, par, pos)
      /\ files[0].attr = 2 /\ Distinct(files, K, par)
    BY <1>1 DEF Tree, K
<1>4. n \in Node /\ files[n].attr = 0
    BY DEF EmptyNode
<1>5. d \in Node /\ files[d].attr = 2
    BY ParentFinds
<1>6. n \in Node \ {0} /\ n # d /\ n \notin K /\ 0 \in Node
    <2>1. 0 \in Node
        BY NandFsConstants DEF Node
    <2> QED BY <1>2, <1>3, <1>4, <1>5, <2>1
<1>7. /\ r \in NodeRecord /\ r.attr = type /\ r.name = path.base
      /\ r.first = Nil /\ r.sibling = Nil
    <2>1. path.base \in Names /\ 0 \in Uids /\ 0 \in 0 .. MaxSize
        BY NandFsConstants
    <2>2. Nil \in Link /\ type \in Type
        BY DEF Link, Type
    <2> QED BY <2>1, <2>2 DEF NewNode, NodeRecord
<1> HIDE DEF r
<1>8. fs \in NodeTable /\ fs[n] = r /\ \A m \in Node \ {n} : fs[m] = files[m]
    BY <1>4, <1>7 DEF NodeTable
<1>9. gs = LinkChild(fs, d, n)
    BY DEF Created, r
<1>10. \A m \in K : par[m] = d /\ files[m].name = path.base => files[m].attr # type
    <2>1. {m \in Named(files, path.base, type) : Kid(K, par, m, d)} = {}
        BY <1>3, InParent
    <2> QED BY <1>2, <2>1 DEF Named, Kid
<1> HIDE DEF fs
<1>11. \A m \in K : m # n /\ m \in Node /\ par[m] # n /\ files[par[m]].attr = 2 /\ par[m] \in Node
    BY <1>2, <1>3, <1>4 DEF Laid
<1>12. Laid(fs, K, par, pos)
    <2>1. \A m \in K : /\ fs[m].sibling = files[m].sibling
                       /\ fs[par[m]].attr = 2 /\ fs[par[m]].first = files[par[m]].first
        BY <1>8, <1>11
    <2>2. \A e \in Node : fs[e].attr = 2 /\ fs[e].first # Nil =>
               files[e].attr = 2 /\ fs[e].first = files[e].first
        BY <1>7, <1>8
    <2>3. Laid(files, K, par, pos)
        BY <1>3
    <2> QED BY <2>1, <2>2, <2>3, Relaid
<1>13. Tree(fs, K, par, pos)
    <2>1. \A m \in K : fs[m] = files[m]
        BY <1>8, <1>11
    <2>2. Distinct(fs, K, par)
        BY <1>3, <2>1 DEF Distinct
    <2>3. fs[0].attr = 2
        BY <1>3, <1>6, <1>8
    <2> QED BY <1>12, <2>2, <2>3 DEF Tree
<1>14. Linked(fs) = K \cup {n}
    <2>1. \A m \in Node \ {0} : fs[m].attr # 0 <=> m \in K \cup {n}
        BY <1>2, <1>7, <1>8
    <2> QED BY <1>2, <1>6, <2>1 DEF Linked
<1>15. \A m \in K : par[m] = d /\ fs[m].name = fs[n].name => fs[m].attr # fs[n].attr
    BY <1>7, <1>8, <1>10, <1>11
<1>16. fs[d].attr = 2 /\ fs[n].sibling = Nil
    BY <1>5, <1>6, <1>7, <1>8
<1>17. fs \in NodeTable
    BY <1>8
<1> QED BY <1>5, <1>6, <1>9, <1>13, <1>14, <1>15, <1>16, <1>17, LinkTree

\* unlink and rmdir.
LEMMA RemoveTree ==
    ASSUME files \in NodeTable, TreeAt(files), NEW path \in Paths, NEW type \in {1, 2},
           NEW n \in nandfs_open(files, path, type), type = 2 => files[n].first = Nil,
           NEW d \in OpenParent(files, path),
           NEW gs, gs = Removed(d, n)
    PROVE  TreeAt(gs)
<1>1. PICK par \in [Node -> Node], pos \in [Node -> Nat] : Tree(files, Linked(files), par, pos)
    BY DEF TreeAt
<1> DEFINE K == Linked(files)
           us == UnlinkChild(files, d, n)
<1>2. K \subseteq Node \ {0} /\ \A m \in Node \ {0} : files[m].attr # 0 <=> m \in K
    BY DEF Linked
<1> HIDE DEF K
<1>3. Tree(files, K, par, pos)
    BY <1>1 DEF K
<1>4. d \in Node /\ files[d].attr = 2 /\ n \in Node /\ files[n].attr = type
    BY ParentFinds, OpenFinds
<1>5. Kid(K, par, n, d)
    <2>1. nandfs_open(files, path, type) = {m \in Named(files, path.base, type) : Kid(K, par, m, d)}
        BY <1>3, InParent
    <2> QED BY <2>1
<1>6. us \in NodeTable
    BY <1>4, UnlinkChildFiles DEF SameFiles
<1>7. gs = [us EXCEPT ![n] = ZeroNode]
    BY DEF Removed
<1> HIDE DEF us
<1>8. us = UnlinkChild(files, d, n)
    BY DEF us
<1>9. gs[n] = ZeroNode /\ \A m \in Node \ {n} : gs[m] = us[m]
    BY <1>4, <1>6, <1>7 DEF NodeTable
<1>10. gs[n].attr = 0
    <2>1. ZeroNode.attr = 0
        BY DEF ZeroNode
    <2> QED BY <1>9, <2>1
<1>11. /\ \A m \in Node \ {n} : gs[m].attr = files[m].attr /\ gs[m].name = files[m].name
       /\ \E s \in [Node -> Nat] : Tree(gs, K \ {n}, par, s)
    <2>1. files[n].attr = 2 => files[n].first = Nil
        BY <1>4
    <2>2. gs[n].attr = 2 => gs[n].first = Nil
        BY <1>10
    <2>3. \A m \in Node \ {n} : gs[m] = us[m]
        BY <1>9
    <2>4. d \in Node /\ files[d].attr = 2
        BY <1>4
    <2>5. Without(files, K, par, n, gs)
        BY <1>3, <1>5, <1>8, <2>1, <2>2, <2>3, <2>4, UnlinkTree
    <2> QED BY <2>5 DEF Without
<1>12. Linked(gs) = K \ {n}
    <2>1. \A m \in Node \ {0} : gs[m].attr # 0 <=> m \in K \ {n}
        BY <1>2, <1>10, <1>11
    <2> QED BY <1>2, <2>1 DEF Linked
<1>13. par \in [Node -> Node]
    OBVIOUS
<1> QED BY <1>11, <1>12, <1>13 DEF TreeAt

\* The way to a directory does not depend on files.
LEMMA SameWay ==
    ASSUME NEW fs, NEW K, NEW par, NEW dir, NEW m, NEW D, Resolves(fs, K, par, dir, m, D),
           NEW n, fs[n].attr # 2, K \subseteq Node,
           NEW gs, \A x \in Node \ {n} : gs[x].attr = fs[x].attr /\ gs[x].name = fs[x].name
    PROVE  Resolves(gs, K \ {n}, par, dir, m, D)
<1>1. ASSUME NEW i \in 1 .. m
      PROVE  Kid(K \ {n}, par, D[i], D[i-1]) /\ gs[D[i]].name = dir[i] /\ gs[D[i]].attr = 2
    <2>1. Kid(K, par, D[i], D[i-1]) /\ fs[D[i]].name = dir[i] /\ fs[D[i]].attr = 2
        BY DEF Resolves
    <2>2. D[i] # n /\ D[i] \in Node
        BY <2>1 DEF Kid
    <2> QED BY <2>1, <2>2 DEF Kid
<1> QED BY <1>1 DEF Resolves

\* A client moves a file to another directory, where the name is free.
LEMMA MovedTree ==
    ASSUME files \in NodeTable, TreeAt(files), NEW path \in Paths, NEW newpath \in Paths,
           path.base = newpath.base, RenameAllowed(path, newpath),
           NEW gs \in Moved(files, path, newpath)
    PROVE  TreeAt(gs)
<1>1. PICK par \in [Node -> Node], pos \in [Node -> Nat] : Tree(files, Linked(files), par, pos)
    BY DEF TreeAt
<1> DEFINE K == Linked(files)
           src == nandfs_open(files, path, 1)
           dir == OpenParent(files, path)
           out == {[UnlinkChild(files, d, n) EXCEPT ![n].sibling = Nil] : d \in dir, n \in src}
<1>2. K \subseteq Node \ {0} /\ \A m \in Node \ {0} : files[m].attr # 0 <=> m \in K
    BY DEF Linked
<1> HIDE DEF K
<1>3. Tree(files, K, par, pos)
    BY <1>1 DEF K
<1>4. CASE src = {} \/ dir = {}
    BY <1>4 DEF Moved
<1>5. CASE ~(src = {} \/ dir = {})
    <2>1. PICK fs \in out :
              IF nandfs_open(fs, newpath, 1) # {} \/ OpenParent(fs, newpath) = {}
              THEN gs = fs
              ELSE \E e \in OpenParent(fs, newpath), n \in src : gs = LinkChild(fs, e, n)
        BY <1>5 DEF Moved
    <2>2. PICK d \in dir, n \in src : fs = [UnlinkChild(files, d, n) EXCEPT ![n].sibling = Nil]
        OBVIOUS
    <2>3. d \in Node /\ files[d].attr = 2 /\ n \in Node /\ files[n].attr = 1
        BY ParentFinds, OpenFinds
    <2>4. src = {m \in Named(files, path.base, 1) : Kid(K, par, m, d)}
        BY <1>3, InParent
    <2>5. Kid(K, par, n, d) /\ files[n].name = path.base /\ \A m \in src : m = n
        BY <1>3, <2>4 DEF Named, Kid, Tree, Distinct
    <2> DEFINE us == UnlinkChild(files, d, n)
    <2>6. us \in NodeTable
        BY <2>3, UnlinkChildFiles DEF SameFiles
    <2>7. us[n].attr = 1
        <3>1. SameFiles(files, us)
            BY <2>3, UnlinkChildFiles
        <3> QED BY <2>3, <3>1 DEF SameFiles
    <2> HIDE DEF us
    <2>8. us = UnlinkChild(files, d, n)
        BY DEF us
    <2> DEFINE r == [us[n] EXCEPT !.sibling = Nil]
    <2>9. r \in NodeRecord /\ r.attr = 1 /\ r.sibling = Nil
        <3>1. us[n] \in NodeRecord
            BY <2>3, <2>6 DEF NodeTable
        <3>2. r \in NodeRecord /\ r.attr = us[n].attr
            BY <3>1, RecordFields
        <3>3. r.sibling = Nil
            BY <3>1, RecordLinks
        <3> QED BY <2>7, <3>2, <3>3
    <2>10. fs = [us EXCEPT ![n] = r]
        BY <2>2 DEF us
    <2> HIDE DEF r
    <2>11. fs \in NodeTable /\ fs[n] = r /\ \A m \in Node \ {n} : fs[m] = us[m]
        BY <2>3, <2>6, <2>9, <2>10 DEF NodeTable
    <2>12. fs[n].attr = 1 /\ fs[n].sibling = Nil /\ fs \in NodeTable
        BY <2>9, <2>11
    <2>13. Without(files, K, par, n, fs)
        <3>1. files[n].attr = 2 => files[n].first = Nil
            BY <2>3
        <3>2. fs[n].attr = 2 => fs[n].first = Nil
            BY <2>12
        <3>3. \A m \in Node \ {n} : fs[m] = us[m]
            BY <2>11
        <3>4. d \in Node /\ files[d].attr = 2
            BY <2>3
        <3> QED BY <1>3, <2>5, <2>8, <3>1, <3>2, <3>3, <3>4, UnlinkTree
    <2>14. \A m \in Node \ {n} : fs[m].attr = files[m].attr /\ fs[m].name = files[m].name
        BY <2>13 DEF Without
    <2> DEFINE L == K \ {n}
    <2>15. n \notin L /\ L \subseteq Node \ {0} /\ L \subseteq K /\ K = L \cup {n} /\ n \in Node \ {0}
        BY <1>2, <2>5 DEF Kid
    <2>16. PICK s \in [Node -> Nat] : Tree(fs, L, par, s)
        BY <2>13 DEF Without
    <2>17. PICK e : e \in OpenParent(files, newpath)
        BY DEF RenameAllowed
    <2>18. /\ rootok /\ Len(newpath.dir) # 0 /\ e \in K /\ e \in Node /\ files[e].attr = 2
           /\ \E D : /\ Resolves(files, K, par, newpath.dir, Len(newpath.dir), D)
                     /\ D[Len(newpath.dir)] = e
        BY <1>3, <2>17, ParentResolves
    <2>19. PICK D : /\ Resolves(files, K, par, newpath.dir, Len(newpath.dir), D)
                    /\ D[Len(newpath.dir)] = e
        BY <2>18
    <2>20. Resolves(fs, L, par, newpath.dir, Len(newpath.dir), D)
        <3>1. files[n].attr # 2 /\ K \subseteq Node
            BY <1>2, <2>3
        <3> DEFINE p == newpath.dir
                   l == Len(p)
                   M == K \ {n}
        <3>2. Resolves(files, K, par, p, l, D)
            BY <2>19
        <3>3. \A x \in Node \ {n} : fs[x].attr = files[x].attr /\ fs[x].name = files[x].name
            BY <2>14
        <3>4. M = K \ {n}
            OBVIOUS
        <3> HIDE DEF p, l, K, M
        <3>5. Resolves(fs, M, par, p, l, D)
            BY <3>1, <3>2, <3>3, <3>4, SameWay
        <3> QED BY <3>5 DEF p, l, M
    <2> HIDE DEF L
    <2>21. OpenParent(fs, newpath) = {e}
        BY <2>16, <2>18, <2>19, <2>20, ParentIs
    <2>22. \A m \in K : par[m] = e /\ files[m].name = newpath.base => files[m].attr # 1
        <3>1. nandfs_open(files, newpath, 1) = {}
            BY DEF RenameAllowed
        <3>2. nandfs_open(files, newpath, 1) = {m \in Named(files, newpath.base, 1) : Kid(K, par, m, e)}
            BY <1>3, <2>17, InParent
        <3>3. {m \in Named(files, newpath.base, 1) : Kid(K, par, m, e)} = {}
            BY <3>1, <3>2
        <3> QED BY <1>2, <3>3 DEF Named, Kid
    <2>23. \A m \in L : par[m] = e /\ fs[m].name = newpath.base => fs[m].attr # 1
        <3>1. \A m \in L : m \in K /\ m \in Node \ {n}
            BY <2>15
        <3> QED BY <2>14, <2>22, <3>1
    <2>24. nandfs_open(fs, newpath, 1) = {}
        <3>1. e \in OpenParent(fs, newpath)
            BY <2>21
        <3>2. nandfs_open(fs, newpath, 1) = {m \in Named(fs, newpath.base, 1) : Kid(L, par, m, e)}
            BY <2>16, <3>1, InParent
        <3>3. {m \in Named(fs, newpath.base, 1) : Kid(L, par, m, e)} = {}
            BY <2>23 DEF Named, Kid
        <3> QED BY <3>2, <3>3
    <2>25. gs = LinkChild(fs, e, n)
        BY <2>1, <2>5, <2>21, <2>24
    <2>26. n # e /\ fs[e].attr = 2 /\ e \in Node
        <3>1. e \in Node /\ files[e].attr = 2 /\ files[n].attr = 1
            BY <2>3, <2>18
        <3>2. n # e
            BY <3>1
        <3> QED BY <2>14, <3>1, <3>2
    <2>27. \A m \in L : par[m] = e /\ fs[m].name = fs[n].name => fs[m].attr # fs[n].attr
        <3>1. fs[n].name = newpath.base
            <4>1. r.name = us[n].name
                <5>1. us[n] \in NodeRecord
                    BY <2>3, <2>6 DEF NodeTable
                <5> QED BY <5>1, RecordLinks DEF r
            <4>2. SameMeta(files, us)
                BY <2>3, UnlinkChildMeta DEF us
            <4>3. us[n].name = files[n].name
                BY <2>3, <4>2 DEF SameMeta
            <4> QED BY <2>5, <2>11, <4>1, <4>3
        <3> QED BY <2>12, <2>23, <3>1
    <2>28. Linked(fs) = L \cup {n}
        <3>1. \A m \in Node \ {0} : fs[m].attr # 0 <=> m \in K
            <4>1. n \in K /\ fs[n].attr # 0
                BY <2>12, <2>15
            <4>2. \A m \in Node \ {0, n} : fs[m].attr # 0 <=> m \in K
                BY <1>2, <2>14
            <4> QED BY <4>1, <4>2
        <3>2. Linked(fs) = K
            BY <1>2, <3>1 DEF Linked
        <3> QED BY <2>15, <3>2
    <2>29. n \in Node \ {0} /\ n \notin L
        BY <2>15
    <2> QED BY <2>12, <2>16, <2>25, <2>26, <2>27, <2>28, <2>29, LinkTree
<1> QED BY <1>4, <1>5

\* A client gives a file a free name in its directory.
LEMMA RenamedTree ==
    ASSUME files \in NodeTable, TreeAt(files), NEW path \in Paths, NEW newpath \in Paths,
           path.dir = newpath.dir, RenameAllowed(path, newpath),
           NEW n \in nandfs_open(files, path, 1),
           NEW gs,
           \A m \in Node : /\ gs[m].attr = files[m].attr /\ gs[m].sibling = files[m].sibling
                           /\ gs[m].first = files[m].first
                           /\ gs[m].name = IF m = n THEN newpath.base ELSE files[m].name
    PROVE  TreeAt(gs)
<1>1. PICK par \in [Node -> Node], pos \in [Node -> Nat] : Tree(files, Linked(files), par, pos)
    BY DEF TreeAt
<1> DEFINE K == Linked(files)
<1>2. K \subseteq Node \ {0} /\ \A m \in Node \ {0} : files[m].attr # 0 <=> m \in K
    BY DEF Linked
<1> HIDE DEF K
<1>3. Tree(files, K, par, pos) /\ Laid(files, K, par, pos)
      /\ files[0].attr = 2 /\ Distinct(files, K, par)
    BY <1>1 DEF Tree, K
<1>4. n \in Node /\ files[n].attr = 1 /\ 0 \in Node
    BY OpenFinds, NandFsConstants DEF Node
<1>5. PICK d : d \in OpenParent(files, newpath)
    BY DEF RenameAllowed
<1>6. OpenParent(files, path) = OpenParent(files, newpath)
    BY DEF OpenParent
<1>7. Kid(K, par, n, d)
    <2>1. nandfs_open(files, path, 1) = {m \in Named(files, path.base, 1) : Kid(K, par, m, d)}
        BY <1>3, <1>5, <1>6, InParent
    <2> QED BY <2>1
<1>8. \A m \in K : par[m] = d /\ files[m].name = newpath.base => files[m].attr # 1
    <2>1. nandfs_open(files, newpath, 1) = {m \in Named(files, newpath.base, 1) : Kid(K, par, m, d)}
        BY <1>3, <1>5, InParent
    <2>2. nandfs_open(files, newpath, 1) = {}
        BY DEF RenameAllowed
    <2>3. {m \in Named(files, newpath.base, 1) : Kid(K, par, m, d)} = {}
        BY <2>1, <2>2
    <2> QED BY <1>2, <2>3 DEF Named, Kid
<1>13. \A m \in Node : /\ gs[m].attr = files[m].attr /\ gs[m].sibling = files[m].sibling
                       /\ gs[m].first = files[m].first
                       /\ gs[m].name = IF m = n THEN newpath.base ELSE files[m].name
    OBVIOUS
<1>14. Linked(gs) = K
    BY <1>13 DEF Linked, K
<1>15. Laid(gs, K, par, pos)
    <2>1. \A m \in K : /\ gs[m].sibling = files[m].sibling
                       /\ gs[par[m]].attr = 2 /\ gs[par[m]].first = files[par[m]].first
        <3>1. \A m \in K : m \in Node /\ par[m] \in Node /\ files[par[m]].attr = 2
            BY <1>2, <1>3 DEF Laid
        <3> QED BY <1>13, <3>1
    <2>2. \A e \in Node : gs[e].attr = 2 /\ gs[e].first # Nil =>
               files[e].attr = 2 /\ gs[e].first = files[e].first
        BY <1>13
    <2>3. Laid(files, K, par, pos)
        BY <1>3
    <2> QED BY <2>1, <2>2, <2>3, Relaid
<1>16. Distinct(gs, K, par)
    <2> SUFFICES ASSUME NEW l \in K, NEW m \in K, par[l] = par[m],
                        gs[l].name = gs[m].name, gs[l].attr = gs[m].attr
                 PROVE  l = m
        BY DEF Distinct
    <2>1. l \in Node /\ m \in Node /\ files[l].attr = files[m].attr
        BY <1>2, <1>13
    <2>0. par[n] = d /\ gs[n].name = newpath.base /\ files[n].attr = 1
        BY <1>4, <1>7, <1>13 DEF Kid
    <2>2. CASE l = n
        <3>1. m # n => files[m].name = newpath.base /\ files[m].attr = 1 /\ par[m] = d
            BY <1>13, <2>0, <2>1, <2>2
        <3> QED BY <1>8, <2>2, <3>1
    <2>3. CASE m = n
        <3>1. l # n => files[l].name = newpath.base /\ files[l].attr = 1 /\ par[l] = d
            BY <1>13, <2>0, <2>1, <2>3
        <3> QED BY <1>8, <2>3, <3>1
    <2>4. CASE l # n /\ m # n
        BY <1>3, <1>13, <2>1, <2>4 DEF Distinct
    <2> QED BY <2>2, <2>3, <2>4
<1>17. gs[0].attr = 2
    BY <1>3, <1>4, <1>13
<1>18. par \in [Node -> Node] /\ pos \in [Node -> Nat]
    OBVIOUS
<1> QED BY <1>14, <1>15, <1>16, <1>17, <1>18 DEF TreeAt, Tree

\* fs_rename, by a client that keeps to RenameAllowed.
LEMMA RenameTree ==
    ASSUME Polite, files \in NodeTable, TreeAt(files),
           NEW path \in Paths, NEW newpath \in Paths, fs_rename(path, newpath)
    PROVE  TreeAt(files')
<1>1. RenameAllowed(path, newpath)
    BY DEF fs_rename
<1>2. PICK n \in nandfs_open(files, path, 1) :
        LET fs == [files EXCEPT ![n].name = newpath.base]
        IN  IF path.dir = newpath.dir THEN files' = fs
            ELSE files' \in Moved(fs, path, newpath)
    BY DEF fs_rename
<1>3. CASE path.dir = newpath.dir
    <2>1. files' = [files EXCEPT ![n].name = newpath.base]
        BY <1>2, <1>3
    <2> DEFINE r == [files[n] EXCEPT !.name = newpath.base]
    <2>2. n \in Node /\ files[n] \in NodeRecord
        BY OpenFinds DEF NodeTable
    <2>3. /\ r.name = newpath.base /\ r.attr = files[n].attr
          /\ r.first = files[n].first /\ r.sibling = files[n].sibling
        BY <2>2 DEF NodeRecord
    <2>4. files' = [files EXCEPT ![n] = r]
        BY <2>1
    <2> HIDE DEF r
    <2>5. files'[n] = r /\ \A m \in Node \ {n} : files'[m] = files[m]
        BY <2>2, <2>4 DEF NodeTable
    <2> DEFINE gs == files'
    <2>6. \A m \in Node : /\ gs[m].attr = files[m].attr /\ gs[m].sibling = files[m].sibling
                          /\ gs[m].first = files[m].first
                          /\ gs[m].name = IF m = n THEN newpath.base ELSE files[m].name
        BY <2>3, <2>5
    <2> HIDE DEF gs
    <2>7. TreeAt(gs)
        BY <1>1, <1>3, <2>6, RenamedTree
    <2> QED BY <2>7 DEF gs
<1>4. CASE path.dir # newpath.dir
    <2>1. path.base = newpath.base
        BY <1>1, <1>4 DEF RenameAllowed
    <2>2. n \in Node /\ files[n].name = path.base
        <3>1. n \in Named(files, path.base, 1)
            BY FirstOfMember DEF nandfs_open
        <3> QED BY <3>1 DEF Named
    <2>3. files[n] \in NodeRecord
        BY <2>2 DEF NodeTable
    <2>4. [files[n] EXCEPT !.name = newpath.base] = files[n]
        BY <2>1, <2>2, <2>3 DEF NodeRecord
    <2>5. [files EXCEPT ![n] = files[n]] = files
        BY <2>2 DEF NodeTable
    <2>6. [files EXCEPT ![n].name = newpath.base] =
          [files EXCEPT ![n] = [files[n] EXCEPT !.name = newpath.base]]
        OBVIOUS
    <2>7. [files EXCEPT ![n].name = newpath.base] = files
        BY <2>4, <2>5, <2>6
    <2>8. files' \in Moved(files, path, newpath)
        BY <1>2, <1>4, <2>7
    <2> QED BY <1>1, <2>1, <2>8, MovedTree
<1> QED BY <1>3, <1>4

-----------------------------------------------------------------------------
(* Open slots and the tree *)

\* A slot is open on a file: some handle holds it, for a node that is still a file.
\* Several handles may hold one slot, and a handle may hold a slot that is closed.
SlotsOpen ==
    \A i \in used_fds :
        /\ files[fd_array[i].node].attr = 1
        /\ \E h \in Handles : /\ handle[h] # NoHandle
                              /\ handle[h].fh = i /\ handle[h].node = fd_array[i].node

\* The step keeps the tree, if the client keeps to the rules.
KeepsTree == Polite /\ TreeAt(files) => TreeAt(files')

\* A step that leaves the nodes as they are.
LEMMA SameNodes == ASSUME files' = files PROVE KeepsTree
BY DEF KeepsTree

\* A step that closes nothing and turns no open file into something else.
LEMMA KeepSlots ==
    ASSUME SlotsOpen, UNCHANGED <<used_fds, handle>>,
           \A i \in used_fds : fd_array'[i].node = fd_array[i].node,
           \A m \in OpenNodes : files[m].attr = 1 => files'[m].attr = 1
    PROVE  SlotsOpen'
<1> SUFFICES ASSUME NEW i \in used_fds
             PROVE  /\ files'[fd_array'[i].node].attr = 1
                    /\ \E h \in Handles : /\ handle'[h] # NoHandle
                          /\ handle'[h].fh = i /\ handle'[h].node = fd_array'[i].node
    BY DEF SlotsOpen
<1>1. PICK h \in Handles : /\ handle[h] # NoHandle
                           /\ handle[h].fh = i /\ handle[h].node = fd_array[i].node
    BY DEF SlotsOpen
<1>2. fd_array[i].node \in OpenNodes /\ files[fd_array[i].node].attr = 1
    BY <1>1 DEF OpenNodes, SlotsOpen
<1>3. fd_array'[i].node = fd_array[i].node /\ files'[fd_array[i].node].attr = 1
    BY <1>2
<1> QED BY <1>1, <1>3

\* Where a table is left, the nodes and the slots stay.
LEMMA WildTree ==
    ASSUME SlotsOpen, GoWild PROVE SlotsOpen' /\ KeepsTree
<1>1. UNCHANGED <<files, used_fds, fd_array, handle>>
    BY DEF GoWild
<1>2. SlotsOpen'
    BY <1>1, KeepSlots
<1>3. KeepsTree
    BY <1>1, SameNodes
<1> QED BY <1>2, <1>3

\* What fs_create adds was no node before.
LEMMA CreateStep ==
    ASSUME TypeOK, SlotsOpen,
           NEW path \in Paths, NEW type \in {1, 2}, nandfs_create(path, type)
    PROVE  SlotsOpen' /\ KeepsTree
<1>1. CASE GoWild
    BY <1>1, WildTree
<1>2. ASSUME nandfs_open(files, path, type) = {},
             NEW d \in OpenParent(files, path), NEW n \in EmptyNode,
             files' = Created(path, type, d, n),
             UNCHANGED <<used_fds, fd_array, handle>>
      PROVE  SlotsOpen' /\ KeepsTree
    <2>1. files \in NodeTable
        BY TypeParts
    <2>2. KeepsTree
        BY <1>2, <2>1, CreateTree DEF KeepsTree
    <2>3. /\ n \in Node /\ files[n].attr = 0
          /\ \A m \in Node \ {n} : files'[m].attr = files[m].attr
        BY <1>2, <2>1, CreateNodes
    <2>4. OpenNodes \subseteq Node
        BY TypeParts DEF OpenNodes, HandleTable
    <2>5. \A m \in OpenNodes : files[m].attr = 1 => files'[m].attr = 1
        BY <2>3, <2>4
    <2>6. SlotsOpen'
        BY <1>2, <2>5, KeepSlots
    <2> QED BY <2>2, <2>6
<1> QED BY <1>1, <1>2 DEF nandfs_create, Created

\* A file that is removed is not open, and a directory has no children.
LEMMA RemoveStep ==
    ASSUME TypeOK, SlotsOpen,
           NEW path \in Paths, NEW type \in {1, 2}, NEW n \in Node,
           type = 1 => n \notin OpenNodes, Polite /\ type = 2 => files[n].first = Nil,
           nandfs_unlink(path, type, n)
    PROVE  SlotsOpen' /\ KeepsTree
<1>1. CASE GoWild
    BY <1>1, WildTree
<1>2. ASSUME NEW d \in OpenParent(files, path), n \in nandfs_open(files, path, type),
             files' = Removed(d, n),
             UNCHANGED <<used_fds, fd_array, handle>>
      PROVE  SlotsOpen' /\ KeepsTree
    <2>1. files \in NodeTable
        BY TypeParts
    <2>2. KeepsTree
        <3> SUFFICES ASSUME Polite, TreeAt(files) PROVE TreeAt(files')
            BY DEF KeepsTree
        <3>1. type = 2 => files[n].first = Nil
            OBVIOUS
        <3> QED BY <1>2, <2>1, <3>1, RemoveTree
    <2>3. /\ files[n].attr = type
          /\ \A m \in Node \ {n} : files'[m].attr = files[m].attr
        BY <1>2, <2>1, UnlinkNodes
    <2>4. OpenNodes \subseteq Node
        BY TypeParts DEF OpenNodes, HandleTable
    <2>5. \A m \in OpenNodes : files[m].attr = 1 => files'[m].attr = 1
        BY <2>3, <2>4
    <2>6. SlotsOpen'
        BY <1>2, <2>5, KeepSlots
    <2> QED BY <2>2, <2>6
<1> QED BY <1>1, <1>2 DEF nandfs_unlink, Removed

\* A rename neither opens nor closes a file.
LEMMA RenameStep ==
    ASSUME TypeOK, SlotsOpen,
           NEW path \in Paths, NEW newpath \in Paths, fs_rename(path, newpath)
    PROVE  SlotsOpen' /\ KeepsTree
<1>1. files \in NodeTable
    BY TypeParts
<1>2. KeepsTree
    BY <1>1, RenameTree DEF KeepsTree
<1>3. SameFiles(files, files')
    BY <1>1, RenameNodes
<1>4. OpenNodes \subseteq Node
    BY TypeParts DEF OpenNodes, HandleTable
<1>5. \A m \in OpenNodes : files[m].attr = 1 => files'[m].attr = 1
    BY <1>3, <1>4 DEF SameFiles
<1>6. UNCHANGED <<used_fds, fd_array, handle>>
    BY DEF fs_rename
<1>7. SlotsOpen'
    BY <1>5, <1>6, KeepSlots
<1> QED BY <1>2, <1>7

\* One node gets another record of the same object: first changes for a file only.
LEMMA RecordStep ==
    ASSUME OpenNodes \subseteq Node, NEW n \in Node, NEW r,
           r.attr = files[n].attr, r.name = files[n].name, r.sibling = files[n].sibling,
           files[n].attr = 2 => r.first = files[n].first,
           files'[n] = r, \A m \in Node \ {n} : files'[m] = files[m]
    PROVE  /\ KeepsTree
           /\ \A m \in OpenNodes : files[m].attr = 1 => files'[m].attr = 1
<1> DEFINE gs == files'
<1>1. \A m \in Node : gs[m] = IF m = n THEN r ELSE files[m]
    OBVIOUS
<1> HIDE DEF gs
<1>2. \A m \in Node : gs[m].attr = files[m].attr
    BY <1>1
<1>3. \A m \in Node : gs[m].name = files[m].name
    BY <1>1
<1>4. SameMarks(files, gs)
    BY <1>2, <1>3 DEF SameMarks
<1>5. \A m \in Node : gs[m].sibling = files[m].sibling
    BY <1>1
<1>6. \A m \in Node : files[m].attr = 2 => gs[m].first = files[m].first
    BY <1>1
<1>7. TreeAt(files) => TreeAt(gs)
    BY <1>4, <1>5, <1>6, SameTree
<1> QED BY <1>2, <1>7 DEF gs, KeepsTree

\* fs_chown changes the owner only.
LEMMA ChownStep ==
    ASSUME TypeOK, SlotsOpen,
           NEW path \in Paths, NEW uid \in Uids, fs_chown(path, uid)
    PROVE  SlotsOpen' /\ KeepsTree
<1>1. PICK n \in Node : files' = [files EXCEPT ![n].uid = uid]
    BY OpenFinds DEF fs_chown
<1> DEFINE r == [files[n] EXCEPT !.uid = uid]
<1>2. files[n] \in NodeRecord
    BY TypeParts DEF NodeTable
<1>3. /\ r.attr = files[n].attr /\ r.name = files[n].name
      /\ r.sibling = files[n].sibling /\ r.first = files[n].first
    BY <1>2 DEF NodeRecord
<1>4. files' = [files EXCEPT ![n] = r]
    BY <1>1
<1> HIDE DEF r
<1>5. files'[n] = r /\ \A m \in Node \ {n} : files'[m] = files[m]
    BY <1>4, TypeParts DEF NodeTable
<1>6. OpenNodes \subseteq Node
    BY TypeParts DEF OpenNodes, HandleTable
<1>7. /\ KeepsTree
      /\ \A m \in OpenNodes : files[m].attr = 1 => files'[m].attr = 1
    BY <1>3, <1>5, <1>6, RecordStep
<1>8. UNCHANGED <<used_fds, fd_array, handle>>
    BY DEF fs_chown
<1>9. SlotsOpen'
    BY <1>7, <1>8, KeepSlots
<1> QED BY <1>7, <1>9

\* fs_truncate changes the size only, whatever it does to the clusters.
LEMMA TruncateStep ==
    ASSUME TypeOK, SlotsOpen,
           NEW path \in Paths, NEW size \in 0 .. MaxSize, fs_truncate(path, size)
    PROVE  SlotsOpen' /\ KeepsTree
<1>1. CASE GoWild
    BY <1>1, WildTree
<1>2. ASSUME NEW n \in nandfs_open(files, path, 1),
             files' = [files EXCEPT ![n].size = size],
             UNCHANGED <<used_fds, fd_array, handle>>
      PROVE  SlotsOpen' /\ KeepsTree
    <2> DEFINE r == [files[n] EXCEPT !.size = size]
    <2>1. n \in Node
        BY OpenFinds
    <2>2. files[n] \in NodeRecord
        BY <2>1, TypeParts DEF NodeTable
    <2>3. /\ r.attr = files[n].attr /\ r.name = files[n].name
          /\ r.sibling = files[n].sibling /\ r.first = files[n].first
        BY <2>2 DEF NodeRecord
    <2>4. files' = [files EXCEPT ![n] = r]
        BY <1>2
    <2> HIDE DEF r
    <2>5. files'[n] = r /\ \A m \in Node \ {n} : files'[m] = files[m]
        BY <2>1, <2>4, TypeParts DEF NodeTable
    <2>6. OpenNodes \subseteq Node
        BY TypeParts DEF OpenNodes, HandleTable
    <2>7. /\ KeepsTree
          /\ \A m \in OpenNodes : files[m].attr = 1 => files'[m].attr = 1
        BY <2>1, <2>3, <2>5, <2>6, RecordStep
    <2>8. SlotsOpen'
        BY <1>2, <2>7, KeepSlots
    <2> QED BY <2>7, <2>8
<1> QED BY <1>1, <1>2 DEF fs_truncate

\* The slot fs_open takes was closed, and the handle held nothing.
LEMMA OpenStep ==
    ASSUME TypeOK, SlotsOpen, NEW h \in Handles, NEW path \in Paths,
           fs_open(h, path)
    PROVE  SlotsOpen' /\ KeepsTree
<1>1. PICK n \in nandfs_open(files, path, 1), i \in Slot \ used_fds :
        /\ used_fds' = used_fds \cup {i}
        /\ fd_array' = [fd_array EXCEPT ![i] =
              [node |-> n, first |-> files[n].first, cur |-> files[n].first,
               size |-> files[n].size, index |-> 0]]
        /\ handle' = [handle EXCEPT ![h] = [fh |-> i, node |-> n]]
    BY DEF fs_open
<1>2. files' = files /\ handle[h] = NoHandle
    BY DEF fs_open
<1>3. files[n].attr = 1
    BY OpenFinds
<1>4. fd_array \in SlotTable /\ handle \in HandleTable /\ used_fds \subseteq Slot
    BY TypeParts
<1>5. fd_array'[i].node = n /\ \A j \in used_fds : fd_array'[j].node = fd_array[j].node
    BY <1>1, <1>4 DEF SlotTable
<1>6. /\ handle'[h] = [fh |-> i, node |-> n]
      /\ \A g \in Handles \ {h} : handle'[g] = handle[g]
    BY <1>1, <1>4 DEF HandleTable
<1>7. i \in Slot /\ -1 \notin Slot
    BY DEF Slot
<1>8. handle'[h] # NoHandle /\ handle'[h].fh = i /\ handle'[h].node = n
    BY <1>6, <1>7 DEF NoHandle
<1>9. SlotsOpen'
    <2> SUFFICES ASSUME NEW j \in used_fds'
                 PROVE  /\ files'[fd_array'[j].node].attr = 1
                        /\ \E g \in Handles : /\ handle'[g] # NoHandle
                              /\ handle'[g].fh = j /\ handle'[g].node = fd_array'[j].node
        BY DEF SlotsOpen
    <2>1. CASE j = i
        BY <1>2, <1>3, <1>5, <1>8, <2>1
    <2>2. CASE j \in used_fds
        <3>1. PICK g \in Handles : /\ handle[g] # NoHandle
                                   /\ handle[g].fh = j /\ handle[g].node = fd_array[j].node
            BY <2>2 DEF SlotsOpen
        <3>2. handle'[g] = handle[g]
            BY <1>2, <1>6, <3>1
        <3>3. files[fd_array[j].node].attr = 1 /\ fd_array'[j].node = fd_array[j].node
            BY <1>5, <2>2 DEF SlotsOpen
        <3> QED BY <1>2, <3>1, <3>2, <3>3
    <2> QED BY <1>1, <2>1, <2>2
<1> QED BY <1>2, <1>9, SameNodes

\* fs_release closes the slot of the handle with every lower one.
LEMMA ReleaseStep ==
    ASSUME TypeOK, SlotsOpen, NEW h \in Handles, fs_release(h)
    PROVE  SlotsOpen' /\ KeepsTree
<1> DEFINE fh == handle[h].fh
<1>1. files' = files /\ handle' = [handle EXCEPT ![h] = NoHandle]
    BY DEF fs_release
<1>2. handle \in HandleTable /\ fd_array \in SlotTable /\ used_fds \subseteq Slot
    BY TypeParts
<1>3. \A g \in Handles \ {h} : handle'[g] = handle[g]
    BY <1>1, <1>2 DEF HandleTable
<1>4. /\ used_fds' \subseteq used_fds /\ fh \notin used_fds'
      /\ \A i \in used_fds' : fd_array'[i].node = fd_array[i].node
    <2>1. CASE fh \in used_fds
        <3>1. used_fds' = {i \in used_fds : i > fh}
              /\ fd_array' = [fd_array EXCEPT ![fh] = ZeroSlot]
            BY <2>1 DEF fs_release, BitsKept
        <3>2. fh \in Int
            <4>1. fh \in Slot
                BY <1>2, <2>1
            <4> HIDE DEF fh
            <4> QED BY <4>1, NandFsConstants DEF Slot
        <3>3. used_fds' \subseteq used_fds /\ fh \notin used_fds'
            BY <3>1, <3>2
        <3>4. \A i \in used_fds' : i \in Slot /\ i # fh
            BY <1>2, <3>3
        <3> QED BY <1>2, <3>1, <3>3, <3>4 DEF SlotTable
    <2>2. CASE fh \notin used_fds
        BY <2>2 DEF fs_release
    <2> QED BY <2>1, <2>2
<1>5. SlotsOpen'
    <2> SUFFICES ASSUME NEW i \in used_fds'
                 PROVE  /\ files'[fd_array'[i].node].attr = 1
                        /\ \E g \in Handles : /\ handle'[g] # NoHandle
                              /\ handle'[g].fh = i /\ handle'[g].node = fd_array'[i].node
        BY DEF SlotsOpen
    <2>1. i \in used_fds /\ i # fh /\ fd_array'[i].node = fd_array[i].node
        BY <1>4
    <2>2. PICK g \in Handles : /\ handle[g] # NoHandle
                               /\ handle[g].fh = i /\ handle[g].node = fd_array[i].node
        BY <2>1 DEF SlotsOpen
    <2>3. handle'[g] = handle[g]
        BY <1>3, <2>1, <2>2
    <2>4. files[fd_array[i].node].attr = 1
        BY <2>1 DEF SlotsOpen
    <2> QED BY <1>1, <2>1, <2>2, <2>3, <2>4
<1> QED BY <1>1, <1>5, SameNodes

\* A read moves within its slot.
LEMMA ReadStep ==
    ASSUME TypeOK, SlotsOpen, NEW h \in Handles, NEW off, NEW len,
           fs_read(h, off, len)
    PROVE  SlotsOpen' /\ KeepsTree
<1>1. CASE GoWild
    BY <1>1, WildTree
<1>2. CASE UNCHANGED vars
    <2>1. UNCHANGED <<files, used_fds, fd_array, handle>>
        BY <1>2 DEF vars
    <2> QED BY <2>1, KeepSlots, SameNodes
<1>3. ASSUME NEW c, NEW k,
             fd_array' = [fd_array EXCEPT ![handle[h].fh].cur = c, ![handle[h].fh].index = k],
             UNCHANGED <<files, used_fds, handle>>
      PROVE  SlotsOpen' /\ KeepsTree
    <2>1. fd_array \in SlotTable /\ used_fds \subseteq Slot
        BY TypeParts
    <2>2. \A i \in Slot : fd_array'[i].node = fd_array[i].node
        BY <1>3, <2>1 DEF SlotTable, SlotRecord
    <2>3. SlotsOpen'
        BY <1>3, <2>1, <2>2, KeepSlots
    <2> QED BY <1>3, <2>3, SameNodes
<1> QED BY <1>1, <1>2, <1>3 DEF fs_read

\* A write changes the first cluster and the size of a node that is a file.
LEMMA WriteStep ==
    ASSUME TypeOK, SlotsOpen,
           NEW h \in Handles, NEW off, NEW len, NEW v, NEW eio, fs_write(h, off, len, v, eio)
    PROVE  SlotsOpen' /\ KeepsTree
<1> DEFINE fh == handle[h].fh
           fd == fd_array[fh]
           k  == fd.node
<1>1. fd_array \in SlotTable /\ used_fds \subseteq Slot /\ files \in NodeTable
    BY TypeParts
<1>2. fh \in used_fds
    BY DEF fs_write
<1>3. fh \in Slot /\ k \in Node /\ files[k].attr = 1
    <2>1. fd \in SlotRecord
        BY <1>1, <1>2 DEF SlotTable
    <2>2. k \in Node
        BY <2>1 DEF SlotRecord
    <2> QED BY <1>1, <1>2, <2>2 DEF SlotsOpen
<1>4. OpenNodes \subseteq Node
    BY TypeParts DEF OpenNodes, HandleTable
<1>5. CASE GoWild
    BY <1>5, WildTree
<1>6. ASSUME NEW r, NEW s, files' = [files EXCEPT ![k] = r],
             fd_array' = [fd_array EXCEPT ![fh] = s],
             r.attr = files[k].attr, r.name = files[k].name, r.sibling = files[k].sibling,
             s.node = k, UNCHANGED <<used_fds, handle>>
      PROVE  SlotsOpen' /\ KeepsTree
    <2> HIDE DEF k
    <2>1. files'[k] = r /\ \A m \in Node \ {k} : files'[m] = files[m]
        BY <1>1, <1>3, <1>6 DEF NodeTable
    <2>2. /\ KeepsTree
          /\ \A m \in OpenNodes : files[m].attr = 1 => files'[m].attr = 1
        <3>1. k \in Node /\ files[k].attr = 1
            BY <1>3
        <3>2. r.attr = files[k].attr /\ r.name = files[k].name /\ r.sibling = files[k].sibling
            BY <1>6
        <3>3. files[k].attr = 2 => r.first = files[k].first
            BY <3>1
        <3> QED BY <1>4, <2>1, <3>1, <3>2, <3>3, RecordStep
    <2>3. \A i \in used_fds : fd_array'[i].node = fd_array[i].node
        <3> SUFFICES ASSUME NEW i \in used_fds PROVE fd_array'[i].node = fd_array[i].node
            OBVIOUS
        <3>1. CASE i = fh
            <4>1. fd_array'[fh] = s
                BY <1>1, <1>3, <1>6 DEF SlotTable
            <4> QED BY <1>6, <3>1, <4>1 DEF k
        <3>2. CASE i # fh
            BY <1>1, <1>6, <3>2 DEF SlotTable
        <3> QED BY <3>1, <3>2
    <2>4. SlotsOpen'
        BY <1>6, <2>2, <2>3, KeepSlots
    <2> QED BY <2>2, <2>4
<1> DEFINE cur  == SeekCur(fd, off)
           big  == off + len > fd.size
           size == IF big THEN off + len ELSE fd.size
           fills == (off % U) + len = U
           index == SeekIndex(fd, off)
           first(a) == IF NeedsFirst(fd, cur) THEN a.c ELSE fd.first
           node(a) == [files[k] EXCEPT !.first = IF NeedsFirst(fd, cur) THEN a.c ELSE @]
           short(a) == /\ files' = [files EXCEPT ![k] = node(a)]
                       /\ fd_array' = [fd_array EXCEPT ![fh] =
                             [fd EXCEPT !.first = first(a), !.cur = a.c, !.index = index]]
                       /\ UNCHANGED <<used_fds, handle>>
           full(a, b) ==
              /\ fd_array' = [fd_array EXCEPT ![fh] =
                   [fd EXCEPT !.first = first(a), !.cur = b.c, !.size = size,
                              !.index = IF fills THEN index + 1 ELSE index]]
              /\ files' = [files EXCEPT ![k] = [node(a) EXCEPT !.size = IF big THEN size ELSE @]]
              /\ UNCHANGED <<used_fds, handle>>
<1>7. \/ GoWild
      \/ \E a \in FirstCluster(fd, cur) : short(a)
      \/ \E a \in FirstCluster(fd, cur) : \E b \in IF fills THEN NextCluster(a) ELSE {a} : full(a, b)
    BY ZenonT(40) DEF fs_write, cur, big, size, fills, index, first, node
<1>8. fd \in SlotRecord /\ files[k] \in NodeRecord
    BY <1>1, <1>3 DEF SlotTable, NodeTable
<1> HIDE DEF fd, k, cur, big, size, fills, index
<1>9. fd.node = k
    BY DEF k
<1>10. ASSUME NEW a, short(a) PROVE SlotsOpen' /\ KeepsTree
    <2> DEFINE s == [fd EXCEPT !.first = first(a), !.cur = a.c, !.index = index]
               r == node(a)
    <2>1. r.attr = files[k].attr /\ r.name = files[k].name /\ r.sibling = files[k].sibling
        BY <1>8 DEF NodeRecord
    <2>2. s.node = k
        BY <1>8, <1>9 DEF SlotRecord
    <2>3. files' = [files EXCEPT ![k] = r] /\ fd_array' = [fd_array EXCEPT ![fh] = s]
          /\ UNCHANGED <<used_fds, handle>>
        BY <1>10
    <2> HIDE DEF r, s, fh
    <2> QED BY <1>6, <2>1, <2>2, <2>3
<1>11. ASSUME NEW a, NEW b, full(a, b) PROVE SlotsOpen' /\ KeepsTree
    <2> DEFINE s == [fd EXCEPT !.first = first(a), !.cur = b.c, !.size = size,
                               !.index = IF fills THEN index + 1 ELSE index]
               q == node(a)
               z == IF big THEN size ELSE q.size
               r == [q EXCEPT !.size = z]
    <2>1. q.attr = files[k].attr /\ q.name = files[k].name /\ q.sibling = files[k].sibling
        BY <1>8 DEF NodeRecord
    <2>2. r.attr = files[k].attr /\ r.name = files[k].name /\ r.sibling = files[k].sibling
        <3> HIDE DEF z
        <3> QED BY <1>8 DEF NodeRecord
    <2>3. s.node = k
        BY <1>8, <1>9 DEF SlotRecord
    <2>4. files' = [files EXCEPT ![k] = r] /\ fd_array' = [fd_array EXCEPT ![fh] = s]
          /\ UNCHANGED <<used_fds, handle>>
        BY <1>11
    <2> HIDE DEF r, s, fh
    <2> QED BY <1>6, <2>2, <2>3, <2>4
<1> QED BY <1>5, <1>7, <1>10, <1>11

\* Every step keeps the tree and the open slots.
LEMMA StepTree ==
    ASSUME TypeOK, SlotsOpen, [Next]_vars
    PROVE  SlotsOpen' /\ KeepsTree
<1>1. ASSUME NEW path \in Paths, PathStep(path) PROVE SlotsOpen' /\ KeepsTree
    <2>1. CASE fs_mknod(path)
        BY <2>1, CreateStep DEF fs_mknod
    <2>2. CASE fs_mkdir(path)
        BY <2>2, CreateStep DEF fs_mkdir
    <2>3. CASE fs_unlink(path)
        BY <2>3, RemoveStep DEF fs_unlink
    <2>4. CASE fs_rmdir(path)
        BY <2>4, RemoveStep DEF fs_rmdir
    <2>5. ASSUME NEW newpath \in Paths, fs_rename(path, newpath)
          PROVE  SlotsOpen' /\ KeepsTree
        BY <2>5, RenameStep
    <2>6. ASSUME NEW uid \in Uids, fs_chown(path, uid) PROVE SlotsOpen' /\ KeepsTree
        BY <2>6, ChownStep
    <2>7. ASSUME NEW size \in 0 .. MaxSize, fs_truncate(path, size)
          PROVE  SlotsOpen' /\ KeepsTree
        BY <2>7, TruncateStep
    <2> QED BY <1>1, <2>1, <2>2, <2>3, <2>4, <2>5, <2>6, <2>7 DEF PathStep
<1>2. ASSUME NEW h \in Handles, HandleStep(h) PROVE SlotsOpen' /\ KeepsTree
    <2>1. ASSUME NEW path \in Paths, fs_open(h, path) PROVE SlotsOpen' /\ KeepsTree
        BY <2>1, OpenStep
    <2>2. CASE fs_release(h)
        BY <2>2, ReleaseStep
    <2>3. ASSUME NEW off, NEW len, fs_read(h, off, len) PROVE SlotsOpen' /\ KeepsTree
        BY <2>3, ReadStep
    <2>4. ASSUME NEW off, NEW len, NEW v, NEW eio, fs_write(h, off, len, v, eio)
          PROVE  SlotsOpen' /\ KeepsTree
        BY <2>4, WriteStep
    <2> QED BY <1>2, <2>1, <2>2, <2>3, <2>4 DEF HandleStep
<1>3. CASE UNCHANGED vars
    <2>1. UNCHANGED <<files, used_fds, fd_array, handle>>
        BY <1>3 DEF vars
    <2> QED BY <2>1, KeepSlots, SameNodes
<1> QED BY <1>1, <1>2, <1>3 DEF Next

\* Whatever the clients do, and however many handles share a slot or outlive it, a slot
\* in use belongs to a file in use that some handle holds: what nandfs_write does to the
\* node of a slot never reaches a removed file or a directory.
THEOREM SlotsNameFiles == Spec => []SlotsOpen
<1>1. Init => TypeOK /\ SlotsOpen
    BY InitTypes DEF Init, SlotsOpen
<1>2. TypeOK /\ SlotsOpen /\ [Next]_vars => (TypeOK /\ SlotsOpen)'
    BY StepTypes, StepTree
<1> QED BY <1>1, <1>2, PTL DEF Spec

\* Whatever the order of creations, removals and renames of clients that remove only
\* empty directories and rename only to free names, and with any number of files open:
\* every node in use is a child of exactly one directory, and no directory lists two
\* objects of a type under one name.  The lists found on the NAND make up a tree.
THEOREM TreeStays ==
    ASSUME Polite, TreeAt(InitFiles)
    PROVE  Spec => []TreeOK
<1> DEFINE Inv == TypeOK /\ SlotsOpen /\ TreeAt(files)
<1>1. Init => Inv
    BY InitTypes DEF Init, SlotsOpen
<1>2. Inv /\ [Next]_vars => Inv'
    BY StepTypes, StepTree DEF KeepsTree
<1>3. Inv => TreeOK
    BY TreeAtOK
<1> QED BY <1>1, <1>2, <1>3, PTL DEF Spec

-----------------------------------------------------------------------------
(* The bounds of the tables *)

\* A node and a cluster are left, and no allocation overwrote the name of files[0].
HasSpace == rootok /\ ~(EmptyNode \subseteq {NN - 1}) /\ LowestFree(fat) # {}

\* The step stays within the tables unless the space has run out.
Bounded == wild' = wild \/ (GoWild /\ ~HasSpace)

\* The chain of a file has an end: no cluster of it is linked twice, and its first
\* one from nowhere.
LEMMA ChainEnds ==
    ASSUME fat \in Table, FatOK, Room(fat), NEW n \in Node, files[n].attr = 1,
           files[n].first \in Cluster
    PROVE  \E c \in Chain(files[n].first) : fat[c] = EOC
<1> DEFINE first == files[n].first
           T == Chain(first)
           S == {c \in Cluster : fat[c] \notin {FREE, RESV}}
<1> SUFFICES ASSUME \A c \in T : fat[c] # EOC PROVE FALSE
    OBVIOUS
<1>1. T \subseteq Cluster /\ first \in T
    BY ChainInCluster, ChainHead
<1>2. first \in S /\ S \in SUBSET Cluster
    BY DEF FatOK, FirstsOK, InUse
<1>3. \A t \in S : fat[t] \in Cluster => fat[t] \in S
    BY DEF FatOK, LinksOK, InUse
<1>4. T \subseteq S
    <2> HIDE DEF S
    <2> QED BY <1>2, <1>3, ChainMinimal
<1>5. \A c \in T : fat[c] \in Cluster
    <2> SUFFICES ASSUME NEW c \in T PROVE fat[c] \in Cluster
        OBVIOUS
    <2>1. fat[c] \in FatValue
        BY <1>1 DEF Table
    <2>2. fat[c] \notin {FREE, RESV, EOC}
        BY <1>4
    <2>3. fat[c] \notin {NC, ENOSPC}
        BY <1>1 DEF Room
    <2>4. fat[c] \in 0 .. NC /\ fat[c] # NC
        BY <2>1, <2>2, <2>3 DEF FatValue
    <2>5. NC \in Nat
        BY NandFsConstants
    <2> QED BY <2>4, <2>5 DEF Cluster
<1>6. \A c \in T : fat[c] \in T \ {first}
    BY <1>1, <1>5, ChainClosed DEF FatOK, FirstsOK
<1>7. \A c, d \in T : fat[c] = fat[d] => c = d
    BY <1>1, <1>5 DEF FatOK, LinksOK
<1> DEFINE f == [c \in T |-> fat[c]]
<1>8. f \in [T -> T \ {first}] /\ \A c, d \in T : f[c] = f[d] => c = d
    BY <1>6, <1>7
<1>9. IsFiniteSet(T)
    <2>1. IsFiniteSet(Cluster)
        BY FS_Interval, NandFsConstants DEF Cluster
    <2> QED BY <1>1, <2>1, FS_Subset
<1> HIDE DEF f, T, first
<1>10. IsFiniteSet(T \ {first}) /\ Cardinality(T \ {first}) = Cardinality(T) - 1
    BY <1>1, <1>9, FS_RemoveElement
<1>11. Cardinality(T \ {first}) < Cardinality(T)
    <2>1. Cardinality(T) \in Nat
        BY <1>9, FS_CardinalityType
    <2> QED BY <1>10, <2>1
<1>12. \E x, y \in T : x # y /\ f[x] = f[y]
    <2> DEFINE R == T \ {first}
    <2>1. f \in [T -> R] /\ IsFiniteSet(T) /\ IsFiniteSet(R) /\ Cardinality(R) < Cardinality(T)
        BY <1>8, <1>9, <1>10, <1>11
    <2> HIDE DEF R
    <2> QED BY ONLY <2>1, FS_PigeonHole
<1> QED BY <1>8, <1>12

\* What the invariant says of the files, as long as the root can be read.
LEMMA SoundFiles ==
    ASSUME ReadInv, rootok
    PROVE  /\ fat \in Table /\ files \in NodeTable /\ Room(fat)
           /\ \A n \in Node : files[n].attr = 1 =>
                 Whole(fat, files[n]) /\ files[n].size \in Nat
<1>1. fat \in Table /\ files \in NodeTable
    BY TypeParts DEF ReadInv
<1> QED BY <1>1, FileSize DEF ReadInv, Intact, Stored

\* fs_create goes wrong for want of a node only.
LEMMA CreateBounded ==
    ASSUME NEW path, NEW type, nandfs_create(path, type) PROVE Bounded
<1>1. CASE EmptyNode \subseteq {NN - 1}
    BY <1>1 DEF nandfs_create, Bounded, HasSpace
<1>2. CASE ~(EmptyNode \subseteq {NN - 1})
    BY <1>2 DEF nandfs_create, Bounded
<1> QED BY <1>1, <1>2

\* nandfs_unlink gets to the end of the chain.
LEMMA UnlinkBounded ==
    ASSUME ReadInv, NEW path, NEW type, NEW n, nandfs_unlink(path, type, n) PROVE Bounded
<1>1. CASE rootok
    <2>1. n \in Node /\ files[n].attr = type
        BY OpenFinds DEF nandfs_unlink
    <2>2. type = 1 => WalkEnds(files[n].first, {EOC, Nil})
        <3> SUFFICES ASSUME type = 1 PROVE WalkEnds(files[n].first, {EOC, Nil})
            OBVIOUS
        <3>1. Whole(fat, files[n]) /\ files[n].size \in Nat /\ fat \in Table /\ Room(fat)
            BY <1>1, <2>1, SoundFiles
        <3>2. CASE files[n].first = Nil
            BY <3>2 DEF WalkEnds
        <3>3. CASE files[n].first # Nil
            <4>1. 0 \in 0 .. files[n].size \div U
                <5>1. U \in Nat /\ U > 0
                    BY NandFsConstants
                <5>2. files[n].size \div U \in Nat
                    BY <3>1, <5>1
                <5> QED BY <5>2
            <4>2. HopIn(fat, files[n].first, 0) = files[n].first
                BY HopInLinks
            <4>3. files[n].first \in Cluster
                BY <3>1, <3>3, <4>1, <4>2 DEF Whole
            <4>4. \E c \in Chain(files[n].first) : fat[c] = EOC
                BY <2>1, <3>1, <4>3, ChainEnds DEF ReadInv
            <4> QED BY <4>4 DEF WalkEnds
        <3> QED BY <3>2, <3>3
    <2> QED BY <2>2 DEF nandfs_unlink, Bounded
<1>2. CASE ~rootok
    <2>1. nandfs_open(files, path, type) = {}
        BY <1>2 DEF nandfs_open
    <2> QED BY <2>1 DEF nandfs_unlink
<1> QED BY <1>1, <1>2

\* A client that keeps to TruncateAllowed changes the size only.
LEMMA TruncateBounded ==
    ASSUME Polite, NEW path, NEW size, fs_truncate(path, size) PROVE Bounded
<1>1. PICK n \in nandfs_open(files, path, 1) :
        /\ TruncateAllowed(n, size)
        /\ LET sizeonly == \/ ClustersFor(files[n].size) = ClustersFor(size) /\ size # 0
                           \/ files[n].first = Nil
           IN  sizeonly => UNCHANGED wild
    BY DEF fs_truncate
<1> QED BY <1>1 DEF TruncateAllowed, Bounded

\* The open file, its slot and its place in the NAND.
LEMMA OpenSlot ==
    ASSUME ReadInv, NEW h \in Handles, handle[h].fh \in used_fds
    PROVE  LET fd == fd_array[handle[h].fh]
               n  == handle[h].node
           IN  /\ n \in Node /\ files[n].attr = 1 /\ fd.node = n
               /\ fd.first = files[n].first /\ fd.size = files[n].size
<1>1. TypeOK /\ Sync /\ Sizes
    BY DEF ReadInv
<1>2. handle[h].fh \in Slot /\ handle[h] # NoHandle
    <2>1. used_fds \subseteq Slot
        BY <1>1, TypeParts
    <2> QED BY <1>1, <2>1, OpenFile
<1>3. handle[h].node \in Node
    BY <1>1, OpenFile
<1> QED BY <1>1, <1>2, <1>3 DEF Sync, Sizes

\* The clusters up to the end of a file are there.
LEMMA HopInFile ==
    ASSUME ReadInv, rootok, NEW n \in Node, files[n].attr = 1,
           NEW k \in Nat, k \in 0 .. files[n].size \div U
    PROVE  /\ Hop(files[n].first, k) # Lost
           /\ files[n].size # 0 => Hop(files[n].first, k) \in Cluster
<1>1. Whole(fat, files[n]) /\ files[n].size \in Nat
    BY SoundFiles
<1>2. Hop(files[n].first, k) = HopIn(fat, files[n].first, k)
    BY HopIs
<1>3. Lost \notin Cluster /\ Lost # Nil
    BY NandFsConstants DEF Lost, Nil, Cluster
<1>4. CASE \A i \in 0 .. files[n].size \div U : HopIn(fat, files[n].first, i) \in Cluster
    BY <1>2, <1>3, <1>4
<1>5. CASE files[n].first = Nil /\ files[n].size = 0
    <2>1. 0 \div U = 0
        <3>1. U \in Nat /\ U > 0
            BY NandFsConstants
        <3> QED BY <3>1
    <2>2. k = 0
        BY <1>5, <2>1
    <2>3. HopIn(fat, files[n].first, 0) = files[n].first
        BY HopInLinks
    <2> QED BY <1>2, <1>3, <1>5, <2>2, <2>3
<1> QED BY <1>1, <1>4, <1>5 DEF Whole

\* A read stays within the file.
LEMMA ReadBounded ==
    ASSUME ReadInv, NEW h \in Handles, NEW off \in Nat, NEW len \in Nat, fs_read(h, off, len)
    PROVE  Bounded
<1> DEFINE fd == fd_array[handle[h].fh]
           n  == handle[h].node
           stop == IF off + len > fd.size THEN fd.size ELSE off + len
<1>1. handle[h].fh \in used_fds /\ off < files[n].size
    BY DEF fs_read
<1>2. /\ n \in Node /\ files[n].attr = 1
      /\ fd.first = files[n].first /\ fd.size = files[n].size
    BY <1>1, OpenSlot
<1>3. files[n].size \in Nat
    BY <1>2, TypeParts, FileSize DEF ReadInv
<1>4. \/ wild' = wild
      \/ /\ GoWild
         /\ off > fd.size \/ \E k \in off \div U .. stop \div U : Hop(fd.first, k) = Lost
    BY DEF fs_read, vars
<1>5. ~(off > fd.size) /\ stop \in Nat /\ stop <= files[n].size
    BY <1>1, <1>2, <1>3
<1>6. ASSUME rootok, NEW k \in off \div U .. stop \div U PROVE Hop(fd.first, k) # Lost
    <2>1. 0 .. stop \div U \subseteq 0 .. files[n].size \div U
        BY <1>3, <1>5, BlocksMonotone
    <2>2. off \div U \in Nat
        <3>1. U \in Nat /\ U > 0
            BY NandFsConstants
        <3> QED BY <3>1
    <2>3. k \in Nat /\ k \in 0 .. stop \div U
        <3> DEFINE x == off \div U
                   y == stop \div U
        <3>1. k \in x .. y /\ x \in Nat
            BY <2>2
        <3> HIDE DEF x, y
        <3>2. k \in Nat /\ k \in 0 .. y
            BY <3>1
        <3> QED BY <3>2 DEF y
    <2> HIDE DEF fd, n, stop
    <2> QED BY <1>2, <1>6, <2>1, <2>3, HopInFile
<1> QED BY <1>4, <1>5, <1>6 DEF Bounded, HasSpace

\* A write finds its cluster, or gets one if one is left.
LEMMA WriteBounded ==
    ASSUME Polite, ReadInv, NEW h \in Handles, NEW r \in Requests, NEW v, NEW eio,
           fs_write(h, r.off, r.len, v, eio)
    PROVE  Bounded
<1> DEFINE fd  == fd_array[handle[h].fh]
           n   == handle[h].node
           off == r.off
           cur == SeekCur(fd, off)
<1>1. handle[h].fh \in used_fds /\ off <= files[n].size
    BY DEF fs_write
<1>2. /\ n \in Node /\ files[n].attr = 1
      /\ fd.first = files[n].first /\ fd.size = files[n].size
    BY <1>1, OpenSlot
<1>3. files[n].size \in Nat
    BY <1>2, TypeParts, FileSize DEF ReadInv
<1>4. off \in Nat
    BY NandFsConstants DEF Requests
<1>5. \/ wild' = wild
      \/ GoWild /\ cur = Lost
      \/ GoWild /\ \E a \in FirstCluster(fd, cur) : a.c \notin Cluster
    BY DEF fs_write
<1>6. cur = Hop(fd.first, off \div U)
    BY <1>1, <1>2, <1>3, <1>4 DEF SeekCur
<1>7. off \div U \in Nat /\ off \div U \in 0 .. files[n].size \div U
    <2>1. 0 .. off \div U \subseteq 0 .. files[n].size \div U
        BY <1>1, <1>3, <1>4, BlocksMonotone
    <2>2. off \div U \in Nat
        <3>1. U \in Nat /\ U > 0
            BY NandFsConstants
        <3> QED BY <1>4, <3>1
    <2> QED BY <2>1, <2>2
<1> HIDE DEF fd, n, off, cur
<1>8. ASSUME HasSpace PROVE cur # Lost
    BY <1>2, <1>6, <1>7, <1>8, HopInFile DEF HasSpace
<1>9. ASSUME HasSpace, NEW a \in FirstCluster(fd, cur) PROVE a.c \in Cluster
    <2>1. rootok /\ LowestFree(fat) # {}
        BY <1>9 DEF HasSpace
    <2>2. fat \in Table /\ Room(fat)
        BY <2>1, SoundFiles
    <2>3. CASE NeedsFirst(fd, cur)
        <3>1. a \in nandfs_allocatecluster(fat)
            BY <1>9, <2>3 DEF FirstCluster
        <3>2. ~a.full
            BY <2>1, <3>1 DEF nandfs_allocatecluster
        <3> QED BY <2>2, <3>1, <3>2, AllocateRoom
    <2>4. CASE ~NeedsFirst(fd, cur)
        <3>1. a.c = cur
            BY <2>4 DEF FirstCluster
        <3>2. Whole(fat, files[n])
            BY <1>2, <2>1, SoundFiles
        <3>3. cur = HopIn(fat, files[n].first, off \div U)
            BY <1>2, <1>6, HopIs
        <3>4. CASE files[n].first = Nil /\ files[n].size = 0
            <4>1. 0 \div U = 0
                <5>1. U \in Nat /\ U > 0
                    BY NandFsConstants
                <5> QED BY <5>1
            <4>2. off \div U = 0
                BY <1>7, <3>4, <4>1
            <4>3. cur = Nil
                BY <3>3, <3>4, <4>2, HopInLinks
            <4> QED BY <1>2, <2>4, <3>4, <4>3 DEF NeedsFirst
        <3>5. CASE \A k \in 0 .. files[n].size \div U : HopIn(fat, files[n].first, k) \in Cluster
            BY <1>7, <3>1, <3>3, <3>5
        <3> QED BY <3>2, <3>4, <3>5 DEF Whole
    <2> QED BY <2>3, <2>4
<1> QED BY <1>5, <1>8, <1>9 DEF Bounded

\* Every step stays within the tables unless the space has run out.
LEMMA StepBounded ==
    ASSUME Polite, ReadInv, [Next]_vars
    PROVE  Bounded
<1>1. ASSUME NEW path \in Paths, PathStep(path) PROVE Bounded
    <2>1. CASE fs_mknod(path)
        BY <2>1, CreateBounded DEF fs_mknod
    <2>2. CASE fs_mkdir(path)
        BY <2>2, CreateBounded DEF fs_mkdir
    <2>3. CASE fs_unlink(path)
        BY <2>3, UnlinkBounded DEF fs_unlink
    <2>4. CASE fs_rmdir(path)
        BY <2>4, UnlinkBounded DEF fs_rmdir
    <2>5. ASSUME NEW size \in 0 .. MaxSize, fs_truncate(path, size) PROVE Bounded
        BY <2>5, TruncateBounded
    <2>6. ASSUME NEW newpath, fs_rename(path, newpath) PROVE Bounded
        BY <2>6 DEF fs_rename, Bounded
    <2>7. ASSUME NEW uid, fs_chown(path, uid) PROVE Bounded
        BY <2>7 DEF fs_chown, Bounded
    <2> QED BY <1>1, <2>1, <2>2, <2>3, <2>4, <2>5, <2>6, <2>7 DEF PathStep
<1>2. ASSUME NEW h \in Handles, HandleStep(h) PROVE Bounded
    <2>1. ASSUME NEW path \in Paths, fs_open(h, path) PROVE Bounded
        BY <2>1 DEF fs_open, Bounded
    <2>2. CASE fs_release(h)
        BY <2>2 DEF fs_release, Bounded
    <2>3. ASSUME NEW off \in 0 .. MaxSize - 1, NEW len \in 1 .. MaxSize, fs_read(h, off, len)
          PROVE  Bounded
        <3>1. off \in Nat /\ len \in Nat
            BY NandFsConstants
        <3> QED BY <2>3, <3>1, ReadBounded
    <2>4. ASSUME NEW r \in Requests, NEW v, NEW eio, fs_write(h, r.off, r.len, v, eio)
          PROVE  Bounded
        BY <2>4, WriteBounded
    <2> QED BY <1>2, <2>1, <2>2, <2>3, <2>4 DEF HandleStep
<1>3. CASE UNCHANGED vars
    BY <1>3 DEF vars, Bounded
<1> QED BY <1>1, <1>2, <1>3 DEF Next

\* Nothing happens any more once a table has been left.
LEMMA WildStays == ASSUME wild, [Next]_vars PROVE UNCHANGED <<files, fat, rootok, wild>>
BY DEF Next, vars

\* With files open one at a time, without holes and truncation across clusters, the code
\* leaves its tables only where it looks for a node or a cluster and none is left:
\* nandfs_unlink always gets to the end of a chain, and no read or write walks past it.
THEOREM BoundsHold ==
    ASSUME Alone, Polite, InitConsistent, InitWhole
    PROVE  Spec => [](HasSpace => InBounds)
<1> DEFINE Inv == ReadInv /\ (HasSpace => ~wild)
<1>1. Init => Inv
    BY InitIntact DEF Init
<1>2. Inv /\ [Next]_vars => Inv'
    <2> SUFFICES ASSUME ReadInv, HasSpace => ~wild, [Next]_vars
                 PROVE  ReadInv' /\ (HasSpace => ~wild)'
        OBVIOUS
    <2>1. ReadInv'
        BY StepReadInv
    <2>2. (HasSpace => ~wild)'
        <3>1. Bounded
            BY StepBounded
        <3>2. CASE wild
            <4>1. UNCHANGED <<files, fat, rootok, wild>>
                BY <3>2, WildStays
            <4>2. HasSpace' <=> HasSpace
                BY <4>1 DEF HasSpace, EmptyNode
            <4> QED BY <4>1, <4>2
        <3>3. CASE ~wild /\ wild' = wild
            BY <3>3
        <3>4. CASE GoWild /\ ~HasSpace
            <4>1. UNCHANGED <<files, fat, rootok>>
                BY <3>4 DEF GoWild
            <4>2. HasSpace' <=> HasSpace
                BY <4>1 DEF HasSpace, EmptyNode
            <4> QED BY <3>4, <4>2
        <3> QED BY <3>1, <3>2, <3>3, <3>4 DEF Bounded
    <2> QED BY <2>1, <2>2
<1>3. Inv => (HasSpace => InBounds)
    BY DEF InBounds
<1> QED BY <1>1, <1>2, <1>3, PTL DEF Spec
=============================================================================
