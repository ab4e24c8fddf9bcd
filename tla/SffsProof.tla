------------------------------ MODULE SffsProof ------------------------------
(***************************************************************************)
(* Proofs about the metadata store, for any number of superclusters and    *)
(* pages, any version width and any set of command lines.                  *)
(***************************************************************************)
EXTENDS Sffs, TLAPS

\* The scan of sffs_init settles on a supercluster.
LEMMA SelectedType ==
    ASSUME TypeOK, NEW o \in Options PROVE Selected(o) \subseteq SC
BY DEF Selected, Newest, Formatted

\* The lowest version the scan finds is a version.
LEMMA LowVerType ==
    ASSUME TypeOK PROVE LowVer \subseteq Ver
BY SffsConstants DEF TypeOK, LowVer, Formatted

\* update_sffs moves on to another supercluster of the NAND.
LEMMA NextScType ==
    ASSUME NEW sc \in SC PROVE Next_sc(sc) \in SC /\ Next_sc(sc) # sc
BY SffsConstants DEF Next_sc, SC

\* What sffs_init loads is an image.
LEMMA ImageAtType ==
    ASSUME TypeOK, NEW sc \in SC PROVE ImageAt(sc) \in Image
BY DEF TypeOK, ImageAt, Image

\* What update_sffs leaves behind before its first page write, by types.
LEMMA UpdateType ==
    ASSUME TypeOK,
           NEW img \in Image, NEW sc \in SC, NEW rr \in {-1, -2}, NEW did \in BOOLEAN,
           update_sffs(img, sc, rr, did)
    PROVE  /\ mem' = img /\ mem' \in Image
           /\ supercluster' \in SC /\ round_robin' \in {-1, -2}
           /\ didupdate' \in BOOLEAN /\ wpos' = 0 /\ wpos' \in 0 .. Idle
           /\ hashed' = hashed \cup {img} /\ hashed' \subseteq Image
           /\ done' \in [kind : {"none", "update", "demote"}, sc : SC, ver : Ver]
           /\ done'.kind = "none"
<1>1. mem' = img
    BY DEF update_sffs, Image
<1>2. supercluster' \in SC
    BY NextScType DEF update_sffs
<1>3. wpos' = 0 /\ wpos' \in 0 .. Idle
    BY SffsConstants DEF update_sffs, Idle
<1>4. hashed' = hashed \cup {img} /\ hashed' \subseteq Image
    BY <1>1 DEF update_sffs, TypeOK
<1>5. /\ done' \in [kind : {"none", "update", "demote"}, sc : SC, ver : Ver]
      /\ done'.kind = "none"
    BY SffsConstants DEF update_sffs, NothingDone, SC, Ver
<1>6. round_robin' \in {-1, -2} /\ didupdate' \in BOOLEAN
    BY DEF update_sffs
<1> QED BY <1>1, <1>2, <1>3, <1>4, <1>5, <1>6

\* A page write leaves a well-formed supercluster.
LEMMA WrittenType ==
    ASSUME TypeOK, wpos < Idle
    PROVE  Written(disk[supercluster]) \in
               [magic : BOOLEAN, ver : Ver, page : [Page -> Gen], mac : SUBSET Mac]
<1> DEFINE d == disk[supercluster]
<1>1. d \in [magic : BOOLEAN, ver : Ver, page : [Page -> Gen], mac : SUBSET Mac]
    BY DEF TypeOK
<1>2. mem.ver \in Ver /\ mem.page \in [Page -> Gen] /\ [img |-> mem, sc |-> supercluster] \in Mac
    BY DEF TypeOK, Image, Mac
<1>3. CASE wpos = MacPos
    BY <1>1, <1>2, <1>3 DEF Written
<1>4. CASE wpos # MacPos /\ wpos = 0
    <2> DEFINE pg == [d.page EXCEPT ![0] = mem.page[0]]
    <2>1. Written(d) = [d EXCEPT !.magic = TRUE, !.ver = mem.ver, !.page = pg]
        BY <1>4 DEF Written
    <2>2. 0 \in Page
        BY SffsConstants DEF Page
    <2>3. pg \in [Page -> Gen]
        BY <1>1, <1>2, <2>2
    <2> HIDE DEF pg
    <2> QED BY <1>1, <1>2, <2>1, <2>3
<1>5. CASE wpos # MacPos /\ wpos # 0
    <2> DEFINE p == IF wpos > MacPos THEN wpos - 1 ELSE wpos
    <2>1. Written(d) = [d EXCEPT !.page[p] = mem.page[p]]
        BY <1>5 DEF Written
    <2>2. p \in Page
        BY <1>5, SffsConstants DEF TypeOK, Page, MacPos, Idle
    <2> QED BY <1>1, <1>2, <2>1, <2>2
<1> QED BY <1>3, <1>4, <1>5

\* The globals of a process that is gone keep their types.
LEMMA ExitType ==
    ASSUME TypeOK, Exit
    PROVE  /\ proc' \in {"off", "mounted", "demoting"} /\ mem' \in Image
           /\ supercluster' \in SC /\ round_robin' \in {-1, -2}
           /\ didupdate' \in BOOLEAN /\ write_enable' \in BOOLEAN
<1>1. 0 \in Ver /\ 0 \in Gen /\ 0 \in SC
    BY SffsConstants DEF Ver, Gen, SC
<1>2. NoImage \in Image
    BY <1>1 DEF NoImage, Image
<1> QED BY <1>1, <1>2 DEF Exit

\* A NAND before the first run is well formed.
LEMMA InitType == Init => TypeOK
<1> SUFFICES ASSUME Init PROVE TypeOK
    OBVIOUS
<1>1. PICK ver \in [SC -> InitVers \cup {-1}] :
         disk = [sc \in SC |-> IF ver[sc] = -1 THEN Blank ELSE FormattedWith(sc, ver[sc])]
    BY DEF Init
<1> DEFINE D == [magic : BOOLEAN, ver : Ver, page : [Page -> Gen], mac : SUBSET Mac]
<1>2. Blank \in D
    BY SffsConstants DEF Blank, Ver, Gen
<1>3. ASSUME NEW sc \in SC, NEW v \in InitVers PROVE FormattedWith(sc, v) \in D
    <2>1. v \in Ver /\ sc \in Gen
        BY SffsConstants DEF SC, Gen
    <2>2. [ver |-> v, page |-> [p \in Page |-> sc]] \in Image
        BY <2>1 DEF Image
    <2> QED BY <2>1, <2>2 DEF FormattedWith, Mac
<1>4. disk \in [SC -> D]
    <2>1. ASSUME NEW sc \in SC
          PROVE (IF ver[sc] = -1 THEN Blank ELSE FormattedWith(sc, ver[sc])) \in D
        BY <1>2, <1>3
    <2> QED BY <1>1, <2>1
<1>5. ASSUME NEW sc \in SC PROVE ImageAt(sc) \in Image
    BY <1>4 DEF ImageAt, Image
<1>6. hashed \subseteq Image
    BY <1>5 DEF Init, Formatted
<1>7. /\ mem \in Image /\ supercluster \in SC /\ gen \in Gen /\ wpos \in 0 .. Idle
      /\ done \in [kind : {"none", "update", "demote"}, sc : SC, ver : Ver]
    BY SffsConstants DEF Init, NoImage, NothingDone, Image, SC, Ver, Gen, Idle
<1> QED BY <1>4, <1>6, <1>7 DEF Init, TypeOK

\* Every step keeps the types.
LEMMA StepType == TypeOK /\ [Next]_vars => TypeOK'
<1> SUFFICES ASSUME TypeOK, [Next]_vars PROVE TypeOK'
    OBVIOUS
<1>1. ASSUME NEW o \in Options, Mount(o) PROVE TypeOK'
    <2>1. PICK sc \in SC : mem' = ImageAt(sc) /\ supercluster' = sc
        BY <1>1, SelectedType DEF Mount
    <2>2. round_robin' \in {-1, -2}
        BY <1>1, SffsConstants DEF Mount, OptionRecords, RoundRobinArgs
    <2>3. /\ mem' \in Image /\ supercluster' \in SC
        BY <2>1, ImageAtType
    <2>4. write_enable' \in BOOLEAN
        BY <1>1 DEF Mount, WriteEnable
    <2>5. done' \in [kind : {"none", "update", "demote"}, sc : SC, ver : Ver]
        BY <1>1, SffsConstants DEF Mount, NothingDone, SC, Ver
    <2> QED BY <1>1, <2>2, <2>3, <2>4, <2>5 DEF Mount, TypeOK
<1>2. ASSUME NEW o \in Options, Demote(o) PROVE TypeOK'
    <2>1. PICK sc \in SC, lowver \in Ver :
             update_sffs([ImageAt(sc) EXCEPT !.ver = (lowver - 1) % VerMod], sc, -2, TRUE)
        BY <1>2, SelectedType, LowVerType DEF Demote
    <2>2. (lowver - 1) % VerMod \in Ver
        BY SffsConstants DEF Ver
    <2>3. [ImageAt(sc) EXCEPT !.ver = (lowver - 1) % VerMod] \in Image
        BY <2>2, ImageAtType DEF Image
    <2>4. gen' \in Gen
        BY <1>2, SffsConstants DEF Demote, TypeOK, Gen
    <2> QED BY <1>2, <2>1, <2>3, <2>4, UpdateType DEF Demote, TypeOK
<1>3. ASSUME NEW ps \in (SUBSET Page) \ {{}}, ChangeMetadata(ps) PROVE TypeOK'
    <2> DEFINE img == [mem EXCEPT !.page = [p \in Page |-> IF p \in ps THEN gen + 1 ELSE @[p]]]
    <2>1. gen' \in Gen /\ gen' = gen + 1
        BY <1>3, SffsConstants DEF ChangeMetadata, TypeOK, Gen
    <2>2. img \in Image
        BY <2>1 DEF TypeOK, Image
    <2>3. CASE write_enable
        <3>1. update_sffs(img, supercluster, round_robin, didupdate)
            BY <1>3, <2>3 DEF ChangeMetadata
        <3> HIDE DEF img
        <3> QED BY <1>3, <2>1, <2>2, <3>1, UpdateType DEF ChangeMetadata, TypeOK
    <2>4. CASE ~write_enable
        <3>1. mem' = img
              /\ UNCHANGED <<supercluster, round_robin, didupdate, wpos, hashed, done>>
            BY <1>3, <2>4 DEF ChangeMetadata
        <3> HIDE DEF img
        <3> QED BY <1>3, <2>1, <2>2, <3>1 DEF ChangeMetadata, TypeOK
    <2> QED BY <2>3, <2>4
<1>4. CASE WritePage
    <2>1. wpos < Idle /\ wpos' \in 0 .. Idle
        BY <1>4, SffsConstants DEF WritePage, TypeOK, Idle
    <2> QED BY <1>4, <2>1, WrittenType DEF WritePage, TypeOK
<1>5. CASE WriteLastPage
    <2>1. wpos < Idle /\ wpos' \in 0 .. Idle
        BY <1>5, SffsConstants DEF WriteLastPage, TypeOK, Idle
    <2>2. disk' \in [SC -> [magic : BOOLEAN, ver : Ver, page : [Page -> Gen], mac : SUBSET Mac]]
        BY <1>5, <2>1, WrittenType DEF WriteLastPage, TypeOK
    <2>3. done' \in [kind : {"none", "update", "demote"}, sc : SC, ver : Ver]
        BY <1>5 DEF WriteLastPage, TypeOK, Image
    <2>4. CASE proc = "demoting"
        BY <1>5, <2>1, <2>2, <2>3, <2>4, ExitType DEF WriteLastPage, TypeOK
    <2>5. CASE proc # "demoting"
        BY <1>5, <2>1, <2>2, <2>3, <2>5 DEF WriteLastPage, TypeOK
    <2> QED BY <2>4, <2>5
<1>6. CASE Unmount
    BY <1>6, ExitType DEF Unmount, TypeOK
<1>7. CASE Crash
    <2>1. wpos' \in 0 .. Idle
        BY <1>7, SffsConstants DEF Crash, Idle
    <2> QED BY <1>7, <2>1, ExitType DEF Crash, TypeOK
<1>8. CASE UNCHANGED vars
    BY <1>8 DEF vars, TypeOK
<1> QED BY <1>1, <1>2, <1>3, <1>4, <1>5, <1>6, <1>7, <1>8 DEF Next

\* Every variable keeps its type (TypeOK), whatever the command lines.
THEOREM TypeCorrect == Spec => []TypeOK
BY InitType, StepType, PTL DEF Spec
-----------------------------------------------------------------------------
(* update_sffs puts the metadata in memory on the NAND *)

\* The place of a page among the writes of an update.
PosOf(p) == IF p < MacPos THEN p ELSE p + 1

\* The first n writes of the running update are on the NAND.
WrittenUpTo(d, n) ==
    /\ \A p \in Page : PosOf(p) < n => d.page[p] = mem.page[p]
    /\ n > 0 => d.magic /\ d.ver = mem.ver
    /\ n > MacPos => d.mac = {[img |-> mem, sc |-> supercluster]}

UpdateInv ==
    /\ wpos < Idle => /\ WrittenUpTo(disk[supercluster], wpos)
                      /\ proc # "off" /\ done.kind = "none" /\ write_enable
    /\ UpdateOnMedia
    /\ proc = "mounted" /\ done.kind = "update" => write_enable

\* A page write adds its page to those an update has written and keeps the
\* others.
LEMMA WriteExtends ==
    ASSUME TypeOK, wpos < Idle, WrittenUpTo(disk[supercluster], wpos)
    PROVE  WrittenUpTo(Written(disk[supercluster]), wpos + 1)
<1> DEFINE d == disk[supercluster]
<1>1. d \in [magic : BOOLEAN, ver : Ver, page : [Page -> Gen], mac : SUBSET Mac]
      /\ wpos \in Nat /\ MacPos \in Nat /\ MacPos > 0
    BY SffsConstants DEF TypeOK, MacPos, Idle
<1>2. CASE wpos = MacPos
    <2>1. Written(d) = [d EXCEPT !.mac = {[img |-> mem, sc |-> supercluster]}]
        BY <1>1, <1>2 DEF Written
    <2>2. \A p \in Page : PosOf(p) < wpos + 1 => PosOf(p) < wpos
        BY <1>1, <1>2, SffsConstants DEF PosOf, Page
    <2> QED BY <1>1, <1>2, <2>1, <2>2 DEF WrittenUpTo
<1>3. CASE wpos # MacPos /\ wpos = 0
    <2> DEFINE pg == [d.page EXCEPT ![0] = mem.page[0]]
    <2>1. Written(d) = [d EXCEPT !.magic = TRUE, !.ver = mem.ver, !.page = pg]
        BY <1>3 DEF Written
    <2>2. \A p \in Page : PosOf(p) < 1 => p = 0
        BY <1>1 DEF PosOf, Page
    <2>3. 0 \in Page
        BY SffsConstants DEF Page
    <2>4. pg[0] = mem.page[0]
        BY <1>1, <2>3
    <2> HIDE DEF pg
    <2> QED BY <1>1, <1>3, <2>1, <2>2, <2>4 DEF WrittenUpTo
<1>4. CASE wpos # MacPos /\ wpos # 0
    <2> DEFINE q == IF wpos > MacPos THEN wpos - 1 ELSE wpos
               pg == [d.page EXCEPT ![q] = mem.page[q]]
    <2>1. Written(d) = [d EXCEPT !.page = pg]
        BY <1>4 DEF Written
    <2>2. \A p \in Page : PosOf(p) < wpos + 1 => PosOf(p) < wpos \/ p = q
        BY <1>1, <1>4, SffsConstants DEF PosOf, Page
    <2>3. q \in Page
        BY <1>1, <1>4, SffsConstants DEF Page, MacPos, Idle
    <2>4. \A p \in Page : pg[p] = IF p = q THEN mem.page[q] ELSE d.page[p]
        BY <1>1, <2>3
    <2>5. wpos + 1 > MacPos => wpos > MacPos
        BY <1>1, <1>4
    <2> HIDE DEF pg, q
    <2> QED BY <1>1, <1>4, <2>1, <2>2, <2>4, <2>5 DEF WrittenUpTo
<1> QED BY <1>2, <1>3, <1>4

\* When every media write of an update is done, the supercluster holds the
\* image in memory under its HMAC.
LEMMA AllWritten ==
    ASSUME TypeOK, NEW d \in [magic : BOOLEAN, ver : Ver, page : [Page -> Gen], mac : SUBSET Mac],
           WrittenUpTo(d, Idle)
    PROVE  /\ d.magic /\ d.ver = mem.ver /\ d.page = mem.page
           /\ [ver |-> d.ver, page |-> d.page] = mem
           /\ d.mac = {[img |-> mem, sc |-> supercluster]}
<1>1. \A p \in Page : PosOf(p) < Idle
    BY SffsConstants DEF PosOf, Page, MacPos, Idle
<1>2. Idle > 0 /\ Idle > MacPos
    BY SffsConstants DEF MacPos, Idle
<1>3. d.magic /\ d.ver = mem.ver /\ d.mac = {[img |-> mem, sc |-> supercluster]}
    BY <1>2 DEF WrittenUpTo
<1>4. \A p \in Page : d.page[p] = mem.page[p]
    BY <1>1 DEF WrittenUpTo
<1>5. d.page \in [Page -> Gen] /\ mem.page \in [Page -> Gen]
    BY DEF TypeOK, Image
<1>6. d.page = mem.page
    BY <1>4, <1>5
<1>7. [ver |-> d.ver, page |-> d.page] = mem
    BY <1>3, <1>6 DEF TypeOK, Image
<1> QED BY <1>3, <1>6, <1>7

\* The last write of an update completes it.
LEMMA LastWriteCompletes ==
    ASSUME TypeOK, TypeOK', UpdateInv, WriteLastPage, proc # "demoting"
    PROVE  Intact(supercluster)' /\ ImageAt(supercluster)' = mem'
<1> DEFINE d == Written(disk[supercluster])
<1>1. wpos < Idle /\ wpos + 1 = Idle
    BY SffsConstants DEF WriteLastPage, Idle
<1>2. WrittenUpTo(d, Idle)
    BY <1>1, WriteExtends DEF UpdateInv
<1>3. d \in [magic : BOOLEAN, ver : Ver, page : [Page -> Gen], mac : SUBSET Mac]
    BY <1>1, WrittenType
<1>4. supercluster' = supercluster /\ mem' = mem
    BY DEF WriteLastPage
<1>5. disk'[supercluster] = d
    BY DEF WriteLastPage, TypeOK
<1> HIDE DEF d
<1> QED BY <1>2, <1>3, <1>4, <1>5, AllWritten DEF Intact, ImageAt

\* No update is under way before the first run.
LEMMA InitUpdate == Init => UpdateInv
BY SffsConstants DEF Init, UpdateInv, UpdateOnMedia, NothingDone, Idle

\* The start of an update satisfies UpdateInv whatever the media hold.
LEMMA UpdateStarts ==
    ASSUME TypeOK, TypeOK', NEW img, NEW sc \in SC, NEW rr, NEW did,
           update_sffs(img, sc, rr, did), proc' # "off", write_enable'
    PROVE  UpdateInv'
<1>1. wpos' = 0 /\ done'.kind = "none" /\ Idle # 0 /\ 0 < Idle
    BY SffsConstants DEF update_sffs, NothingDone, Idle
<1>2. \A p \in Page : ~(PosOf(p) < 0)
    BY SffsConstants DEF PosOf, Page, MacPos
<1>3. ~(0 > MacPos)
    BY SffsConstants DEF MacPos
<1>4. WrittenUpTo(disk[supercluster], wpos)'
    BY <1>1, <1>2, <1>3 DEF WrittenUpTo
<1> QED BY <1>1, <1>4 DEF UpdateInv, UpdateOnMedia

\* Every step keeps the progress of a running update.
LEMMA StepUpdate == TypeOK /\ TypeOK' /\ UpdateInv /\ [Next]_vars => UpdateInv'
<1> SUFFICES ASSUME TypeOK, TypeOK', UpdateInv, [Next]_vars PROVE UpdateInv'
    OBVIOUS
<1>1. ASSUME NEW o \in Options, Mount(o) PROVE UpdateInv'
    BY <1>1 DEF Mount, UpdateInv, UpdateOnMedia, NothingDone
<1>2. ASSUME NEW o \in Options, Demote(o) PROVE UpdateInv'
    BY <1>2, UpdateStarts, SelectedType DEF Demote
<1>3. ASSUME NEW ps \in (SUBSET Page) \ {{}}, ChangeMetadata(ps) PROVE UpdateInv'
    <2>1. CASE write_enable
        BY <1>3, <2>1, UpdateStarts DEF ChangeMetadata, TypeOK
    <2>2. CASE ~write_enable
        <3>1. done'.kind # "update" /\ ~(wpos' < Idle)
            BY <1>3, <2>2, SffsConstants DEF ChangeMetadata, UpdateInv, Idle
        <3> QED BY <3>1 DEF UpdateInv, UpdateOnMedia
    <2> QED BY <2>1, <2>2
<1>4. CASE WritePage
    <2>1. wpos < Idle /\ wpos' = wpos + 1 /\ wpos' < Idle
        BY <1>4, SffsConstants DEF WritePage, TypeOK, Idle
    <2>2. disk'[supercluster] = Written(disk[supercluster])
        BY <1>4 DEF WritePage, TypeOK
    <2>3. WrittenUpTo(Written(disk[supercluster]), wpos + 1)
        BY <2>1, WriteExtends DEF UpdateInv
    <2>4. WrittenUpTo(disk[supercluster], wpos)'
        BY <1>4, <2>1, <2>2, <2>3 DEF WritePage, WrittenUpTo
    <2> QED BY <1>4, <2>1, <2>4 DEF WritePage, UpdateInv, UpdateOnMedia
<1>5. CASE WriteLastPage
    <2>1. wpos' = Idle /\ ~(wpos' < Idle)
        BY <1>5, SffsConstants DEF WriteLastPage, Idle
    <2>2. write_enable
        BY <1>5, SffsConstants DEF WriteLastPage, UpdateInv, Idle
    <2>3. CASE proc = "demoting"
        BY <1>5, <2>1, <2>3 DEF WriteLastPage, Exit, UpdateInv, UpdateOnMedia
    <2>4. CASE proc # "demoting"
        <3>1. Intact(supercluster)' /\ ImageAt(supercluster)' = mem'
            BY <1>5, <2>4, LastWriteCompletes
        <3> QED BY <1>5, <2>1, <2>4, <2>2, <3>1 DEF WriteLastPage, UpdateInv, UpdateOnMedia
    <2> QED BY <2>3, <2>4
<1>6. CASE Unmount
    BY <1>6, SffsConstants DEF Unmount, Exit, UpdateInv, UpdateOnMedia, Idle
<1>7. CASE Crash
    BY <1>7, SffsConstants DEF Crash, Exit, UpdateInv, UpdateOnMedia, Idle
<1>8. CASE UNCHANGED vars
    BY <1>8 DEF vars, UpdateInv, UpdateOnMedia, WrittenUpTo, Intact, ImageAt
<1> QED BY <1>1, <1>2, <1>3, <1>4, <1>5, <1>6, <1>7, <1>8 DEF Next

\* A completed update is on the NAND as it is in memory, under a valid HMAC
\* (UpdateOnMedia), whatever update_sffs overwrote.
THEOREM UpdatesReachMedia == Spec => []UpdateOnMedia
<1>1. UpdateInv => UpdateOnMedia
    BY DEF UpdateInv
<1> QED BY <1>1, InitType, StepType, InitUpdate, StepUpdate, PTL DEF Spec

-----------------------------------------------------------------------------
(* A verified mount never sees a torn update *)

\* Every HMAC on the NAND, and the one about to be written, is the HMAC of an
\* image that update_sffs was called with (or that was there at the start).
MacInv ==
    /\ \A sc \in SC : \A m \in disk[sc].mac : m.img \in hashed
    /\ wpos < Idle => mem \in hashed /\ proc # "off"

\* The HMACs on a NAND before the first run are over whole images.
LEMMA InitMac == Init => MacInv
<1> SUFFICES ASSUME Init PROVE MacInv
    OBVIOUS
<1>1. PICK ver \in [SC -> InitVers \cup {-1}] :
         disk = [sc \in SC |-> IF ver[sc] = -1 THEN Blank ELSE FormattedWith(sc, ver[sc])]
    BY DEF Init
<1>2. ASSUME NEW sc \in SC, NEW m \in disk[sc].mac PROVE m.img \in hashed
    <2>1. disk[sc] # Blank /\ disk[sc] = FormattedWith(sc, ver[sc])
        BY <1>1, <1>2 DEF Blank
    <2>2. sc \in Formatted /\ m.img = ImageAt(sc)
        BY <1>2, <2>1 DEF FormattedWith, Formatted, ImageAt
    <2> QED BY <2>2 DEF Init
<1> QED BY <1>2, SffsConstants DEF Init, MacInv, Idle

\* An update only adds to the set of hashed images, and its own is among them.
LEMMA UpdateHashed ==
    ASSUME TypeOK, MacInv, NEW img, NEW sc, NEW rr, NEW did,
           update_sffs(img, sc, rr, did), UNCHANGED disk, proc' # "off"
    PROVE  MacInv'
BY DEF update_sffs, MacInv

\* What a page write does to the HMAC field.
LEMMA WrittenMac ==
    ASSUME TypeOK, MacInv, wpos < Idle, UNCHANGED <<hashed>>,
           disk' = [disk EXCEPT ![supercluster] = Written(@)]
    PROVE  \A sc \in SC : \A m \in disk'[sc].mac : m.img \in hashed'
<1> DEFINE d == disk[supercluster]
<1>1. Written(d).mac = d.mac \/ Written(d).mac = {[img |-> mem, sc |-> supercluster]}
    <2>1. d \in [magic : BOOLEAN, ver : Ver, page : [Page -> Gen], mac : SUBSET Mac]
          /\ MacPos > 0
        BY SffsConstants DEF TypeOK, MacPos
    <2>2. CASE wpos = MacPos
        BY <2>1, <2>2 DEF Written
    <2>3. CASE wpos # MacPos /\ wpos = 0
        BY <2>1, <2>3 DEF Written
    <2>4. CASE wpos # MacPos /\ wpos # 0
        BY <2>1, <2>4 DEF Written
    <2> QED BY <2>2, <2>3, <2>4
<1>2. \A sc \in SC : disk'[sc] = IF sc = supercluster THEN Written(d) ELSE disk[sc]
    BY DEF TypeOK
<1> HIDE DEF d
<1>3. \A m \in Written(d).mac : m.img \in hashed
    BY <1>1 DEF MacInv, TypeOK, d
<1> QED BY <1>2, <1>3 DEF MacInv

\* Every step keeps the HMACs on the NAND over whole images.
LEMMA StepMac == TypeOK /\ MacInv /\ [Next]_vars => MacInv'
<1> SUFFICES ASSUME TypeOK, MacInv, [Next]_vars PROVE MacInv'
    OBVIOUS
<1>1. ASSUME NEW o \in Options, Mount(o) PROVE MacInv'
    BY <1>1 DEF Mount, MacInv
<1>2. ASSUME NEW o \in Options, Demote(o) PROVE MacInv'
    BY <1>2, UpdateHashed DEF Demote
<1>3. ASSUME NEW ps \in (SUBSET Page) \ {{}}, ChangeMetadata(ps) PROVE MacInv'
    <2>1. CASE write_enable
        BY <1>3, <2>1, UpdateHashed DEF ChangeMetadata
    <2>2. CASE ~write_enable
        <3>1. UNCHANGED <<disk, hashed>> /\ ~(wpos' < Idle)
            BY <1>3, <2>2, SffsConstants DEF ChangeMetadata, Idle
        <3> QED BY <3>1 DEF MacInv
    <2> QED BY <2>1, <2>2
<1>4. CASE WritePage
    <2>1. wpos < Idle
        BY <1>4, SffsConstants DEF WritePage, TypeOK, Idle
    <2> QED BY <1>4, <2>1, WrittenMac DEF WritePage, MacInv
<1>5. CASE WriteLastPage
    <2>1. wpos < Idle /\ ~(wpos' < Idle)
        BY <1>5, SffsConstants DEF WriteLastPage, TypeOK, Idle
    <2> QED BY <1>5, <2>1, WrittenMac DEF WriteLastPage, MacInv
<1>6. CASE Unmount
    BY <1>6, SffsConstants DEF Unmount, Exit, MacInv, Idle
<1>7. CASE Crash
    BY <1>7, SffsConstants DEF Crash, Exit, MacInv, Idle
<1>8. CASE UNCHANGED vars
    BY <1>8 DEF vars, MacInv
<1> QED BY <1>1, <1>2, <1>3, <1>4, <1>5, <1>6, <1>7, <1>8 DEF Next

\* A mount that checks the HMAC gets an image some update wrote as a whole
\* (VerifiedMountIsWhole): no crash and no later mount with weaker options
\* can make it see the pages of two updates.
THEOREM VerifiedMounts == Spec => VerifiedMountIsWhole
<1>1. ASSUME TypeOK, MacInv, proc = "off", proc' = "mounted",
             NEW o \in Options, o.v, ~o.h, Mount(o)
      PROVE mem' \in hashed
    <2>1. PICK sc \in SC : Accepted(o, sc) /\ mem' = ImageAt(sc)
        BY <1>1, SelectedType DEF Mount
    <2>2. disk[sc].mac = {[img |-> ImageAt(sc), sc |-> sc]}
        BY <1>1, <2>1 DEF Accepted, HmacValid, Intact
    <2>3. [img |-> ImageAt(sc), sc |-> sc] \in disk[sc].mac
        BY <2>2
    <2> QED BY <1>1, <2>1, <2>3 DEF MacInv
<1>2. TypeOK /\ MacInv /\ [Next]_vars =>
         [proc = "off" /\ proc' = "mounted" =>
            \A o \in Options : o.v /\ ~o.h /\ Mount(o) => mem' \in hashed]_vars
    BY <1>1
<1> QED BY <1>2, InitType, StepType, InitMac, StepMac, PTL DEF Spec, VerifiedMountIsWhole

-----------------------------------------------------------------------------
(* Something is always left to mount *)

\* Some intact supercluster is not the one being written, and not the one a
\* bare -r keeps writing in place; the one last read or written is intact
\* between updates.
Survivor ==
    /\ proc # "demoting"
    /\ \E sc \in SC :
          /\ Intact(sc)
          /\ wpos < Idle => sc # supercluster
          /\ ~Advances(round_robin, didupdate) => sc # supercluster
    /\ proc = "mounted" /\ write_enable /\ wpos = Idle => Intact(supercluster)
SurvivorInv == careful => Survivor

\* A NAND before the first run has a valid supercluster.
LEMMA InitSurvivor == Init => SurvivorInv
<1> SUFFICES ASSUME Init PROVE SurvivorInv
    OBVIOUS
<1>1. PICK ver \in [SC -> InitVers \cup {-1}] :
         /\ \E sc \in SC : ver[sc] # -1
         /\ disk = [sc \in SC |-> IF ver[sc] = -1 THEN Blank ELSE FormattedWith(sc, ver[sc])]
    BY DEF Init
<1>2. PICK sc \in SC : disk[sc] = FormattedWith(sc, ver[sc])
    BY <1>1
<1>3. Intact(sc)
    BY <1>2 DEF Intact, FormattedWith, ImageAt
<1> QED BY <1>3, SffsConstants DEF Init, SurvivorInv, Survivor, Advances, Idle

\* A page write leaves the superclusters other than its target alone.
LEMMA OthersStay ==
    ASSUME TypeOK, disk' = [disk EXCEPT ![supercluster] = Written(@)],
           NEW sc \in SC, sc # supercluster, Intact(sc)
    PROVE  Intact(sc)'
<1>1. disk'[sc] = disk[sc]
    BY DEF TypeOK
<1> QED BY <1>1 DEF Intact, ImageAt

\* A step of a careful history leaves a valid supercluster.
LEMMA StepSurvivor ==
    ASSUME TypeOK, TypeOK', UpdateInv, Survivor, careful', [Next]_vars
    PROVE  Survivor'
<1>1. ASSUME NEW o \in Options, Mount(o) PROVE Survivor'
    <2>1. PICK sc \in SC : Accepted(o, sc) /\ supercluster' = sc
        BY <1>1, SelectedType DEF Mount
    <2>2. WriteEnable(o) => Intact(sc)
        BY <1>1, <2>1 DEF Mount, WriteEnable, Accepted, HmacValid
    <2>3. ~(wpos < Idle)
        BY <1>1 DEF Mount, UpdateInv
    <2>4. PICK t \in SC : Intact(t)
        BY DEF Survivor
    <2> QED BY <1>1, <2>1, <2>2, <2>3, <2>4
            DEF Mount, Survivor, Advances, Intact, ImageAt
<1>2. ASSUME NEW o \in Options, Demote(o) PROVE Survivor'
    BY <1>2 DEF Demote
<1>3. ASSUME NEW ps \in (SUBSET Page) \ {{}}, ChangeMetadata(ps) PROVE Survivor'
    <2>1. CASE write_enable
        <3>1. Intact(supercluster)
            BY <1>3, <2>1 DEF ChangeMetadata, Survivor
        <3>2. /\ supercluster' = IF Advances(round_robin, didupdate)
                                 THEN Next_sc(supercluster) ELSE supercluster
              /\ wpos' = 0 /\ UNCHANGED <<disk, proc>>
            BY <1>3, <2>1 DEF ChangeMetadata, update_sffs
        <3>3. \E sc \in SC : Intact(sc) /\ sc # supercluster'
            <4>1. CASE Advances(round_robin, didupdate)
                BY <3>1, <3>2, <4>1, NextScType DEF TypeOK
            <4>2. CASE ~Advances(round_robin, didupdate)
                BY <3>2, <4>2 DEF Survivor
            <4> QED BY <4>1, <4>2
        <3>4. \A sc \in SC : Intact(sc)' <=> Intact(sc)
            BY <3>2 DEF Intact, ImageAt
        <3>5. wpos' # Idle
            BY <3>2, SffsConstants DEF Idle
        <3> QED BY <3>2, <3>3, <3>4, <3>5 DEF Survivor
    <2>2. CASE ~write_enable
        BY <1>3, <2>2 DEF ChangeMetadata, Survivor, Intact, ImageAt, Advances
    <2> QED BY <2>1, <2>2
<1>4. CASE WritePage
    <2>1. wpos < Idle /\ wpos' < Idle
        BY <1>4, SffsConstants DEF WritePage, TypeOK, Idle
    <2>2. wpos' # Idle
        BY <2>1, SffsConstants DEF Idle
    <2>3. PICK sc \in SC : Intact(sc) /\ sc # supercluster
        BY <2>1 DEF Survivor
    <2>4. Intact(sc)'
        BY <1>4, <2>3, OthersStay DEF WritePage
    <2> QED BY <1>4, <2>2, <2>3, <2>4 DEF WritePage, Survivor
<1>5. CASE WriteLastPage
    <2>1. wpos < Idle /\ wpos' = Idle /\ ~(wpos' < Idle)
        BY <1>5, SffsConstants DEF WriteLastPage, Idle
    <2>2. PICK sc \in SC : Intact(sc) /\ sc # supercluster
        BY <2>1 DEF Survivor
    <2>3. Intact(sc)'
        BY <1>5, <2>2, OthersStay DEF WriteLastPage
    <2>4. proc # "demoting" /\ UNCHANGED <<proc, supercluster>>
        BY <1>5 DEF WriteLastPage, Survivor
    <2>5. Intact(supercluster)'
        BY <1>5, <2>4, LastWriteCompletes
    <2> QED BY <2>1, <2>2, <2>3, <2>4, <2>5 DEF Survivor
<1>6. CASE Unmount
    <2>1. PICK sc \in SC : Intact(sc)
        BY DEF Survivor
    <2>2. Intact(sc)'
        BY <1>6, <2>1 DEF Unmount, Intact, ImageAt
    <2>3. ~(wpos' < Idle)
        BY <1>6, SffsConstants DEF Unmount, Idle
    <2> QED BY <1>6, <2>2, <2>3 DEF Unmount, Exit, Survivor, Advances
<1>7. CASE Crash
    <2>1. PICK sc \in SC : Intact(sc)
        BY DEF Survivor
    <2>2. Intact(sc)'
        BY <1>7, <2>1 DEF Crash, Intact, ImageAt
    <2>3. ~(wpos' < Idle)
        BY <1>7, SffsConstants DEF Crash, Idle
    <2> QED BY <1>7, <2>2, <2>3 DEF Crash, Exit, Survivor, Advances
<1>8. CASE UNCHANGED vars
    BY <1>8 DEF vars, Survivor, Intact, ImageAt, Advances
<1> QED BY <1>1, <1>2, <1>3, <1>4, <1>5, <1>6, <1>7, <1>8 DEF Next

\* What was careful after a step was so before it.
LEMMA StaysCareful == ASSUME [Next]_vars, careful' PROVE careful
BY DEF Next, vars, Mount, Demote, ChangeMetadata, WritePage, WriteLastPage, Unmount, Crash

\* With more than one supercluster, as long as every session that could write
\* verified what it mounted and none used -r<sc>, the NAND holds a supercluster
\* with a valid HMAC (SurvivorExists).
THEOREM Survival == Spec => []SurvivorExists
<1>1. SurvivorInv => SurvivorExists
    BY DEF SurvivorInv, Survivor, SurvivorExists
<1>2. TypeOK /\ TypeOK' /\ UpdateInv /\ SurvivorInv /\ [Next]_vars => SurvivorInv'
    BY StepSurvivor, StaysCareful DEF SurvivorInv
<1> QED BY <1>1, <1>2, InitType, StepType, InitUpdate, StepUpdate, InitSurvivor,
           PTL DEF Spec

-----------------------------------------------------------------------------
(* What -r<sc> put below the oldest is not mounted next *)

\* Version v is below those of all other superclusters, unless the subtraction of one
\* wrapped around.
Below(v, sc) == v # VerMod - 1 => \A other \in Formatted \ {sc} : v < disk[other].ver

DemoteInv ==
    /\ proc = "demoting" => wpos < Idle /\ Below(mem.ver, supercluster)
    /\ done.kind = "demote" =>
           /\ proc = "off" /\ ~(wpos < Idle)
           /\ disk[done.sc].ver = done.ver /\ Below(done.ver, done.sc)

\* One below the lowest version of the scan is below all.
LEMMA LowVerBelow ==
    ASSUME TypeOK, NEW sc \in SC, NEW low \in LowVer
    PROVE  (low - 1) % VerMod \in Ver /\ Below((low - 1) % VerMod, sc)
<1>1. low \in Ver /\ VerMod \in Nat /\ VerMod > 1
    BY LowVerType, SffsConstants
<1>2. \A other \in Formatted : low <= disk[other].ver /\ disk[other].ver \in Ver
    BY DEF LowVer, Formatted, TypeOK
<1>3. (low - 1) % VerMod = IF low = 0 THEN VerMod - 1 ELSE low - 1
    <2>1. CASE low = 0
        <3>1. (0 - 1) % VerMod = VerMod - 1
            BY <1>1
        <3> QED BY <2>1, <3>1
    <2>2. CASE low # 0
        <3>1. low - 1 \in 0 .. VerMod - 1
            BY <1>1, <2>2 DEF Ver
        <3> QED BY <1>1, <2>2, <3>1
    <2> QED BY <2>1, <2>2
<1> QED BY <1>1, <1>2, <1>3 DEF Below, Ver

\* A media write leaves the versions of the other superclusters alone.
LEMMA OthersVersions ==
    ASSUME TypeOK, disk' = [disk EXCEPT ![supercluster] = Written(@)],
           NEW v, Below(v, supercluster), supercluster' = supercluster
    PROVE  v # VerMod - 1 => \A other \in Formatted' \ {supercluster} : v < disk'[other].ver
BY DEF TypeOK, Below, Formatted

\* Nothing is demoted before the first run.
LEMMA InitDemote == Init => DemoteInv
BY DEF Init, DemoteInv, NothingDone

\* Every step keeps a demoted supercluster below the others until the next session.
LEMMA StepDemote ==
    ASSUME TypeOK, UpdateInv, DemoteInv, [Next]_vars
    PROVE  DemoteInv'
<1>1. ASSUME NEW o \in Options, Mount(o) PROVE DemoteInv'
    BY <1>1 DEF Mount, DemoteInv, NothingDone
<1>2. ASSUME NEW o \in Options, Demote(o) PROVE DemoteInv'
    <2>1. PICK sc \in SC, low \in LowVer :
              update_sffs([ImageAt(sc) EXCEPT !.ver = (low - 1) % VerMod], sc, -2, TRUE)
        BY <1>2, SelectedType DEF Demote
    <2> DEFINE img == [ImageAt(sc) EXCEPT !.ver = (low - 1) % VerMod]
    <2>2. (low - 1) % VerMod \in Ver /\ Below((low - 1) % VerMod, sc)
        BY LowVerBelow
    <2>3. img \in Image /\ img.ver = (low - 1) % VerMod
        BY <2>2, ImageAtType DEF Image
    <2>4. supercluster' = sc
        BY <2>1 DEF update_sffs, Advances
    <2>5. mem' = img
        <3> HIDE DEF img
        <3>1. mem' = [img EXCEPT !.ver = img.ver]
            BY <2>1 DEF update_sffs, img
        <3> QED BY <2>3, <3>1 DEF Image
    <2>6. disk' = disk /\ wpos' = 0 /\ done'.kind = "none" /\ 0 < Idle
        BY <1>2, <2>1, SffsConstants DEF Demote, update_sffs, NothingDone, Idle
    <2> HIDE DEF img
    <2>7. Below(mem.ver, supercluster)'
        BY <2>2, <2>3, <2>4, <2>5, <2>6 DEF Below, Formatted
    <2> QED BY <2>6, <2>7 DEF DemoteInv
<1>3. ASSUME NEW ps \in (SUBSET Page) \ {{}}, ChangeMetadata(ps) PROVE DemoteInv'
    <2>1. proc' = "mounted" /\ done.kind # "demote"
        BY <1>3 DEF ChangeMetadata, DemoteInv
    <2>2. done' = done \/ done'.kind = "none"
        BY <1>3 DEF ChangeMetadata, update_sffs, NothingDone
    <2> QED BY <2>1, <2>2 DEF DemoteInv
<1>4. CASE WritePage
    <2>1. wpos < Idle /\ wpos' < Idle
        BY <1>4, SffsConstants DEF WritePage, TypeOK, Idle
    <2>2. done.kind # "demote" /\ done' = done
        BY <1>4, <2>1 DEF WritePage, DemoteInv
    <2>3. proc = "demoting" => Below(mem.ver, supercluster)'
        <3>1. /\ disk' = [disk EXCEPT ![supercluster] = Written(@)]
              /\ supercluster' = supercluster /\ mem' = mem
            BY <1>4 DEF WritePage
        <3> DEFINE v == mem.ver
        <3>2. proc = "demoting" => Below(v, supercluster)
            BY DEF DemoteInv
        <3>3. v = mem'.ver
            BY <3>1
        <3> HIDE DEF v
        <3>4. proc = "demoting" =>
                 (v # VerMod - 1 => \A other \in Formatted' \ {supercluster} : v < disk'[other].ver)
            BY <3>1, <3>2, OthersVersions
        <3> QED BY <3>1, <3>3, <3>4 DEF Below
    <2> QED BY <1>4, <2>1, <2>2, <2>3 DEF WritePage, DemoteInv
<1>5. CASE WriteLastPage
    <2>1. wpos < Idle /\ wpos + 1 = Idle /\ wpos' = Idle
        BY <1>5, SffsConstants DEF WriteLastPage, Idle
    <2>2. CASE proc # "demoting"
        BY <1>5, <2>2 DEF WriteLastPage, DemoteInv
    <2>3. CASE proc = "demoting"
        <3> DEFINE d == Written(disk[supercluster])
                   v == mem.ver
                   sc == supercluster
        <3>1. disk' = [disk EXCEPT ![sc] = Written(@)] /\ disk'[sc] = d
              /\ done'.sc = sc /\ done'.ver = v /\ proc' = "off" /\ sc \in SC
            BY <1>5, <2>3 DEF WriteLastPage, Exit, TypeOK
        <3>2. d.ver = v
            <4>1. WrittenUpTo(d, Idle)
                BY <2>1, WriteExtends DEF UpdateInv
            <4>2. d \in [magic : BOOLEAN, ver : Ver, page : [Page -> Gen], mac : SUBSET Mac]
                BY <2>1, WrittenType
            <4> HIDE DEF d
            <4> QED BY <4>1, <4>2, AllWritten
        <3>3. v # VerMod - 1 => \A other \in Formatted' \ {sc} : v < disk'[other].ver
            BY <2>3, <3>1 DEF DemoteInv, Below, Formatted, TypeOK
        <3> HIDE DEF d, v, sc
        <3>4. ~(wpos' < Idle)
            BY <2>1, SffsConstants DEF Idle
        <3> QED BY <3>1, <3>2, <3>3, <3>4 DEF DemoteInv, Below
    <2> QED BY <2>2, <2>3
<1>6. CASE Unmount
    BY <1>6 DEF Unmount, Exit, DemoteInv
<1>7. CASE Crash
    BY <1>7 DEF Crash, Exit, DemoteInv
<1>8. CASE UNCHANGED vars
    BY <1>8 DEF vars, DemoteInv, Below, Formatted
<1> QED BY <1>1, <1>2, <1>3, <1>4, <1>5, <1>6, <1>7, <1>8 DEF Next

\* A supercluster below all others is not the newest of the default scan.
LEMMA BelowIsNotNewest ==
    ASSUME TypeOK, DemoteInv
    PROVE  DemotedIsNotMounted
<1> SUFFICES ASSUME done.kind = "demote", done.ver # VerMod - 1, Formatted # {done.sc},
                    done.sc \in Newest(DefaultScan)
             PROVE  FALSE
    BY DEF DemotedIsNotMounted
<1>1. \A sc \in SC : ClusterNo(DefaultScan, sc) # 0
    BY SffsConstants DEF ClusterNo, DefaultScan, SC
<1>2. done.sc \in Formatted /\ Formatted \subseteq SC
    BY DEF Newest, Formatted
<1>3. PICK other \in Formatted : other # done.sc
    BY <1>2
<1>4. disk[done.sc].ver < disk[other].ver
    BY <1>3 DEF DemoteInv, Below
<1>5. disk[other].ver <= disk[done.sc].ver
    <2>1. other \in SC /\ ClusterNo(DefaultScan, other) # 0
        BY <1>1, <1>2, <1>3
    <2> QED BY <1>2, <1>3, <2>1 DEF Newest, TypeOK, Ver
<1>6. disk[other].ver \in Ver /\ disk[done.sc].ver \in Ver
    BY <1>2, <1>3 DEF TypeOK
<1> QED BY <1>4, <1>5, <1>6, SffsConstants DEF Ver

\* A supercluster that -r<sc> has put below the oldest is not what the next default
\* mount selects, unless it is the only one or the subtraction wrapped around, for
\* any number of superclusters and any versions on them.
THEOREM DemotionHolds == Spec => []DemotedIsNotMounted
<1>1. TypeOK /\ DemoteInv => DemotedIsNotMounted
    BY BelowIsNotNewest
<1>2. TypeOK /\ UpdateInv /\ DemoteInv /\ [Next]_vars => DemoteInv'
    BY StepDemote
<1> QED BY <1>1, <1>2, InitType, StepType, InitUpdate, StepUpdate, InitDemote,
           PTL DEF Spec
=============================================================================
