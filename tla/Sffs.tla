-------------------------------- MODULE Sffs --------------------------------
(***************************************************************************)
(* The metadata store of wiinandfuse: the superclusters of a Wii NAND      *)
(* image, the scan and load of sffs_init(), and update_sffs(), which       *)
(* writes the in-memory SFFS back one NAND page at a time.  A process may  *)
(* be killed between any two page writes and be started again with other   *)
(* options.                                                                *)
(*                                                                         *)
(* Content is abstracted to a generation number per page.  The HMAC stored *)
(* in the spare area is modelled by what it binds: the image it was        *)
(* computed over and the supercluster it was computed for.                 *)
(***************************************************************************)
EXTENDS Integers, FiniteSets

CONSTANTS
    NSC,       \* superclusters on the NAND (16 in the code)
    NPG,       \* pages of one supercluster (16 clusters of 8 pages)
    VerMod,    \* 2^32: versions are unsigned 32 bit numbers
    LowInit,   \* 0xfffffff7, the initial value of sffs_init's lowver
    InitVers,  \* versions a supercluster may have before the first run
    MaxGen,    \* bound on the generations, one per call of update_sffs
    Options    \* command lines the program may be started with

SC   == 0 .. NSC - 1
Page == 0 .. NPG - 1
Ver  == 0 .. VerMod - 1
Gen  == 0 .. MaxGen

\* ver of main(): -2 is the default, -1 is a bare -g, the others are -g<sc>.
SuclusArgs == {-2, -1} \cup SC
\* round_robin of main(): -1 is the default, -2 is a bare -r, the others -r<sc>.
RoundRobinArgs == {-1, -2} \cup SC
\* "image" is a full NAND dump, "sffs" is -s, "gecko" is -u.
Devices == {"image", "sffs", "gecko"}

OptionRecords ==
    [suclus : SuclusArgs, round_robin : RoundRobinArgs,
     h : BOOLEAN, v : BOOLEAN, dev : Devices]

ASSUME SffsConstants ==
    /\ NSC \in Nat /\ NSC > 1
    /\ NPG \in Nat /\ NPG > 1
    /\ VerMod \in Nat /\ VerMod > 1
    /\ LowInit \in Ver
    /\ InitVers \subseteq Ver
    /\ MaxGen \in Nat /\ MaxGen >= NSC
    /\ Options \subseteq OptionRecords

\* An image is what SFFS holds: the version in the header and the pages.
Image == [ver : Ver, page : [Page -> Gen]]
\* An HMAC over an image, bound to the supercluster number by fs_hmac_meta.
Mac == [img : Image, sc : SC]

VARIABLES
    disk,          \* superclusters on the NAND; mac is {} or a singleton
    proc,          \* the process: "off", "mounted" or "demoting" (-r<sc>)
    mem,           \* SFFS, the image in memory
    supercluster,  \* index of the supercluster last read or written
    round_robin,   \* -1 or -2, as left by the options
    didupdate,     \* round_robin_didupdate
    write_enable,
    wpos,          \* next media write of a running update_sffs, or Idle
    gen,           \* last generation used: counts the calls of update_sffs
    hashed,        \* history: images an HMAC was computed over
    done,          \* history: the last completed update
    careful        \* history: every session that could write had -v, none -r<sc>

vars == <<disk, proc, mem, supercluster, round_robin, didupdate,
          write_enable, wpos, gen, hashed, done, careful>>

\* The media writes of an update, in order: pages 0 .. NPG-2, then the spare
\* area of page NPG-2 that carries the HMAC, then page NPG-1.
Idle == NPG + 1
MacPos == NPG - 1

NoImage == [ver |-> 0, page |-> [p \in Page |-> 0]]
NothingDone == [kind |-> "none", sc |-> 0, ver |-> 0]

Blank == [magic |-> FALSE, ver |-> 0, page |-> [p \in Page |-> 0], mac |-> {}]
ImageAt(sc) == [ver |-> disk[sc].ver, page |-> disk[sc].page]
\* The stored HMAC is the one of the stored pages at this place.
Intact(sc) ==
    disk[sc].magic /\ disk[sc].mac = {[img |-> ImageAt(sc), sc |-> sc]}

FormattedWith(sc, v) ==
    LET img == [ver |-> v, page |-> [p \in Page |-> sc]]
    IN  [magic |-> TRUE, ver |-> img.ver, page |-> img.page,
         mac |-> {[img |-> img, sc |-> sc]}]

-----------------------------------------------------------------------------
(* sffs_init *)

\* First cluster of a supercluster: a -s dump starts with supercluster 0.
ClusterNo(o, sc) == (IF o.dev = "sffs" THEN 0 ELSE 32512) + 16 * sc

Formatted == {sc \in SC : disk[sc].magic}

\* The default scan.  "sffs_cluster == 0" stands for "nothing found yet", so a
\* supercluster at cluster 0 is always given up for a later one.
Newest(o) ==
    LET cand == {sc \in Formatted : ClusterNo(o, sc) # 0}
    IN  {sc \in cand : \A other \in cand :
            \/ disk[other].ver < disk[sc].ver
            \/ disk[other].ver = disk[sc].ver /\ sc <= other}

\* -g<sc> and -r<sc>; -r<sc> wins.
Wanted(o) == IF o.round_robin \in SC THEN o.round_robin ELSE o.suclus

\* The supercluster the scan settles on: a singleton, or {} when sffs_init
\* returns -1 (nothing found, or the bare -g that only lists).
Selected(o) ==
    CASE Wanted(o) = -2 -> Newest(o)
      [] Wanted(o) = -1 -> {}
      [] OTHER -> {sc \in Formatted : sc = Wanted(o) /\ ClusterNo(o, sc) # 0}

\* Mutant: the scan for the lowest version stops before the last supercluster.
LowVerButLast ==
    LET seen == {LowInit} \cup {disk[sc].ver : sc \in Formatted \ {NSC - 1}}
    IN  {v \in seen : \A w \in seen : v <= w}
\* sffs_init's lowver after the scan, as a singleton: the smallest version it
\* saw, at most LowInit.
LowVer ==
    LET seen == {LowInit} \cup {disk[sc].ver : sc \in Formatted}
    IN  {v \in seen : \A w \in seen : v <= w}

\* With -s the keys are not loaded, so the computed HMAC never matches.
HmacValid(o, sc) == o.dev # "sffs" /\ Intact(sc)

\* Mutant: the abort of -v is missing.
AcceptedAnyway(o, sc) == TRUE
\* sffs_init goes on after the HMAC check.
Accepted(o, sc) == o.h \/ HmacValid(o, sc) \/ ~o.v

WriteEnable(o) == ~o.h /\ o.dev = "image"

-----------------------------------------------------------------------------
(* update_sffs *)

\* Mutants: the supercluster does not wrap around, or does not change.
Next_scNoWrap(sc) == sc + 1
Next_scSame(sc) == sc
\* Whether update_sffs moves on to the next supercluster.
Advances(rr, did) == ~(rr = -2 /\ did)
Next_sc(sc) == IF sc + 1 > NSC - 1 THEN 0 ELSE sc + 1

\* The part of update_sffs before the page writes, called with image img.
\* Its version would only be raised for round_robin >= 0, a value sffs_init
\* has replaced by -2 (or never had) by the time this runs.
update_sffs(img, sc, rr, did) ==
    /\ supercluster' = IF Advances(rr, did) THEN Next_sc(sc) ELSE sc
    /\ mem' = [img EXCEPT !.ver = IF rr >= 0 THEN (@ + 1) % VerMod ELSE @]
    /\ round_robin' = rr
    /\ didupdate' = (did \/ rr = -2)
    /\ wpos' = 0
    /\ hashed' = hashed \cup {mem'}
    /\ done' = NothingDone

-----------------------------------------------------------------------------

Init ==
    /\ \E ver \in [SC -> InitVers \cup {-1}] :
        /\ \E sc \in SC : ver[sc] # -1
        /\ disk = [sc \in SC |-> IF ver[sc] = -1 THEN Blank ELSE FormattedWith(sc, ver[sc])]
    /\ proc = "off"
    /\ mem = NoImage
    /\ supercluster = 0 /\ round_robin = -1 /\ didupdate = FALSE
    /\ write_enable = FALSE
    /\ wpos = Idle
    /\ gen = NSC - 1
    /\ hashed = {ImageAt(sc) : sc \in Formatted}
    /\ done = NothingDone /\ careful = TRUE

\* main() and sffs_init() without -r<sc>, up to a successful mount.  A start
\* that fails the scan or the HMAC check exits and leaves no trace.
Mount(o) ==
    /\ proc = "off"
    /\ o.round_robin \notin SC
    /\ \E sc \in Selected(o) :
        /\ Accepted(o, sc)
        /\ mem' = ImageAt(sc)
        /\ supercluster' = sc
    /\ proc' = "mounted"
    /\ round_robin' = o.round_robin
    /\ didupdate' = FALSE
    /\ write_enable' = WriteEnable(o)
    /\ done' = NothingDone
    /\ careful' = (careful /\ (WriteEnable(o) => o.v))
    /\ UNCHANGED <<disk, wpos, gen, hashed>>

\* main() and sffs_init() with -r<sc>: the version of that supercluster is set
\* below the lowest one, update_sffs writes it in place, and the program ends
\* without mounting.  Without write access update_sffs does nothing.
Demote(o) ==
    /\ proc = "off" /\ gen < MaxGen
    /\ o.round_robin \in SC
    /\ WriteEnable(o)
    /\ \E sc \in Selected(o), lowver \in LowVer :
        /\ Accepted(o, sc)
        /\ update_sffs([ImageAt(sc) EXCEPT !.ver = (lowver - 1) % VerMod],
                       sc, -2, TRUE)
    /\ proc' = "demoting"
    /\ write_enable' = TRUE
    /\ gen' = gen + 1 /\ careful' = FALSE
    /\ UNCHANGED disk

\* A file system operation changes some pages of SFFS and calls update_sffs.
ChangeMetadata(ps) ==
    /\ proc = "mounted" /\ wpos = Idle /\ gen < MaxGen
    /\ gen' = gen + 1
    /\ LET img == [mem EXCEPT !.page = [p \in Page |-> IF p \in ps THEN gen + 1 ELSE @[p]]]
       IN  IF write_enable
           THEN update_sffs(img, supercluster, round_robin, didupdate)
           ELSE /\ mem' = img
                /\ UNCHANGED <<supercluster, round_robin, didupdate, wpos, hashed, done>>
    /\ UNCHANGED <<disk, proc, write_enable, careful>>

\* The process and its globals are gone.
Exit ==
    /\ proc' = "off"
    /\ mem' = NoImage
    /\ supercluster' = 0 /\ round_robin' = -1 /\ didupdate' = FALSE
    /\ write_enable' = FALSE

\* Mutant: the HMAC is computed for the supercluster before the one written.
WrittenForLast(d) ==
    CASE wpos = MacPos -> [d EXCEPT !.mac = {[img |-> mem, sc |-> (supercluster - 1) % NSC]}]
      [] wpos = 0 ->
            [d EXCEPT !.magic = TRUE, !.ver = mem.ver, !.page[0] = mem.page[0]]
      [] OTHER -> LET p == IF wpos > MacPos THEN wpos - 1 ELSE wpos
                  IN  [d EXCEPT !.page[p] = mem.page[p]]
\* The media after the write at wpos: one page, or the spare area with the HMAC.
Written(d) ==
    CASE wpos = MacPos -> [d EXCEPT !.mac = {[img |-> mem, sc |-> supercluster]}]
      [] wpos = 0 ->
            [d EXCEPT !.magic = TRUE, !.ver = mem.ver, !.page[0] = mem.page[0]]
      [] OTHER -> LET p == IF wpos > MacPos THEN wpos - 1 ELSE wpos
                  IN  [d EXCEPT !.page[p] = mem.page[p]]

\* One write() of nand_write_sector on behalf of update_sffs.
WritePage ==
    /\ wpos < NPG
    /\ disk' = [disk EXCEPT ![supercluster] = Written(@)]
    /\ wpos' = wpos + 1
    /\ UNCHANGED <<proc, mem, supercluster, round_robin, didupdate, write_enable,
                   gen, hashed, done, careful>>

\* The last write() of update_sffs.  After it sffs_init's -r<sc> branch returns
\* -1 and main ends the program.
WriteLastPage ==
    /\ wpos = NPG
    /\ disk' = [disk EXCEPT ![supercluster] = Written(@)]
    /\ done' = [kind |-> IF proc = "demoting" THEN "demote" ELSE "update",
                sc |-> supercluster, ver |-> mem.ver]
    /\ wpos' = Idle
    /\ IF proc = "demoting"
       THEN Exit
       ELSE UNCHANGED <<proc, mem, supercluster, round_robin, didupdate, write_enable>>
    /\ UNCHANGED <<gen, hashed, careful>>

\* fs_destroy: the file system is unmounted between operations.
Unmount ==
    /\ proc = "mounted" /\ wpos = Idle
    /\ Exit
    /\ UNCHANGED <<disk, wpos, gen, hashed, done, careful>>

\* The process is killed, or the machine stops, between two media writes.
Crash ==
    /\ wpos < Idle
    /\ Exit
    /\ wpos' = Idle
    /\ UNCHANGED <<disk, gen, hashed, done, careful>>

Next ==
    \/ \E o \in Options : Mount(o) \/ Demote(o)
    \/ \E ps \in (SUBSET Page) \ {{}} : ChangeMetadata(ps)
    \/ WritePage \/ WriteLastPage
    \/ Unmount
    \/ Crash

Spec == Init /\ [][Next]_vars

-----------------------------------------------------------------------------
(* Properties *)

\* The superclusters, the image in memory and the position of an update stay
\* what sffs_init and update_sffs take them to be.
TypeOK ==
    /\ disk \in [SC -> [magic : BOOLEAN, ver : Ver, page : [Page -> Gen],
                        mac : SUBSET Mac]]
    /\ proc \in {"off", "mounted", "demoting"}
    /\ mem \in Image
    /\ supercluster \in SC
    /\ round_robin \in {-1, -2}
    /\ didupdate \in BOOLEAN
    /\ write_enable \in BOOLEAN
    /\ wpos \in 0 .. Idle
    /\ gen \in Gen
    /\ hashed \subseteq Image
    /\ done \in [kind : {"none", "update", "demote"}, sc : SC, ver : Ver]
    /\ careful \in BOOLEAN

\* Whatever crashes left on the NAND, sffs_init with -v (and without -h) only
\* mounts an image that some run handed to fs_hmac_meta as a whole: never a
\* mixture of the pages of two updates.
VerifiedMountIsWhole ==
    [][proc = "off" /\ proc' = "mounted" =>
        \A o \in Options : o.v /\ ~o.h /\ Mount(o) => mem' \in hashed]_vars

\* When update_sffs returns, the supercluster it wrote holds the metadata in
\* memory under a valid HMAC, whatever that supercluster held before.
UpdateOnMedia ==
    proc = "mounted" /\ wpos = Idle /\ done.kind = "update"
        => Intact(supercluster) /\ ImageAt(supercluster) = mem

\* As long as every session that could write verified what it mounted (-v) and
\* none used -r<sc>, a supercluster with a valid HMAC is on the NAND at every
\* moment, so a crash anywhere in update_sffs leaves something to mount.
SurvivorExists == careful => \E sc \in SC : Intact(sc)

DefaultScan == [suclus |-> -2, round_robin |-> -1, h |-> FALSE, v |-> FALSE, dev |-> "image"]

\* A supercluster that -r<sc> has put below the oldest one is not what the
\* next default mount selects, unless it is the only one or the subtraction
\* of one has wrapped around.
DemotedIsNotMounted ==
    done.kind = "demote" /\ done.ver # VerMod - 1 /\ Formatted # {done.sc}
        => done.sc \notin Newest(DefaultScan)
=============================================================================
