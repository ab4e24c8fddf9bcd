-------------------------------- MODULE Vff --------------------------------
(***************************************************************************)
(* libwc24's VFF files: their creation on the NAND, the table of mounted   *)
(* volumes, the devoptab device with its table of open files, and the part *)
(* of FatFs that tells a file object of an earlier mount from one of this. *)
(*                                                                         *)
(* Any application may call it: volumes are mounted and unmounted in any   *)
(* order, files outlive their volume, and other NAND files are opened and  *)
(* closed in between.  ordered and single say how it has behaved so far.   *)
(* What a VFF file contains is left out, and so are the leaks and double   *)
(* frees of heap blocks that no table points to.                           *)
(***************************************************************************)
EXTENDS Integers, FiniteSets, FiniteSetsExt

CONSTANTS
    Files,       \* VFF files on the NAND
    Own,         \* those the application creates; the others are the system's
    Names,       \* devices: names of VFF files without their directories
    NameOf,      \* the name of each file
    Drives,      \* _DRIVES
    VFF_MAXFDS,
    Fds,         \* descriptors of the NAND driver
    Addresses,   \* where newlib may put a file object
    Paths,       \* files inside a VFF
    None,
    MaxFsid, MaxLost   \* bounds on mounts by FatFs and on closes that fail

\* home: the VFF the file was opened in.  since: it was opened after the table
\* of open files was last cleared.
FileObjects == [home : Files, id : Nat, written : BOOLEAN, path : Paths, since : BOOLEAN]

ASSUME VffConstants ==
    /\ Own \subseteq Files /\ NameOf \in [Files -> Names]
    /\ Drives \in Nat \ {0} /\ VFF_MAXFDS \in Nat /\ MaxFsid \in Nat /\ MaxLost \in Nat
    /\ None \notin Files \cup Names \cup Fds \cup Addresses \cup Paths \cup FileObjects
    /\ "other" \notin Files

VARIABLES
    file,                   \* a VFF file is absent, whole, or cut short
    created,                \* files whose last VFF_CreateVFF returned 0 (history)
    nandfd,                 \* what each descriptor of the NAND driver is open on
    vff_totalmountedfs,
    disk_vff_handles,       \* the descriptor of each volume
    vffoptab_devmntname, vffoptab_dev,   \* its name and its devoptab entry
    device,                 \* newlib's devices: the file each was added for
    fs,                     \* FatFs: the file system object of drive 0, and Fsid
    fil,                    \* the file objects newlib has open
    vffoptab_fds, vffoptab_fd_paths,
    wild,                   \* something freed, or behind a table, was used
    ordered,  \* so far: the volume unmounted was the one mounted last; no name
              \* and no more than Drives volumes were mounted at a time (history)
    single,   \* so far: and never two volumes, nor file I/O with none (history)
    lost,     \* closes that failed since the table of files was cleared (history)
    reached   \* where the last step went on the NAND, and where it belonged (history)

media == <<file, created>>
volumes == <<vff_totalmountedfs, disk_vff_handles, vffoptab_devmntname, vffoptab_dev, device>>
table == <<vffoptab_fds, vffoptab_fd_paths, lost>>
manners == <<ordered, single>>
vars == <<media, nandfd, volumes, fs, fil, table, wild, manners, reached>>

Drive == 0 .. Drives - 1
Slots == 1 .. VFF_MAXFDS
NoIO == [home |-> None, at |-> None]

TypeOK ==
    /\ file \in [Files -> {"absent", "cut", "whole"}] /\ created \subseteq Files
    /\ nandfd \in [Fds -> Files \cup {"other", None}]
    /\ vff_totalmountedfs \in Int
    /\ disk_vff_handles \in [Drive -> Fds \cup {None}]
    /\ vffoptab_devmntname \in [Drive -> Names \cup {None}]
    /\ vffoptab_dev \in [Drive -> {"never", "added", "freed"}]
    /\ device \in [Names -> Files \cup {None}]
    /\ fs \in [type : {"unregistered", "clear", "mounted"}, id : Nat]
    /\ fil \in [Addresses -> FileObjects \cup {None}]
    /\ vffoptab_fds \in [Slots -> Addresses \cup {None}]
    /\ vffoptab_fd_paths \in [Slots -> Paths \cup {None}]
    /\ lost \in Nat /\ wild \in BOOLEAN /\ ordered \in BOOLEAN /\ single \in BOOLEAN
    /\ reached \in [home : Files \cup {None}, at : Files \cup {"other", None}]

\* The state of a program that has just started.
Fresh ==
    /\ nandfd = [d \in Fds |-> None]
    /\ vff_totalmountedfs = 0
    /\ disk_vff_handles = [i \in Drive |-> None]
    /\ vffoptab_devmntname = [i \in Drive |-> None]
    /\ vffoptab_dev = [i \in Drive |-> "never"]
    /\ device = [n \in Names |-> None]
    /\ fs = [type |-> "unregistered", id |-> 0]
    /\ fil = [a \in Addresses |-> None]
    /\ vffoptab_fds = [s \in Slots |-> None]
    /\ vffoptab_fd_paths = [s \in Slots |-> None]
    /\ lost = 0 /\ wild = FALSE /\ ordered = TRUE /\ single = TRUE /\ reached = NoIO

Init ==
    /\ file = [f \in Files |-> IF f \in Own THEN "absent" ELSE "whole"]
    /\ created = {}
    /\ Fresh

FreeFds == {d \in Fds : nandfd[d] = None}

-----------------------------------------------------------------------------
(***************************************************************************)
(* VFF_CreateVFF.  refused is the first write the NAND refuses, or None.   *)
(* After the header or a FAT it returns; after the root directory, or the  *)
(* directory behind it, it closes the descriptor and goes on: the writes   *)
(* that follow fail as well, and so does closing it again.                 *)
(***************************************************************************)
Writes == {"header", "fat", "root", "dir", "rest"}
ClosesOn(refused) == refused \in {"root", "dir"}

\* Mutant: the rest is written after the root directory could not be.
CreateGoesOn(refused) == refused \notin {"header", "fat", "dir", "rest"}

CreateSucceeds(refused) ==
    /\ refused \notin {"header", "fat", "rest"}   \* it returned at once
    /\ ~ClosesOn(refused)                         \* the rest could be written

\* ISFS_CreateFile, after ISFS_Delete if delvff says so and nobody has it open.
MayCreate(f, delvff) ==
    \/ file[f] = "absent"
    \/ delvff /\ \A d \in Fds : nandfd[d] # f

VFF_CreateVFF(f, delvff, refused) ==
    /\ MayCreate(f, delvff) /\ FreeFds # {}
    /\ file' = [file EXCEPT ![f] = IF refused = None THEN "whole" ELSE "cut"]
    /\ created' = IF CreateSucceeds(refused) THEN created \cup {f} ELSE created \ {f}
    /\ UNCHANGED <<nandfd, volumes, fs, fil, table, wild, manners>>
    /\ reached' = NoIO

\* The power goes: in VFF_CreateVFF, or anywhere else.
PowerOff(cut) ==
    /\ \A f \in cut : MayCreate(f, TRUE)
    /\ file' = [f \in Files |-> IF f \in cut THEN "cut" ELSE file[f]]
    /\ created' = created \ cut
    /\ nandfd' = [d \in Fds |-> None]
    /\ vff_totalmountedfs' = 0
    /\ disk_vff_handles' = [i \in Drive |-> None]
    /\ vffoptab_devmntname' = [i \in Drive |-> None]
    /\ vffoptab_dev' = [i \in Drive |-> "never"]
    /\ device' = [n \in Names |-> None]
    /\ fs' = [type |-> "unregistered", id |-> 0]
    /\ fil' = [a \in Addresses |-> None]
    /\ vffoptab_fds' = [s \in Slots |-> None]
    /\ vffoptab_fd_paths' = [s \in Slots |-> None]
    /\ lost' = 0 /\ wild' = FALSE /\ ordered' = TRUE /\ single' = TRUE /\ reached' = NoIO

-----------------------------------------------------------------------------
(***************************************************************************)
(* Volumes                                                                 *)
(***************************************************************************)

LiveNames == {vffoptab_devmntname[i] : i \in {j \in Drive : j < vff_totalmountedfs}}

\* Mutant: the object stays as the last volume left it.
FsKept(i) == IF i = 0 /\ fs.type = "unregistered" THEN [fs EXCEPT !.type = "clear"] ELSE fs

\* fvff_mount(0): the file objects of earlier mounts become invalid.
FsAfterMount(i) == IF i = 0 THEN [fs EXCEPT !.type = "clear"] ELSE fs

\* VFF_Mount sets vffoptab_fds to zero when the first volume is mounted.
ClearsFds == vff_totalmountedfs = 0

MountFails(f) == file[f] = "absent" \/ FreeFds = {}

\* disk_vff_handles gets the result of ISFS_Open before it is looked at.
VFF_MountRefused(f) ==
    LET i == vff_totalmountedfs IN
    /\ i \in Drive /\ MountFails(f)
    /\ disk_vff_handles' = [disk_vff_handles EXCEPT ![i] = None]
    /\ UNCHANGED <<media, nandfd, vff_totalmountedfs, vffoptab_devmntname, vffoptab_dev, device,
                   fs, fil, table, wild, manners>>
    /\ reached' = NoIO

\* d is the descriptor ISFS_Open returns.
VFF_MountOK(f, d) ==
    LET i == vff_totalmountedfs IN
    /\ i \in Drive /\ ~MountFails(f) /\ d \in FreeFds
    /\ nandfd' = [nandfd EXCEPT ![d] = f]
    /\ disk_vff_handles' = [disk_vff_handles EXCEPT ![i] = d]
    /\ fs' = FsAfterMount(i)
    /\ vffoptab_devmntname' = [vffoptab_devmntname EXCEPT ![i] = NameOf[f]]
    /\ device' = [device EXCEPT ![NameOf[f]] = f]
    /\ vffoptab_dev' = [vffoptab_dev EXCEPT ![i] = "added"]
    /\ vff_totalmountedfs' = i + 1
    /\ IF ClearsFds
       THEN /\ vffoptab_fds' = [s \in Slots |-> None]
            /\ fil' = [a \in Addresses |-> IF fil[a] = None THEN None ELSE [fil[a] EXCEPT !.since = FALSE]]
            /\ lost' = 0
       ELSE UNCHANGED <<vffoptab_fds, fil, lost>>
    /\ ordered' = (ordered /\ NameOf[f] \notin LiveNames)
    /\ single' = (single /\ i = 0)
    /\ UNCHANGED <<media, vffoptab_fd_paths, wild>>
    /\ reached' = NoIO

\* disk_vff_handles is written in front of or behind its end.
VFF_MountWild ==
    /\ vff_totalmountedfs \notin Drive
    /\ wild' = TRUE /\ ordered' = FALSE /\ single' = FALSE
    /\ UNCHANGED <<media, nandfd, volumes, fs, fil, table>>
    /\ reached' = NoIO

\* Mutant: the names are searched from the end of the table.
SlotFromEnd(n) ==
    LET named == {i \in Drive : vffoptab_devmntname[i] = n}
    IN  IF named # {} THEN Max(named) ELSE vff_totalmountedfs

\* The slot VFF_Unmount takes: the first of that name, or the one behind the last.
UnmountSlot(n) ==
    LET named == {i \in Drive : i < vff_totalmountedfs /\ vffoptab_devmntname[i] = n}
    IN  IF named # {} THEN Min(named) ELSE IF vff_totalmountedfs < 0 THEN 0 ELSE vff_totalmountedfs

\* It is the volume mounted last: what ordered asks of an unmount.
IsLast(n) == vff_totalmountedfs > 0 /\ vffoptab_devmntname[vff_totalmountedfs - 1] = n

VFF_Unmount(n) ==
    LET i == UnmountSlot(n)
        d == disk_vff_handles[i]
        ok == i \in Drive /\ vffoptab_dev[i] = "added"
    IN  /\ vff_totalmountedfs' = vff_totalmountedfs - 1
        /\ ordered' = (ordered /\ IsLast(n))
        /\ single' = (single /\ IsLast(n))
        /\ wild' = ~ok
        /\ IF ok
           THEN /\ nandfd' = IF d = None THEN nandfd ELSE [nandfd EXCEPT ![d] = None]
                /\ device' = [device EXCEPT ![n] = None]
                /\ vffoptab_dev' = [vffoptab_dev EXCEPT ![i] = "freed"]
           ELSE UNCHANGED <<nandfd, device, vffoptab_dev>>
        /\ UNCHANGED <<media, disk_vff_handles, vffoptab_devmntname, fs, fil, table>>
        /\ reached' = NoIO

-----------------------------------------------------------------------------
(***************************************************************************)
(* FatFs and the sectors below it.  A path never names a drive, so that    *)
(* every operation goes to drive 0 whatever device it was called for.      *)
(***************************************************************************)

\* Where a sector of drive 0 is read or written.
At == IF disk_vff_handles[0] = None THEN None ELSE nandfd[disk_vff_handles[0]]
IO(home) == [home |-> home, at |-> At]

\* Mutant: a volume mounted again keeps its id.
SameIds ==
    CASE fs.type # "unregistered" -> {[fs EXCEPT !.type = "mounted"]}
      [] OTHER -> {}

\* disk_initialize, and only it, looks at the number of volumes: disk_status
\* without a volume returns STA_NODISK, which FatFs does not test.
Initialized == vff_totalmountedfs > 0 /\ At # None

\* chk_mounted: the object as it is, or bound to drive 0 with a new id.
ChkMounted ==
    CASE fs.type = "mounted" -> {fs}
      [] fs.type = "clear" /\ Initialized /\ fs.id < MaxFsid -> {[type |-> "mounted", id |-> fs.id + 1]}
      [] OTHER -> {}

Validate(o) == fs.type = "mounted" /\ fs.id = o.id

-----------------------------------------------------------------------------
(***************************************************************************)
(* The devoptab device.  a is where newlib has put the file object.        *)
(***************************************************************************)

\* Mutant: the first slot is taken without a look.
AnySlot == Slots

EmptySlots == {s \in Slots : vffoptab_fds[s] = None}
SlotsOf(a) == {s \in Slots : vffoptab_fds[s] = a}

\* Open p through device n; new: it is created.  EMFILE leaves all as it was.
_VFF_open_r(n, a, p, new) ==
    LET s == Min(EmptySlots) IN
    /\ device[n] # None /\ fil[a] = None /\ EmptySlots # {}
    /\ \E f \in ChkMounted :
        /\ fs' = f
        /\ \/ /\ At \in Files
              /\ fil' = [fil EXCEPT ![a] = [home |-> device[n], id |-> f.id, written |-> new,
                                            path |-> p, since |-> TRUE]]
              /\ vffoptab_fds' = [vffoptab_fds EXCEPT ![s] = a]
              /\ vffoptab_fd_paths' = [vffoptab_fd_paths EXCEPT ![s] = p]
           \/ UNCHANGED <<fil, vffoptab_fds, vffoptab_fd_paths>>   \* no such file
    /\ reached' = IO(device[n])
    /\ UNCHANGED <<media, nandfd, volumes, lost, wild, manners>>

\* _VFF_read_r, _VFF_write_r and _VFF_ftruncate_r.
Transfer(a, write) ==
    LET o == fil[a] IN
    /\ o # None /\ Validate(o)
    /\ fil' = [fil EXCEPT ![a].written = @ \/ (write /\ At # None)]
    /\ reached' = IO(o.home)
    /\ single' = (single /\ vff_totalmountedfs > 0)
    /\ UNCHANGED <<media, nandfd, volumes, fs, table, wild, ordered>>

\* fvff_sync writes the directory entry of a file that was written, and then
\* fails, because disk_ioctl does not know CTRL_SYNC.
SyncWrites(o) == Validate(o) /\ o.written
SyncOK(o) == Validate(o) /\ ~o.written

_VFF_fsync_r(a) ==
    LET o == fil[a] IN
    /\ o # None /\ SyncWrites(o)
    /\ fil' = [fil EXCEPT ![a].written = At = None]
    /\ reached' = IO(o.home)
    /\ single' = (single /\ vff_totalmountedfs > 0)
    /\ UNCHANGED <<media, nandfd, volumes, fs, table, wild, ordered>>

\* newlib frees the file object whatever this returns.
_VFF_close_r(a) ==
    LET o == fil[a]
        found == SlotsOf(a) # {}
    IN  /\ o # None /\ (found => SyncOK(o) \/ lost < MaxLost)
        /\ fil' = [fil EXCEPT ![a] = None]
        /\ vffoptab_fds' = IF found /\ SyncOK(o) THEN [vffoptab_fds EXCEPT ![Min(SlotsOf(a))] = None]
                           ELSE vffoptab_fds
        /\ lost' = IF found /\ ~SyncOK(o) THEN lost + 1 ELSE lost
        /\ reached' = IF found /\ SyncWrites(o) THEN IO(o.home) ELSE NoIO
        /\ single' = (single /\ (found /\ SyncWrites(o) => vff_totalmountedfs > 0))
        /\ UNCHANGED <<media, nandfd, volumes, fs, vffoptab_fd_paths, wild, ordered>>

\* The program's other files on the NAND: the download list, the mail configuration.
OtherOpen(d) ==
    /\ d \in FreeFds /\ \A b \in Fds : nandfd[b] # "other"
    /\ nandfd' = [nandfd EXCEPT ![d] = "other"]
    /\ UNCHANGED <<media, volumes, fs, fil, table, wild, manners>>
    /\ reached' = NoIO

OtherClose(d) ==
    /\ nandfd[d] = "other"
    /\ nandfd' = [nandfd EXCEPT ![d] = None]
    /\ UNCHANGED <<media, volumes, fs, fil, table, wild, manners>>
    /\ reached' = NoIO

Call ==
    \/ \E f \in Own, delvff \in BOOLEAN, refused \in Writes \cup {None} : VFF_CreateVFF(f, delvff, refused)
    \/ \E f \in Files : VFF_MountRefused(f)
    \/ \E f \in Files, d \in Fds : VFF_MountOK(f, d)
    \/ VFF_MountWild
    \/ \E n \in Names : VFF_Unmount(n)
    \/ \E n \in Names, a \in Addresses, p \in Paths, new \in BOOLEAN : _VFF_open_r(n, a, p, new)
    \/ \E a \in Addresses, write \in BOOLEAN : Transfer(a, write)
    \/ \E a \in Addresses : _VFF_fsync_r(a) \/ _VFF_close_r(a)
    \/ \E d \in Fds : OtherOpen(d) \/ OtherClose(d)

Next ==
    \/ ~wild /\ Call
    \/ \E cut \in {{}} \cup {{f} : f \in Own} : PowerOff(cut)

Spec == Init /\ [][Next]_vars

-----------------------------------------------------------------------------
(***************************************************************************)
(* Properties                                                              *)
(***************************************************************************)

\* While volumes are unmounted in the reverse order, VFF_Mount and VFF_Unmount
\* (vff.c:313, :353) keep a stack: nothing freed is used, each volume has a
\* descriptor of its own, open on the file its device was added for, and no
\* other descriptor stays open.  A file VFF_CreateVFF reported as created was
\* written as a whole, though it writes on after a failure (vff.c:232, :246).
VolumesStacked ==
    /\ TypeOK
    /\ \A f \in created : file[f] = "whole"
    /\ ordered =>
        /\ ~wild /\ vff_totalmountedfs \in 0 .. Drives
        /\ \A i \in Drive : i < vff_totalmountedfs =>
            /\ vffoptab_dev[i] = "added" /\ disk_vff_handles[i] \in Fds
            /\ nandfd[disk_vff_handles[i]] \in Files
            /\ NameOf[nandfd[disk_vff_handles[i]]] = vffoptab_devmntname[i]
            /\ device[vffoptab_devmntname[i]] = nandfd[disk_vff_handles[i]]
        /\ \A i, j \in Drive : i < j /\ j < vff_totalmountedfs =>
            /\ disk_vff_handles[i] # disk_vff_handles[j]
            /\ vffoptab_devmntname[i] # vffoptab_devmntname[j]
        /\ \A d \in Fds : nandfd[d] \in Files =>
            \E i \in Drive : i < vff_totalmountedfs /\ disk_vff_handles[i] = d

\* With one volume at a time, file operations reach the NAND file their device
\* or file object belongs to, or none: a file object left over from an earlier
\* volume is never used on the one mounted now (ff.c:1865, :1823), nor on a
\* file that has got the descriptor.  single ends with a file operation while no
\* volume is mounted: then a file object left over does reach whatever file has the
\* descriptor, so the claim is of the time after the next mount.
HandlesStayHome == single => reached.at \in {reached.home, None}

\* A slot of vffoptab_fds is taken exactly for a file opened since the table was
\* cleared, or for one whose close failed (vff.c:500); unless one did, _VFF_fstat_r
\* (vff.c:556) finds the path a file was opened under.
SlotsAccounted ==
    LET open == {a \in Addresses : fil[a] # None /\ fil[a].since} IN
    /\ Cardinality({s \in Slots : vffoptab_fds[s] # None}) = Cardinality(open) + lost
    /\ lost = 0 => \A a \in open : /\ SlotsOf(a) # {}
                                   /\ vffoptab_fd_paths[Min(SlotsOf(a))] = fil[a].path
=============================================================================
