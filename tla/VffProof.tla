------------------------------ MODULE VffProof ------------------------------
(***************************************************************************)
(* Proofs about VFF volumes and open files, for any number of VFF files,   *)
(* names, drives, descriptors, slots and file objects.                     *)
(***************************************************************************)
EXTENDS Vff, FiniteSetTheorems, WellFoundedInduction, TLAPS

-----------------------------------------------------------------------------
(* Operators *)

\* Min picks a member.
LEMMA MinIsMember ==
    ASSUME NEW S \in SUBSET Nat, S # {}
    PROVE  Min(S) \in S
<1>1. PICK x \in S : \A y \in S : ~(<<y, x>> \in OpToRel(<, Nat))
    BY WFMin, NatLessThanWellFounded, Zenon
<1>2. \A y \in S : ~(y < x)
    <2> SUFFICES ASSUME NEW y \in S, y < x PROVE FALSE
        OBVIOUS
    <2>1. y \in Nat /\ x \in Nat
        OBVIOUS
    <2>2. <<y, x>> \in OpToRel(<, Nat)
        BY <2>1 DEF OpToRel
    <2> QED  BY <1>1, <2>2, Zenon
<1>3. \A y \in S : x <= y
    BY <1>2
<1> QED  BY <1>3 DEF Min

\* The operators of FatFs and of the table have their types.
LEMMA AtType == ASSUME TypeOK PROVE At \in Files \cup {"other", None}
BY VffConstants DEF TypeOK, At, Drive

LEMMA ChkMountedType ==
    ASSUME TypeOK, NEW f \in ChkMounted
    PROVE  /\ f \in [type : {"unregistered", "clear", "mounted"}, id : Nat]
           /\ f.type = "mounted" /\ f.id >= fs.id
           /\ fs.type = "mounted" => f = fs
           /\ fs.type # "mounted" => f.id > fs.id
BY DEF TypeOK, ChkMounted

-----------------------------------------------------------------------------
(* Types *)

MediaType == file \in [Files -> {"absent", "cut", "whole"}] /\ created \subseteq Files

LEMMA FreshType == MediaType /\ Fresh => TypeOK
<1> SUFFICES ASSUME MediaType, Fresh PROVE TypeOK
    OBVIOUS
<1>1. nandfd \in [Fds -> Files \cup {"other", None}] /\ device \in [Names -> Files \cup {None}]
    BY DEF Fresh
<1>2. /\ disk_vff_handles \in [Drive -> Fds \cup {None}]
      /\ vffoptab_devmntname \in [Drive -> Names \cup {None}]
      /\ vffoptab_dev \in [Drive -> {"never", "added", "freed"}]
    BY DEF Fresh
<1>3. /\ fs \in [type : {"unregistered", "clear", "mounted"}, id : Nat]
      /\ reached \in [home : Files \cup {None}, at : Files \cup {"other", None}]
    BY DEF Fresh, NoIO
<1>4. /\ fil \in [Addresses -> FileObjects \cup {None}]
      /\ vffoptab_fds \in [Slots -> Addresses \cup {None}]
      /\ vffoptab_fd_paths \in [Slots -> Paths \cup {None}]
    BY DEF Fresh
<1>5. vff_totalmountedfs \in Int /\ lost \in Nat
    BY DEF Fresh
<1>6. wild \in BOOLEAN /\ ordered \in BOOLEAN /\ single \in BOOLEAN
    BY Zenon DEF Fresh
<1> QED  BY <1>1, <1>2, <1>3, <1>4, <1>5, <1>6 DEF MediaType, TypeOK

LEMMA TypeInit == Init => TypeOK
<1>1. Init => file \in [Files -> {"absent", "cut", "whole"}]
    BY DEF Init
<1>2. Init => created \subseteq Files
    BY Zenon DEF Init
<1> QED  BY <1>1, <1>2, FreshType DEF Init, MediaType

\* So does a loss of power.
LEMMA PowerOffFresh == ASSUME NEW cut, PowerOff(cut) PROVE Fresh'
BY DEF PowerOff, Fresh, NoIO

\* A step keeps the types.
LEMMA TypeStep == TypeOK /\ [Next]_vars => TypeOK'
<1> SUFFICES ASSUME TypeOK, [Next]_vars PROVE TypeOK'
    OBVIOUS
<1> USE VffConstants, AtType
<1>1. ASSUME NEW f \in Own, NEW delvff \in BOOLEAN, NEW refused \in Writes \cup {None},
             VFF_CreateVFF(f, delvff, refused)
      PROVE  TypeOK'
    BY <1>1 DEF VFF_CreateVFF, TypeOK, volumes, table, manners, NoIO
<1>2. ASSUME NEW f \in Files, VFF_MountRefused(f) PROVE TypeOK'
    BY <1>2 DEF VFF_MountRefused, TypeOK, media, table, manners, NoIO
<1>3. ASSUME NEW f \in Files, NEW d \in Fds, VFF_MountOK(f, d) PROVE TypeOK'
    <2>1. FsAfterMount(vff_totalmountedfs) \in [type : {"unregistered", "clear", "mounted"}, id : Nat]
        BY DEF FsAfterMount, TypeOK
    <2>2. \A o \in FileObjects : [o EXCEPT !.since = FALSE] \in FileObjects
        BY DEF FileObjects
    <2>3. fil' \in [Addresses -> FileObjects \cup {None}] /\ lost' \in Nat
          /\ vffoptab_fds' \in [Slots -> Addresses \cup {None}]
        BY <1>3, <2>2 DEF VFF_MountOK, TypeOK
    <2> QED  BY <1>3, <2>1, <2>3 DEF VFF_MountOK, TypeOK, media, NoIO, LiveNames, Drive
<1>4. CASE VFF_MountWild
    BY <1>4 DEF VFF_MountWild, TypeOK, media, volumes, table, NoIO
<1>5. ASSUME NEW n \in Names, VFF_Unmount(n) PROVE TypeOK'
    BY <1>5 DEF VFF_Unmount, TypeOK, media, table, NoIO, IsLast
<1>6. ASSUME NEW n \in Names, NEW a \in Addresses, NEW p \in Paths, NEW new \in BOOLEAN,
             _VFF_open_r(n, a, p, new)
      PROVE  TypeOK'
    <2>1. PICK f \in ChkMounted : fs' = f /\
            (\/ /\ fil' = [fil EXCEPT ![a] = [home |-> device[n], id |-> f.id, written |-> new,
                                              path |-> p, since |-> TRUE]]
                /\ vffoptab_fds' = [vffoptab_fds EXCEPT ![Min(EmptySlots)] = a]
                /\ vffoptab_fd_paths' = [vffoptab_fd_paths EXCEPT ![Min(EmptySlots)] = p]
             \/ UNCHANGED <<fil, vffoptab_fds, vffoptab_fd_paths>>)
        BY <1>6, Zenon DEF _VFF_open_r
    <2>2. f \in [type : {"unregistered", "clear", "mounted"}, id : Nat] /\ device[n] \in Files
        BY <1>6, ChkMountedType DEF _VFF_open_r, TypeOK
    <2>3. fil' \in [Addresses -> FileObjects \cup {None}]
        <3>1. [home |-> device[n], id |-> f.id, written |-> new, path |-> p, since |-> TRUE]
              \in FileObjects
            BY <2>2 DEF FileObjects
        <3> QED  BY <2>1, <3>1 DEF TypeOK
    <2>4. vffoptab_fds' \in [Slots -> Addresses \cup {None}]
          /\ vffoptab_fd_paths' \in [Slots -> Paths \cup {None}]
        BY <2>1 DEF TypeOK
    <2> QED  BY <1>6, <2>1, <2>2, <2>3, <2>4 DEF _VFF_open_r, TypeOK, media, volumes, manners, IO
<1>7. ASSUME NEW a \in Addresses, NEW write \in BOOLEAN, Transfer(a, write) PROVE TypeOK'
    <2>1. fil[a] \in FileObjects
        BY <1>7 DEF Transfer, TypeOK
    <2>2. fil' \in [Addresses -> FileObjects \cup {None}]
        <3>1. [fil[a] EXCEPT !.written = @ \/ (write /\ At # None)] \in FileObjects
            BY <2>1 DEF FileObjects
        <3> QED  BY <1>7, <3>1 DEF Transfer, TypeOK
    <2> QED  BY <1>7, <2>1, <2>2 DEF Transfer, TypeOK, FileObjects, media, volumes, table, IO
<1>8. ASSUME NEW a \in Addresses, _VFF_fsync_r(a) PROVE TypeOK'
    <2>1. fil[a] \in FileObjects
        BY <1>8 DEF _VFF_fsync_r, TypeOK
    <2>2. fil' \in [Addresses -> FileObjects \cup {None}]
        <3>1. [fil[a] EXCEPT !.written = At = None] \in FileObjects
            BY <2>1 DEF FileObjects
        <3> QED  BY <1>8, <3>1 DEF _VFF_fsync_r, TypeOK
    <2> QED  BY <1>8, <2>1, <2>2 DEF _VFF_fsync_r, TypeOK, FileObjects, media, volumes, table, IO
<1>9. ASSUME NEW a \in Addresses, _VFF_close_r(a) PROVE TypeOK'
    <2>1. fil[a] \in FileObjects
        BY <1>9 DEF _VFF_close_r, TypeOK
    <2>2. reached' \in [home : Files \cup {None}, at : Files \cup {"other", None}]
        BY <1>9, <2>1 DEF _VFF_close_r, FileObjects, IO, NoIO
    <2>3. fil' \in [Addresses -> FileObjects \cup {None}]
        BY <1>9 DEF _VFF_close_r, TypeOK
    <2>4. vffoptab_fds' \in [Slots -> Addresses \cup {None}]
        BY <1>9 DEF _VFF_close_r, TypeOK
    <2>5. lost' \in {lost, lost + 1}
        BY <1>9 DEF _VFF_close_r
    <2> QED  BY <1>9, <2>2, <2>3, <2>4, <2>5 DEF _VFF_close_r, TypeOK, media, volumes
<1>10. ASSUME NEW d \in Fds, OtherOpen(d) PROVE TypeOK'
    BY <1>10 DEF OtherOpen, TypeOK, media, volumes, table, manners, NoIO
<1>11. ASSUME NEW d \in Fds, OtherClose(d) PROVE TypeOK'
    BY <1>11 DEF OtherClose, TypeOK, media, volumes, table, manners, NoIO
<1>12. ASSUME NEW cut, PowerOff(cut) PROVE TypeOK'
    <2>1. Fresh'
        BY <1>12, PowerOffFresh
    <2>2. MediaType'
        BY <1>12 DEF PowerOff, TypeOK, MediaType
    <2> QED  BY <2>1, <2>2, FreshType, PTL
<1>13. CASE UNCHANGED vars
    BY <1>13 DEF vars, media, volumes, table, manners, TypeOK
<1> QED  BY <1>1, <1>2, <1>3, <1>4, <1>5, <1>6, <1>7, <1>8, <1>9, <1>10, <1>11, <1>12, <1>13
         DEF Next, Call
-----------------------------------------------------------------------------
(* Volumes *)

Whole == \A f \in created : file[f] = "whole"
Live == {i \in Drive : i < vff_totalmountedfs}

\* The parts of VolumesStacked.
VolumeOf(i) ==
    /\ vffoptab_dev[i] = "added" /\ disk_vff_handles[i] \in Fds
    /\ nandfd[disk_vff_handles[i]] \in Files
    /\ NameOf[nandfd[disk_vff_handles[i]]] = vffoptab_devmntname[i]
    /\ device[vffoptab_devmntname[i]] = nandfd[disk_vff_handles[i]]
Apart(i, j) ==
    /\ disk_vff_handles[i] # disk_vff_handles[j]
    /\ vffoptab_devmntname[i] # vffoptab_devmntname[j]
Stack ==
    /\ ~wild /\ vff_totalmountedfs \in 0 .. Drives
    /\ \A i \in Live : VolumeOf(i)
    /\ \A i, j \in Live : i < j => Apart(i, j)
    /\ \A d \in Fds : nandfd[d] \in Files => \E i \in Live : disk_vff_handles[i] = d

LEMMA StackedParts == VolumesStacked <=> TypeOK /\ Whole /\ (ordered => Stack)
<1>1. VolumesStacked => TypeOK /\ Whole /\ (ordered => Stack)
    BY DEF VolumesStacked, Whole, Stack, VolumeOf, Apart, Live
<1>2. ASSUME TypeOK, Whole, ordered => Stack PROVE VolumesStacked
    <2>1. \A i, j \in Drive : i < j /\ j < vff_totalmountedfs /\ TypeOK => i < vff_totalmountedfs
        BY VffConstants DEF Drive, TypeOK
    <2> QED  BY <1>2, <2>1 DEF VolumesStacked, Whole, Stack, VolumeOf, Apart, Live
<1> QED  BY <1>1, <1>2

\* What VFF_CreateVFF reported as created was written to the end.
LEMMA WholeStep == TypeOK /\ Whole /\ [Next]_vars => Whole'
<1> SUFFICES ASSUME TypeOK, Whole, [Next]_vars PROVE Whole'
    OBVIOUS
<1>1. ASSUME NEW f \in Own, NEW delvff \in BOOLEAN, NEW refused \in Writes \cup {None},
             VFF_CreateVFF(f, delvff, refused)
      PROVE  Whole'
    <2>1. CreateSucceeds(refused) => refused = None
        BY DEF CreateSucceeds, ClosesOn, Writes
    <2> QED  BY <1>1, <2>1, VffConstants DEF VFF_CreateVFF, TypeOK, Whole
<1>2. ASSUME NEW cut, PowerOff(cut) PROVE Whole'
    BY <1>2 DEF PowerOff, TypeOK, Whole
<1>3. ASSUME UNCHANGED media PROVE Whole'
    BY <1>3 DEF media, Whole
<1>4. ASSUME NEW f \in Files, VFF_MountRefused(f) \/ (\E d \in Fds : VFF_MountOK(f, d))
      PROVE  UNCHANGED media
    BY <1>4 DEF VFF_MountRefused, VFF_MountOK, media
<1>5. ASSUME NEW n \in Names, VFF_Unmount(n) PROVE UNCHANGED media
    BY <1>5 DEF VFF_Unmount, media
<1>6. ASSUME NEW n \in Names, NEW a \in Addresses, NEW p \in Paths, NEW new \in BOOLEAN,
             _VFF_open_r(n, a, p, new)
      PROVE  UNCHANGED media
    BY <1>6 DEF _VFF_open_r, media
<1>7. ASSUME NEW a \in Addresses, NEW write \in BOOLEAN,
             Transfer(a, write) \/ _VFF_fsync_r(a) \/ _VFF_close_r(a)
      PROVE  UNCHANGED media
    BY <1>7 DEF Transfer, _VFF_fsync_r, _VFF_close_r, media
<1>8. ASSUME NEW d \in Fds, OtherOpen(d) \/ OtherClose(d) PROVE UNCHANGED media
    BY <1>8 DEF OtherOpen, OtherClose, media
<1>9. VFF_MountWild => UNCHANGED media
    BY DEF VFF_MountWild, media
<1>10. UNCHANGED vars => UNCHANGED media
    BY DEF vars, media
<1> QED  BY <1>1, <1>2, <1>3, <1>4, <1>5, <1>6, <1>7, <1>8, <1>9, <1>10 DEF Next, Call

\* Steps that leave the volumes and their descriptors alone.
LEMMA StackKept ==
    ASSUME Stack, UNCHANGED <<volumes, nandfd, wild>>
    PROVE  Stack'
BY DEF volumes, Stack, Live, VolumeOf, Apart

\* A volume mounted under a name of its own is put on top.
LEMMA StackMount ==
    ASSUME TypeOK, Stack, NEW f \in Files, NEW d \in Fds, VFF_MountOK(f, d), NameOf[f] \notin LiveNames
    PROVE  Stack'
<1> USE VffConstants DEF Drive
<1> PICK k : k = vff_totalmountedfs
    OBVIOUS
<1>1. /\ k \in Drive /\ nandfd[d] = None /\ vff_totalmountedfs' = k + 1 /\ ~wild'
      /\ nandfd' = [nandfd EXCEPT ![d] = f]
      /\ disk_vff_handles' = [disk_vff_handles EXCEPT ![k] = d]
      /\ vffoptab_devmntname' = [vffoptab_devmntname EXCEPT ![k] = NameOf[f]]
      /\ device' = [device EXCEPT ![NameOf[f]] = f]
      /\ vffoptab_dev' = [vffoptab_dev EXCEPT ![k] = "added"]
    BY DEF VFF_MountOK, Stack, FreeFds
<1>2. Live' = Live \cup {k} /\ k \notin Live
    BY <1>1 DEF Live, TypeOK
<1>3. NameOf[f] \in Names /\ f # None
    OBVIOUS
<1>4. \A i \in Live : disk_vff_handles[i] # d /\ vffoptab_devmntname[i] # NameOf[f]
    BY <1>1 DEF Stack, VolumeOf, Live, LiveNames
<1>5. \A i \in Live : VolumeOf(i)'
    BY <1>1, <1>2, <1>4 DEF Stack, VolumeOf, TypeOK, Live
<1>6. VolumeOf(k)'
    BY <1>1, <1>3 DEF VolumeOf, TypeOK
<1>7. \A i, j \in Live' : i < j => Apart(i, j)'
    <2>1. \A i, j \in Live : i < j => Apart(i, j)'
        BY <1>1, <1>2 DEF Stack, Apart, TypeOK, Live
    <2>2. \A i \in Live : Apart(i, k)'
        BY <1>1, <1>2, <1>4 DEF Apart, TypeOK, Live
    <2>3. \A j \in Live : ~(k < j)
        BY <1>1 DEF Live
    <2> QED  BY <1>1, <1>2, <2>1, <2>2, <2>3
<1>8. \A b \in Fds : nandfd'[b] \in Files => \E i \in Live' : disk_vff_handles'[i] = b
    <2> SUFFICES ASSUME NEW b \in Fds, nandfd'[b] \in Files PROVE \E i \in Live' : disk_vff_handles'[i] = b
        OBVIOUS
    <2>1. CASE b = d
        BY <1>1, <1>2, <2>1 DEF TypeOK
    <2>2. CASE b # d
        <3>1. PICK i \in Live : disk_vff_handles[i] = b
            BY <1>1, <2>2 DEF Stack, TypeOK
        <3> QED  BY <1>1, <1>2, <3>1 DEF TypeOK, Live
    <2> QED  BY <2>1, <2>2
<1>9. k + 1 \in 0 .. Drives
    BY <1>1 DEF TypeOK
<1> QED  BY <1>1, <1>2, <1>5, <1>6, <1>7, <1>8, <1>9 DEF Stack

\* The slot of the volume mounted last is found by its name.
LEMMA SlotOfLast ==
    ASSUME TypeOK, Stack, NEW n \in Names, IsLast(n)
    PROVE  UnmountSlot(n) = vff_totalmountedfs - 1 /\ UnmountSlot(n) \in Live
<1> USE VffConstants DEF Drive
<1> DEFINE k == vff_totalmountedfs - 1
           named == {i \in Drive : i < vff_totalmountedfs /\ vffoptab_devmntname[i] = n}
<1>1. k \in Live /\ k \in named
    BY DEF Stack, IsLast, Live
<1>2. \A i \in named : i = k
    <2> SUFFICES ASSUME NEW i \in named, i # k PROVE FALSE
        OBVIOUS
    <2>1. i \in Live /\ i < k
        BY DEF Stack, Live
    <2>2. Apart(i, k)
        BY <1>1, <2>1 DEF Stack
    <2> QED  BY <2>2 DEF Apart, IsLast
<1>3. named = {k} /\ k \in Nat
    BY <1>1, <1>2 DEF Live
<1>4. Min({k}) = k
    BY <1>3, MinIsMember
<1>5. UnmountSlot(n) = Min(named)
    BY <1>1 DEF UnmountSlot
<1> QED  BY <1>1, <1>3, <1>4, <1>5

\* Unmounting the volume mounted last takes it off.
LEMMA StackUnmount ==
    ASSUME TypeOK, Stack, NEW n \in Names, VFF_Unmount(n), IsLast(n)
    PROVE  Stack'
<1> USE VffConstants DEF Drive
<1> DEFINE k == vff_totalmountedfs - 1
           d == disk_vff_handles[k]
<1>1. UnmountSlot(n) = k /\ k \in Live /\ VolumeOf(k)
    BY SlotOfLast DEF Stack
<1>2. d \in Fds /\ d # None /\ vffoptab_dev[k] = "added" /\ vffoptab_devmntname[k] = n /\ k \in Drive
    BY <1>1 DEF VolumeOf, Live, IsLast
<1>3. /\ vff_totalmountedfs' = k /\ ~wild'
      /\ nandfd' = [nandfd EXCEPT ![d] = None]
      /\ device' = [device EXCEPT ![n] = None]
      /\ vffoptab_dev' = [vffoptab_dev EXCEPT ![k] = "freed"]
      /\ UNCHANGED <<disk_vff_handles, vffoptab_devmntname>>
    BY <1>1, <1>2 DEF VFF_Unmount
<1>4. Live' = Live \ {k} /\ \A i \in Live' : i < k /\ i \in Live /\ i \in Drive
    <2>1. k \in Int /\ vff_totalmountedfs = k + 1 /\ Live' = {i \in Drive : i < k}
        BY <1>3 DEF Live, TypeOK
    <2> QED  BY <2>1 DEF Live
<1>5. \A i \in Live' : disk_vff_handles[i] # d /\ vffoptab_devmntname[i] # n
    BY <1>1, <1>2, <1>4 DEF Stack, Apart
<1>6. \A i \in Live' : VolumeOf(i)'
    BY <1>3, <1>4, <1>5 DEF Stack, VolumeOf, TypeOK
<1>7. \A i, j \in Live' : i < j => Apart(i, j)'
    BY <1>3, <1>4 DEF Stack, Apart
<1>8. \A b \in Fds : nandfd'[b] \in Files => \E i \in Live' : disk_vff_handles'[i] = b
    BY <1>2, <1>3, <1>4 DEF Stack, TypeOK
<1>9. k \in 0 .. Drives
    BY <1>2 DEF Stack, TypeOK
<1> QED  BY <1>3, <1>6, <1>7, <1>8, <1>9 DEF Stack
LEMMA StackFresh == Fresh => Stack
BY VffConstants DEF Fresh, Stack, Live, Drive

\* A step keeps the stack, as long as it is one the application may take.
LEMMA StackStep == TypeOK /\ (ordered => Stack) /\ [Next]_vars => (ordered => Stack)'
<1> SUFFICES ASSUME TypeOK, ordered => Stack, [Next]_vars, ordered' PROVE Stack'
    OBVIOUS
<1>1. ASSUME NEW f \in Own, NEW delvff \in BOOLEAN, NEW refused \in Writes \cup {None},
             VFF_CreateVFF(f, delvff, refused)
      PROVE  Stack'
    BY <1>1, StackKept DEF VFF_CreateVFF, manners
<1>2. ASSUME NEW f \in Files, VFF_MountRefused(f) PROVE Stack'
    <2>1. ordered /\ Stack
        BY <1>2 DEF VFF_MountRefused, manners
    <2>2. PICK k \in Drive : k = vff_totalmountedfs
        BY <1>2 DEF VFF_MountRefused
    <2>3. k \notin Live /\ Live' = Live
        BY <1>2, <2>2 DEF Live, VFF_MountRefused, TypeOK
    <2>4. \A i \in Live : disk_vff_handles'[i] = disk_vff_handles[i]
        BY <1>2, <2>2, <2>3 DEF VFF_MountRefused, TypeOK, Live
    <2> QED  BY <1>2, <2>1, <2>3, <2>4 DEF VFF_MountRefused, Stack, VolumeOf, Apart
<1>3. ASSUME NEW f \in Files, NEW d \in Fds, VFF_MountOK(f, d) PROVE Stack'
    <2>1. ordered /\ NameOf[f] \notin LiveNames
        BY <1>3 DEF VFF_MountOK
    <2> QED  BY <1>3, <2>1, StackMount
<1>4. CASE VFF_MountWild
    BY <1>4 DEF VFF_MountWild
<1>5. ASSUME NEW n \in Names, VFF_Unmount(n) PROVE Stack'
    <2>1. ordered /\ IsLast(n)
        BY <1>5 DEF VFF_Unmount
    <2> QED  BY <1>5, <2>1, StackUnmount
<1>6. ASSUME NEW n \in Names, NEW a \in Addresses, NEW p \in Paths, NEW new \in BOOLEAN,
             _VFF_open_r(n, a, p, new)
      PROVE  Stack'
    BY <1>6, StackKept DEF _VFF_open_r, manners
<1>7. ASSUME NEW a \in Addresses, NEW write \in BOOLEAN, Transfer(a, write) PROVE Stack'
    BY <1>7, StackKept DEF Transfer
<1>8. ASSUME NEW a \in Addresses, _VFF_fsync_r(a) PROVE Stack'
    BY <1>8, StackKept DEF _VFF_fsync_r
<1>9. ASSUME NEW a \in Addresses, _VFF_close_r(a) PROVE Stack'
    BY <1>9, StackKept DEF _VFF_close_r
<1>10. ASSUME NEW d \in Fds, OtherOpen(d) \/ OtherClose(d) PROVE Stack'
    <2>1. ordered /\ Stack /\ UNCHANGED <<volumes, wild>>
        BY <1>10 DEF OtherOpen, OtherClose, manners
    <2>2. \A b \in Fds : b # d => nandfd'[b] = nandfd[b]
        BY <1>10 DEF OtherOpen, OtherClose, TypeOK
    <2>3. nandfd[d] \notin Files /\ nandfd'[d] \notin Files
        BY <1>10, VffConstants DEF OtherOpen, OtherClose, FreeFds, TypeOK
    <2>4. \A i \in Live : disk_vff_handles[i] # d /\ disk_vff_handles[i] \in Fds
        BY <2>1, <2>3 DEF Stack, VolumeOf
    <2> QED  BY <2>1, <2>2, <2>3, <2>4 DEF volumes, Stack, Live, VolumeOf, Apart
<1>11. ASSUME NEW cut, PowerOff(cut) PROVE Stack'
    BY <1>11, PowerOffFresh, StackFresh, PTL
<1>12. CASE UNCHANGED vars
    BY <1>12, StackKept DEF vars, manners
<1> QED  BY <1>1, <1>2, <1>3, <1>4, <1>5, <1>6, <1>7, <1>8, <1>9, <1>10, <1>11, <1>12
         DEF Next, Call

\* The volumes are a stack as long as the application unmounts the last one
\* mounted (vff.c:313, :353), and what VFF_CreateVFF reported as created is
\* whole (vff.c:225).
THEOREM VolumesKept == Spec => []VolumesStacked
<1> DEFINE Inv == TypeOK /\ Whole /\ (ordered => Stack)
<1>1. Init => Inv
    BY TypeInit, StackFresh DEF Init, Whole
<1>2. Inv /\ [Next]_vars => Inv'
    BY TypeStep, WholeStep, StackStep
<1>3. Inv => VolumesStacked
    BY StackedParts
<1> QED  BY <1>1, <1>2, <1>3, PTL DEF Spec

-----------------------------------------------------------------------------
(* File objects *)

\* No file object has an id FatFs has not given out yet.
IdsGiven == \A a \in Addresses : fil[a] # None => fil[a].id <= fs.id

\* With one volume at a time the only device is its own, and the only file
\* objects FatFs takes for valid are those opened on it.
OneVolume ==
    /\ ordered /\ vff_totalmountedfs \in {0, 1}
    /\ \A n \in Names : device[n] # None => vff_totalmountedfs = 1 /\ n = vffoptab_devmntname[0]
    /\ vff_totalmountedfs = 1 =>
        \A a \in Addresses : fil[a] # None /\ Validate(fil[a]) => fil[a].home = At

HomeInv == IdsGiven /\ (single => OneVolume /\ reached.at \in {reached.home, None})
Base == TypeOK /\ (ordered => Stack)

\* The volume's device stands for the file its descriptor is open on.
LEMMA DeviceIsAt ==
    ASSUME Base, OneVolume, NEW n \in Names, device[n] # None
    PROVE  vff_totalmountedfs = 1 /\ device[n] = At
<1>1. vff_totalmountedfs = 1 /\ n = vffoptab_devmntname[0] /\ Stack
    BY DEF Base, OneVolume
<1>2. VolumeOf(0)
    BY <1>1, VffConstants DEF Stack, Live, Drive
<1> QED  BY <1>1, <1>2, VffConstants DEF VolumeOf, At, Drive

\* Steps without file I/O that leave the volumes and the file objects alone.
LEMMA HomeKept ==
    ASSUME HomeInv, UNCHANGED <<volumes, fs, fil, manners>>, reached' = NoIO, single => At' = At
    PROVE  HomeInv'
BY DEF HomeInv, IdsGiven, OneVolume, volumes, manners, Validate, NoIO

LEMMA HomeFresh == Fresh => HomeInv
BY DEF Fresh, HomeInv, IdsGiven, OneVolume, NoIO

\* A mount makes all file objects of earlier volumes invalid.
LEMMA HomeMount ==
    ASSUME Base, HomeInv, NEW f \in Files, NEW d \in Fds, VFF_MountOK(f, d)
    PROVE  HomeInv'
<1> USE VffConstants DEF Base
<1>1. fs'.id = fs.id /\ (vff_totalmountedfs = 0 => fs'.type = "clear")
    BY DEF VFF_MountOK, FsAfterMount, TypeOK
<1>2. \A a \in Addresses : fil'[a] # None => fil[a] # None /\ fil'[a].id = fil[a].id
    BY DEF VFF_MountOK, TypeOK, FileObjects
<1>3. IdsGiven'
    BY <1>1, <1>2 DEF HomeInv, IdsGiven
<1>4. ASSUME single' PROVE OneVolume'
    <2>0. single /\ vff_totalmountedfs = 0
        BY <1>4, Zenon DEF VFF_MountOK
    <2>1. /\ vff_totalmountedfs = 0 /\ vff_totalmountedfs' = 1 /\ fs'.type = "clear"
          /\ ordered /\ OneVolume
        BY <1>1, <2>0 DEF VFF_MountOK, HomeInv, OneVolume
    <2>2. ordered'
        <3>1. LiveNames = {}
            BY <2>1 DEF LiveNames, Drive
        <3> QED  BY <2>1, <3>1 DEF VFF_MountOK
    <2>3. \A n \in Names : device'[n] # None => n = vffoptab_devmntname'[0]
        BY <2>1 DEF VFF_MountOK, OneVolume, TypeOK, Drive
    <2> QED  BY <2>1, <2>2, <2>3 DEF OneVolume, Validate
<1> QED  BY <1>3, <1>4 DEF HomeInv, VFF_MountOK, NoIO

LEMMA HomeUnmount ==
    ASSUME Base, HomeInv, NEW n \in Names, VFF_Unmount(n)
    PROVE  HomeInv'
<1>1. IdsGiven'
    BY DEF VFF_Unmount, HomeInv, IdsGiven
<1>2. ASSUME single' PROVE OneVolume'
    <2>1. single /\ IsLast(n) /\ OneVolume /\ Stack
        BY <1>2 DEF VFF_Unmount, HomeInv, OneVolume, Base
    <2>0. vff_totalmountedfs = 1 /\ n = vffoptab_devmntname[0]
        BY <2>1 DEF IsLast, OneVolume
    <2>2. vff_totalmountedfs = 1 /\ n = vffoptab_devmntname[0] /\ vff_totalmountedfs' = 0
        BY <2>0 DEF VFF_Unmount
    <2>3. ~wild' /\ ordered'
        <3>1. Stack'
            BY <2>1, StackUnmount DEF Base
        <3>2. ordered'
            BY <2>1 DEF VFF_Unmount, OneVolume
        <3> QED  BY <3>1, <3>2 DEF Stack
    <2>4. device' = [device EXCEPT ![n] = None]
        BY <2>3 DEF VFF_Unmount
    <2> QED  BY <2>1, <2>2, <2>3, <2>4 DEF OneVolume, Base, TypeOK
<1> QED  BY <1>1, <1>2 DEF HomeInv, VFF_Unmount, NoIO

\* A file is opened through the device of the one volume, on that volume.
LEMMA HomeOpen ==
    ASSUME Base, HomeInv, NEW n \in Names, NEW a \in Addresses, NEW p \in Paths, NEW new \in BOOLEAN,
           _VFF_open_r(n, a, p, new)
    PROVE  HomeInv'
<1> USE DEF Base
<1>1. PICK f \in ChkMounted :
        /\ fs' = f
        /\ \/ fil' = [fil EXCEPT ![a] = [home |-> device[n], id |-> f.id, written |-> new,
                                         path |-> p, since |-> TRUE]]
           \/ fil' = fil
    BY Zenon DEF _VFF_open_r
<1>2. f.id \in Nat /\ f.id >= fs.id /\ (fs.type = "mounted" => f = fs)
      /\ (fs.type # "mounted" => f.id > fs.id)
    BY ChkMountedType
<1>3. \A b \in Addresses : fil[b] # None => fil[b].id \in Nat
    BY DEF TypeOK, FileObjects
<1>4. fs.id \in Nat
    BY DEF TypeOK
<1>5. \A b \in Addresses : b # a => fil'[b] = fil[b]
    BY <1>1 DEF TypeOK
<1>6. fil'[a] = fil[a] \/ (fil'[a].home = device[n] /\ fil'[a].id = f.id)
    BY <1>1 DEF TypeOK
<1>7. IdsGiven'
    BY <1>1, <1>2, <1>3, <1>4, <1>5, <1>6 DEF HomeInv, IdsGiven
<1>8. ASSUME single' PROVE OneVolume' /\ reached'.at = reached'.home
    <2>1. single /\ OneVolume /\ device[n] # None /\ UNCHANGED <<volumes, nandfd, ordered>>
        BY <1>8 DEF _VFF_open_r, manners, HomeInv
    <2>2. vff_totalmountedfs = 1 /\ device[n] = At /\ At' = At
        BY <2>1, DeviceIsAt DEF volumes, At
    <2>3. \A b \in Addresses : fil[b] # None /\ fil[b].id = f.id => fil[b].home = At
        BY <1>2, <1>3, <1>4, <2>1, <2>2 DEF OneVolume, Validate, HomeInv, IdsGiven
    <2>4. \A b \in Addresses : fil'[b] # None /\ fil'[b].id = f.id => fil'[b].home = At
        BY <1>5, <1>6, <2>2, <2>3
    <2> QED  BY <1>1, <2>1, <2>2, <2>4 DEF OneVolume, Validate, volumes, _VFF_open_r, IO
<1> QED  BY <1>7, <1>8 DEF HomeInv
\* File objects change in written only, and what is reached is the volume's
\* file, if the file object is valid.
LEMMA HomeTransfer ==
    ASSUME Base, HomeInv, NEW a \in Addresses, NEW write \in BOOLEAN,
           Transfer(a, write) \/ _VFF_fsync_r(a)
    PROVE  HomeInv'
<1>1. fil[a] # None /\ Validate(fil[a]) /\ reached' = IO(fil[a].home)
      /\ UNCHANGED <<volumes, nandfd, fs, ordered>>
    BY DEF Transfer, _VFF_fsync_r, SyncWrites
<1>2. \A b \in Addresses : fil'[b] # None => /\ fil[b] # None /\ fil'[b].id = fil[b].id
                                             /\ fil'[b].home = fil[b].home
    <2>1. fil[a] \in FileObjects
        BY <1>1 DEF Base, TypeOK
    <2> QED  BY <2>1, <1>1 DEF Transfer, _VFF_fsync_r, Base, TypeOK, FileObjects
<1>3. IdsGiven'
    BY <1>1, <1>2 DEF HomeInv, IdsGiven
<1>4. ASSUME single' PROVE OneVolume' /\ reached'.at = reached'.home
    <2>1. single /\ vff_totalmountedfs > 0
        BY <1>4, Zenon DEF Transfer, _VFF_fsync_r
    <2>2. OneVolume /\ vff_totalmountedfs = 1
        BY <2>1 DEF HomeInv, OneVolume
    <2>3. fil[a].home = At /\ At' = At
        BY <1>1, <2>2 DEF OneVolume, volumes, At
    <2> QED  BY <1>1, <1>2, <2>2, <2>3 DEF OneVolume, Validate, volumes, IO
<1> QED  BY <1>3, <1>4 DEF HomeInv

LEMMA HomeClose ==
    ASSUME Base, HomeInv, NEW a \in Addresses, _VFF_close_r(a)
    PROVE  HomeInv'
<1>1. fil[a] # None /\ UNCHANGED <<volumes, nandfd, fs, ordered>>
    BY DEF _VFF_close_r
<1>2. \A b \in Addresses : fil'[b] # None => fil'[b] = fil[b]
    BY DEF _VFF_close_r, Base, TypeOK
<1>3. IdsGiven'
    BY <1>1, <1>2 DEF HomeInv, IdsGiven
<1>4. ASSUME single' PROVE OneVolume' /\ reached'.at \in {reached'.home, None}
    <2>1. single /\ OneVolume /\ At' = At
        BY <1>1, <1>4 DEF _VFF_close_r, HomeInv, volumes, At
    <2>2. OneVolume'
        BY <1>1, <1>2, <2>1 DEF OneVolume, Validate, volumes
    <2>3. CASE reached' = NoIO
        BY <2>2, <2>3 DEF NoIO
    <2>4. CASE SlotsOf(a) # {} /\ SyncWrites(fil[a])
        <3>1. vff_totalmountedfs > 0 /\ reached' = IO(fil[a].home)
            BY <1>4, <2>4, Zenon DEF _VFF_close_r
        <3>2. vff_totalmountedfs = 1
            BY <2>1, <3>1 DEF OneVolume
        <3>3. fil[a].home = At
            BY <1>1, <2>1, <2>4, <3>2 DEF OneVolume, SyncWrites
        <3> QED  BY <2>2, <3>1, <3>3 DEF IO
    <2> QED  BY <2>3, <2>4 DEF _VFF_close_r
<1> QED  BY <1>3, <1>4 DEF HomeInv

LEMMA HomeStep == Base /\ HomeInv /\ [Next]_vars => HomeInv'
<1> SUFFICES ASSUME Base, HomeInv, [Next]_vars PROVE HomeInv'
    OBVIOUS
<1>1. ASSUME NEW f \in Own, NEW delvff \in BOOLEAN, NEW refused \in Writes \cup {None},
             VFF_CreateVFF(f, delvff, refused)
      PROVE  HomeInv'
    BY <1>1, HomeKept DEF VFF_CreateVFF, volumes, At
<1>2. ASSUME NEW f \in Files, VFF_MountRefused(f) PROVE HomeInv'
    <2>1. single' => single
        BY <1>2 DEF VFF_MountRefused, manners
    <2>2. vff_totalmountedfs = 1 => At' = At
        BY <1>2 DEF VFF_MountRefused, At, Drive, Base, TypeOK
    <2> QED  BY <1>2, <2>1, <2>2
             DEF VFF_MountRefused, manners, HomeInv, IdsGiven, OneVolume, Validate, NoIO
<1>3. ASSUME NEW f \in Files, NEW d \in Fds, VFF_MountOK(f, d) PROVE HomeInv'
    BY <1>3, HomeMount
<1>4. CASE VFF_MountWild
    BY <1>4 DEF VFF_MountWild, HomeInv, IdsGiven
<1>5. ASSUME NEW n \in Names, VFF_Unmount(n) PROVE HomeInv'
    BY <1>5, HomeUnmount
<1>6. ASSUME NEW n \in Names, NEW a \in Addresses, NEW p \in Paths, NEW new \in BOOLEAN,
             _VFF_open_r(n, a, p, new)
      PROVE  HomeInv'
    BY <1>6, HomeOpen
<1>7. ASSUME NEW a \in Addresses, NEW write \in BOOLEAN, Transfer(a, write) PROVE HomeInv'
    BY <1>7, HomeTransfer
<1>8. ASSUME NEW a \in Addresses, _VFF_fsync_r(a) PROVE HomeInv'
    BY <1>8, HomeTransfer
<1>9. ASSUME NEW a \in Addresses, _VFF_close_r(a) PROVE HomeInv'
    BY <1>9, HomeClose
<1>10. ASSUME NEW d \in Fds, OtherOpen(d) \/ OtherClose(d) PROVE HomeInv'
    <2>1. UNCHANGED <<volumes, fs, fil, manners>> /\ reached' = NoIO
        BY <1>10 DEF OtherOpen, OtherClose
    <2>2. nandfd[d] \notin Files /\ nandfd' = [nandfd EXCEPT ![d] = IF OtherOpen(d) THEN "other" ELSE None]
        BY <1>10, VffConstants DEF OtherOpen, OtherClose, FreeFds
    <2>3. ASSUME single, vff_totalmountedfs = 1 PROVE At' = At
        <3>1. VolumeOf(0)
            BY <2>3, VffConstants DEF HomeInv, OneVolume, Base, Stack, Live, Drive
        <3> QED  BY <2>1, <2>2, <3>1 DEF VolumeOf, At, volumes, Base, TypeOK
    <2> QED  BY <2>1, <2>3 DEF HomeInv, IdsGiven, OneVolume, volumes, manners, Validate, NoIO
<1>11. ASSUME NEW cut, PowerOff(cut) PROVE HomeInv'
    BY <1>11, PowerOffFresh, HomeFresh, PTL
<1>12. CASE UNCHANGED vars
    BY <1>12 DEF vars, volumes, manners, HomeInv, IdsGiven, OneVolume, Validate, At
<1> QED  BY <1>1, <1>2, <1>3, <1>4, <1>5, <1>6, <1>7, <1>8, <1>9, <1>10, <1>11, <1>12
         DEF Next, Call

\* With one volume at a time, and no file operations without one, no file operation
\* reaches another NAND file than that of its device or file object (ff.c:1823, :1865):
\* none of an earlier volume's file objects survives the next mount.
THEOREM HandlesKept == Spec => []HandlesStayHome
<1> DEFINE Inv == Base /\ HomeInv
<1>1. Init => Inv
    BY TypeInit, StackFresh, HomeFresh DEF Init, Base
<1>2. Inv /\ [Next]_vars => Inv'
    BY TypeStep, StackStep, HomeStep DEF Base
<1>3. Inv => HandlesStayHome
    BY DEF HomeInv, HandlesStayHome
<1> QED  BY <1>1, <1>2, <1>3, PTL DEF Spec

-----------------------------------------------------------------------------
(* The table of open files *)

Open == {a \in Addresses : fil[a] # None /\ fil[a].since}
Taken == {s \in Slots : vffoptab_fds[s] # None}

\* A file object opened since the table was cleared has a slot, no other has;
\* as long as no close failed it has one only, and no slot is left over.
SlotInv ==
    /\ \A a \in Addresses : fil[a] # None => (fil[a].since <=> SlotsOf(a) # {})
    /\ lost = 0 => \A s \in Taken :
        /\ fil[vffoptab_fds[s]] # None /\ SlotsOf(vffoptab_fds[s]) = {s}
        /\ vffoptab_fd_paths[s] = fil[vffoptab_fds[s]].path
    /\ IsFiniteSet(Open) /\ Cardinality(Taken) = Cardinality(Open) + lost

LEMMA TakenFinite == IsFiniteSet(Taken) /\ Cardinality(Taken) \in Nat
<1>1. IsFiniteSet(Slots)
    BY VffConstants, FS_Interval DEF Slots
<1> QED  BY <1>1, FS_Subset, FS_CardinalityType DEF Taken

LEMMA SlotsKept ==
    ASSUME SlotInv, UNCHANGED <<fil, table>>
    PROVE  SlotInv'
BY DEF SlotInv, table, SlotsOf, Open, Taken

\* An open takes a slot that is free.
LEMMA SlotsOpen ==
    ASSUME TypeOK, SlotInv, NEW n \in Names, NEW a \in Addresses, NEW p \in Paths, NEW new \in BOOLEAN,
           _VFF_open_r(n, a, p, new)
    PROVE  SlotInv'
<1> USE VffConstants
<1> PICK s : s = Min(EmptySlots)
    OBVIOUS
<1>1. s \in Slots /\ vffoptab_fds[s] = None /\ fil[a] = None /\ lost' = lost
    <2>1. EmptySlots \in SUBSET Nat /\ EmptySlots # {}
        BY DEF EmptySlots, Slots, _VFF_open_r
    <2> QED  BY <2>1, MinIsMember DEF EmptySlots, _VFF_open_r, table
<1>2. CASE UNCHANGED <<fil, vffoptab_fds, vffoptab_fd_paths>>
    BY <1>1, <1>2, SlotsKept DEF table
<1>3. ASSUME NEW id \in Nat,
             fil' = [fil EXCEPT ![a] = [home |-> device[n], id |-> id, written |-> new,
                                        path |-> p, since |-> TRUE]],
             vffoptab_fds' = [vffoptab_fds EXCEPT ![s] = a],
             vffoptab_fd_paths' = [vffoptab_fd_paths EXCEPT ![s] = p]
      PROVE  SlotInv'
    <2>1. /\ fil'[a] # None /\ fil'[a].since /\ fil'[a].path = p
          /\ \A b \in Addresses : b # a => fil'[b] = fil[b]
        <3>1. [home |-> device[n], id |-> id, written |-> new, path |-> p, since |-> TRUE]
              \in FileObjects
            BY <1>3 DEF _VFF_open_r, TypeOK, FileObjects
        <3> QED  BY <1>3, <3>1 DEF TypeOK
    <2>2. /\ vffoptab_fds'[s] = a /\ vffoptab_fd_paths'[s] = p
          /\ \A t \in Slots : t # s => /\ vffoptab_fds'[t] = vffoptab_fds[t]
                                       /\ vffoptab_fd_paths'[t] = vffoptab_fd_paths[t]
        BY <1>1, <1>3 DEF TypeOK
    <2>3. Open' = Open \cup {a} /\ a \notin Open
        BY <1>1, <2>1 DEF Open
    <2>4. Taken' = Taken \cup {s} /\ s \notin Taken
        BY <1>1, <2>2 DEF Taken
    <2>5. SlotsOf(a)' = SlotsOf(a) \cup {s} /\ \A b \in Addresses : b # a => SlotsOf(b)' = SlotsOf(b)
        BY <1>1, <2>2 DEF SlotsOf
    <2>6. lost = 0 => SlotsOf(a) = {}
        BY <1>1 DEF SlotInv, SlotsOf, Taken
    <2>7. \A b \in Addresses : fil'[b] # None => (fil'[b].since <=> SlotsOf(b)' # {})
        BY <2>1, <2>5 DEF SlotInv
    <2>8. ASSUME lost = 0, NEW t \in Taken'
          PROVE  /\ fil'[vffoptab_fds'[t]] # None /\ SlotsOf(vffoptab_fds[t])' = {t}
                 /\ vffoptab_fd_paths'[t] = fil'[vffoptab_fds'[t]].path
        <3>1. CASE t = s
            BY <2>1, <2>2, <2>5, <2>6, <2>8, <3>1
        <3>2. CASE t # s
            <4>1. t \in Taken /\ vffoptab_fds[t] \in Addresses /\ vffoptab_fds[t] # a
                BY <1>1, <2>4, <2>8, <3>2 DEF SlotInv, Taken, TypeOK
            <4> QED  BY <2>1, <2>2, <2>5, <2>8, <3>2, <4>1 DEF SlotInv, Taken
        <3> QED  BY <3>1, <3>2
    <2>9. IsFiniteSet(Open') /\ Cardinality(Open') = Cardinality(Open) + 1 /\ Cardinality(Open) \in Nat
        BY <2>3, FS_AddElement, FS_CardinalityType DEF SlotInv
    <2>10. Cardinality(Taken') = Cardinality(Taken) + 1
        BY <2>4, TakenFinite, FS_AddElement
    <2>11. Cardinality(Taken') = Cardinality(Open') + lost'
        BY <1>1, <2>9, <2>10 DEF SlotInv, TypeOK
    <2>12. lost' = 0 => lost = 0
        BY <1>1
    <2> QED  BY <2>7, <2>8, <2>9, <2>11, <2>12 DEF SlotInv
<1>4. PICK f \in ChkMounted :
        \/ /\ fil' = [fil EXCEPT ![a] = [home |-> device[n], id |-> f.id, written |-> new,
                                         path |-> p, since |-> TRUE]]
           /\ vffoptab_fds' = [vffoptab_fds EXCEPT ![s] = a]
           /\ vffoptab_fd_paths' = [vffoptab_fd_paths EXCEPT ![s] = p]
        \/ UNCHANGED <<fil, vffoptab_fds, vffoptab_fd_paths>>
    BY Zenon DEF _VFF_open_r
<1>5. f.id \in Nat
    BY ChkMountedType
<1> QED  BY <1>2, <1>3, <1>4, <1>5, Zenon
\* A close frees one slot of the file object, or none and is counted as lost.
LEMMA SlotsClose ==
    ASSUME TypeOK, SlotInv, NEW a \in Addresses, _VFF_close_r(a)
    PROVE  SlotInv'
<1> USE VffConstants
<1>1. /\ fil[a] # None /\ fil'[a] = None
      /\ \A b \in Addresses : b # a => fil'[b] = fil[b]
      /\ vffoptab_fd_paths' = vffoptab_fd_paths
    BY DEF _VFF_close_r, TypeOK
<1>2. CASE SlotsOf(a) = {}
    <2>1. vffoptab_fds' = vffoptab_fds /\ lost' = lost
        BY <1>2 DEF _VFF_close_r
    <2>2. Open' = Open /\ Taken' = Taken
        BY <1>1, <1>2, <2>1 DEF SlotInv, Open, Taken
    <2>3. \A b : SlotsOf(b)' = SlotsOf(b)
        BY <2>1 DEF SlotsOf
    <2>4. \A t \in Taken : vffoptab_fds[t] \in Addresses /\ vffoptab_fds[t] # a
        BY <1>2 DEF Taken, SlotsOf, TypeOK
    <2>5. \A b \in Addresses : fil'[b] # None => (fil'[b].since <=> SlotsOf(b)' # {})
        BY <1>1, <2>3 DEF SlotInv
    <2>6. lost' = 0 => \A t \in Taken' :
            /\ fil'[vffoptab_fds'[t]] # None /\ SlotsOf(vffoptab_fds[t])' = {t}
            /\ vffoptab_fd_paths'[t] = fil'[vffoptab_fds'[t]].path
        BY <1>1, <2>1, <2>2, <2>3, <2>4 DEF SlotInv
    <2> QED  BY <2>1, <2>2, <2>5, <2>6 DEF SlotInv
<1>3. CASE SlotsOf(a) # {}
    <2>1. /\ Open' = Open \ {a} /\ a \in Open
        BY <1>1, <1>3 DEF SlotInv, Open
    <2>2. IsFiniteSet(Open') /\ Cardinality(Open') = Cardinality(Open) - 1
          /\ Cardinality(Open) \in Nat
        BY <2>1, FS_RemoveElement, FS_CardinalityType DEF SlotInv
    <2>3. CASE SyncOK(fil[a])
        <3> PICK s : s = Min(SlotsOf(a))
            OBVIOUS
        <3>1. s \in SlotsOf(a)
            <4>1. SlotsOf(a) \in SUBSET Nat
                BY DEF SlotsOf, Slots
            <4> QED  BY <1>3, <4>1, MinIsMember
        <3>2. lost' = lost /\ vffoptab_fds' = [vffoptab_fds EXCEPT ![s] = None]
            BY <1>3, <2>3 DEF _VFF_close_r
        <3>3. Taken' = Taken \ {s} /\ s \in Taken
            BY <3>1, <3>2 DEF Taken, SlotsOf, TypeOK
        <3>4. Cardinality(Taken') = Cardinality(Taken) - 1
            BY <3>3, TakenFinite, FS_RemoveElement
        <3>5. \A b \in Addresses : b # a => SlotsOf(b)' = SlotsOf(b)
            BY <3>1, <3>2 DEF SlotsOf, TypeOK
        <3>6. \A b \in Addresses : fil'[b] # None => (fil'[b].since <=> SlotsOf(b)' # {})
            BY <1>1, <3>5 DEF SlotInv
        <3>7. ASSUME lost = 0, NEW t \in Taken'
              PROVE  /\ fil'[vffoptab_fds'[t]] # None /\ SlotsOf(vffoptab_fds[t])' = {t}
                     /\ vffoptab_fd_paths'[t] = fil'[vffoptab_fds'[t]].path
            <4>1. t \in Taken /\ t # s /\ vffoptab_fds[t] \in Addresses /\ vffoptab_fds'[t] = vffoptab_fds[t]
                BY <3>2, <3>3, <3>7 DEF Taken, TypeOK
            <4>2. vffoptab_fds[t] # a
                BY <3>1, <3>7, <4>1 DEF SlotInv, SlotsOf
            <4> QED  BY <1>1, <3>5, <3>7, <4>1, <4>2 DEF SlotInv
        <3>8. Cardinality(Taken') = Cardinality(Open') + lost'
            BY <2>2, <3>2, <3>4 DEF SlotInv, TypeOK
        <3>9. lost' = 0 => lost = 0
            BY <3>2
        <3> QED  BY <2>2, <3>6, <3>7, <3>8, <3>9 DEF SlotInv
    <2>4. CASE ~SyncOK(fil[a])
        <3>1. lost' = lost + 1 /\ vffoptab_fds' = vffoptab_fds
            BY <1>3, <2>4 DEF _VFF_close_r
        <3>2. Taken' = Taken /\ \A b : SlotsOf(b)' = SlotsOf(b)
            BY <3>1 DEF Taken, SlotsOf
        <3>3. \A b \in Addresses : fil'[b] # None => (fil'[b].since <=> SlotsOf(b)' # {})
            BY <1>1, <3>2 DEF SlotInv
        <3>4. lost' # 0 /\ lost \in Nat
            BY <3>1 DEF TypeOK
        <3> QED  BY <2>2, <3>1, <3>2, <3>3, <3>4 DEF SlotInv
    <2> QED  BY <2>3, <2>4
<1> QED  BY <1>2, <1>3

\* Reads, writes and syncs change nothing of what the table says.
LEMMA SlotsTransfer ==
    ASSUME TypeOK, SlotInv, NEW a \in Addresses, NEW write \in BOOLEAN,
           Transfer(a, write) \/ _VFF_fsync_r(a)
    PROVE  SlotInv'
<1>1. fil[a] \in FileObjects
    BY DEF Transfer, _VFF_fsync_r, TypeOK
<1>2. PICK w \in BOOLEAN : fil' = [fil EXCEPT ![a] = [fil[a] EXCEPT !.written = w]]
    BY <1>1, Zenon DEF Transfer, _VFF_fsync_r, FileObjects
<1>3. UNCHANGED <<vffoptab_fds, vffoptab_fd_paths, lost>>
    BY DEF Transfer, _VFF_fsync_r, table
<1>4. [fil[a] EXCEPT !.written = w] \in FileObjects
    BY <1>1 DEF FileObjects
<1>5. \A b \in Addresses : /\ fil'[b] = None <=> fil[b] = None
                           /\ fil'[b] # None => fil'[b].since = fil[b].since /\ fil'[b].path = fil[b].path
    BY <1>1, <1>2, <1>4, VffConstants DEF TypeOK, FileObjects
<1>6. Open' = Open /\ Taken' = Taken /\ \A b : SlotsOf(b)' = SlotsOf(b)
    BY <1>3, <1>5 DEF Open, Taken, SlotsOf
<1>7. \A t \in Taken : vffoptab_fds[t] \in Addresses
    BY DEF Taken, TypeOK
<1>8. \A b \in Addresses : fil'[b] # None => (fil'[b].since <=> SlotsOf(b)' # {})
    BY <1>5, <1>6 DEF SlotInv
<1>9. lost' = 0 => \A t \in Taken' :
        /\ fil'[vffoptab_fds'[t]] # None /\ SlotsOf(vffoptab_fds[t])' = {t}
        /\ vffoptab_fd_paths'[t] = fil'[vffoptab_fds'[t]].path
    BY <1>3, <1>5, <1>6, <1>7 DEF SlotInv
<1> QED  BY <1>3, <1>6, <1>8, <1>9 DEF SlotInv

\* A mount clears the table, if it is the first.
LEMMA SlotsMount ==
    ASSUME TypeOK, SlotInv, NEW f \in Files, NEW d \in Fds, VFF_MountOK(f, d)
    PROVE  SlotInv'
<1>1. CASE ClearsFds
    <2>1. vffoptab_fds' = [s \in Slots |-> None] /\ lost' = 0
        BY <1>1 DEF VFF_MountOK
    <2>2. \A a \in Addresses : fil'[a] # None => ~fil'[a].since
        BY <1>1 DEF VFF_MountOK, TypeOK, FileObjects
    <2>3. Open' = {} /\ Taken' = {}
        BY <2>1, <2>2 DEF Open, Taken
    <2>4. \A a \in Addresses : SlotsOf(a)' = {}
        BY <2>1, VffConstants DEF SlotsOf
    <2> QED  BY <2>1, <2>2, <2>3, <2>4, FS_EmptySet DEF SlotInv
<1>2. CASE ~ClearsFds
    BY <1>2, SlotsKept DEF VFF_MountOK, table
<1> QED  BY <1>1, <1>2

LEMMA SlotsFresh == Fresh => SlotInv
<1> SUFFICES ASSUME Fresh PROVE SlotInv
    OBVIOUS
<1>1. Open = {} /\ Taken = {}
    BY DEF Fresh, Open, Taken
<1>2. \A a \in Addresses : fil[a] = None
    BY DEF Fresh
<1> QED  BY <1>1, <1>2, FS_EmptySet DEF SlotInv, Fresh

LEMMA SlotsStep == TypeOK /\ SlotInv /\ [Next]_vars => SlotInv'
<1> SUFFICES ASSUME TypeOK, SlotInv, [Next]_vars PROVE SlotInv'
    OBVIOUS
<1>1. ASSUME NEW f \in Own, NEW delvff \in BOOLEAN, NEW refused \in Writes \cup {None},
             VFF_CreateVFF(f, delvff, refused)
      PROVE  SlotInv'
    BY <1>1, SlotsKept DEF VFF_CreateVFF
<1>2. ASSUME NEW f \in Files, VFF_MountRefused(f) PROVE SlotInv'
    BY <1>2, SlotsKept DEF VFF_MountRefused
<1>3. ASSUME NEW f \in Files, NEW d \in Fds, VFF_MountOK(f, d) PROVE SlotInv'
    BY <1>3, SlotsMount
<1>4. CASE VFF_MountWild
    BY <1>4, SlotsKept DEF VFF_MountWild
<1>5. ASSUME NEW n \in Names, VFF_Unmount(n) PROVE SlotInv'
    BY <1>5, SlotsKept DEF VFF_Unmount
<1>6. ASSUME NEW n \in Names, NEW a \in Addresses, NEW p \in Paths, NEW new \in BOOLEAN,
             _VFF_open_r(n, a, p, new)
      PROVE  SlotInv'
    BY <1>6, SlotsOpen
<1>7. ASSUME NEW a \in Addresses, NEW write \in BOOLEAN, Transfer(a, write) PROVE SlotInv'
    BY <1>7, SlotsTransfer
<1>8. ASSUME NEW a \in Addresses, _VFF_fsync_r(a) PROVE SlotInv'
    BY <1>8, SlotsTransfer
<1>9. ASSUME NEW a \in Addresses, _VFF_close_r(a) PROVE SlotInv'
    BY <1>9, SlotsClose
<1>10. ASSUME NEW d \in Fds, OtherOpen(d) \/ OtherClose(d) PROVE SlotInv'
    BY <1>10, SlotsKept DEF OtherOpen, OtherClose
<1>11. ASSUME NEW cut, PowerOff(cut) PROVE SlotInv'
    BY <1>11, PowerOffFresh, SlotsFresh, PTL
<1>12. CASE UNCHANGED vars
    BY <1>12, SlotsKept DEF vars
<1> QED  BY <1>1, <1>2, <1>3, <1>4, <1>5, <1>6, <1>7, <1>8, <1>9, <1>10, <1>11, <1>12
         DEF Next, Call

\* What the invariant says of the slots is what SlotsAccounted asks.
LEMMA SlotsImply == TypeOK /\ SlotInv => SlotsAccounted
<1> SUFFICES ASSUME TypeOK, SlotInv PROVE SlotsAccounted
    OBVIOUS
<1>1. ASSUME lost = 0, NEW a \in Open
      PROVE  SlotsOf(a) # {} /\ vffoptab_fd_paths[Min(SlotsOf(a))] = fil[a].path
    <2>1. SlotsOf(a) # {} /\ a \in Addresses /\ fil[a] # None
        BY DEF SlotInv, Open
    <2>2. PICK s \in SlotsOf(a) : s = Min(SlotsOf(a))
        <3>1. SlotsOf(a) \in SUBSET Nat
            BY DEF SlotsOf, Slots
        <3> QED  BY <2>1, <3>1, MinIsMember
    <2>3. s \in Taken /\ vffoptab_fds[s] = a
        BY <2>1, VffConstants DEF SlotsOf, Taken
    <2>4. vffoptab_fd_paths[s] = fil[a].path
        BY <1>1, <2>3 DEF SlotInv
    <2> QED  BY <2>1, <2>2, <2>4
<1> QED  BY <1>1 DEF SlotsAccounted, SlotInv, Open, Taken

\* The slots taken are those of the files open and of the closes that failed
\* (vff.c:500), and the paths are found (vff.c:556).
THEOREM SlotsAreAccounted == Spec => []SlotsAccounted
<1> DEFINE Inv == TypeOK /\ SlotInv
<1>1. Init => Inv
    BY TypeInit, SlotsFresh DEF Init
<1>2. Inv /\ [Next]_vars => Inv'
    BY TypeStep, SlotsStep
<1>3. Inv => SlotsAccounted
    BY SlotsImply
<1> QED  BY <1>1, <1>2, <1>3, PTL DEF Spec
=============================================================================
