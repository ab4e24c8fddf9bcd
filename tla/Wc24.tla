-------------------------------- MODULE Wc24 --------------------------------
(***************************************************************************)
(* libwc24: the download list nwc24dl.bin and the mail configuration, as   *)
(* the library's calls read and write them.                                *)
(*                                                                         *)
(* nwc24dl.bin has two tables with one slot per download: the records,     *)
(* whose ID says whether the slot is taken, and the entries, whose ID and  *)
(* URL say what is downloaded.  A call that changes a slot writes the two  *)
(* one after the other; the power may go, or a write may fail, in between. *)
(* The file itself is opened and closed around every access, unless it is  *)
(* open already, which is what a descriptor other than 0 is taken for.     *)
(*                                                                         *)
(* ISFS is external: an access either takes effect as a whole or fails.    *)
(* Of an entry its index, ID and URL are modelled, of a record its ID and  *)
(* last_modified.  Allocations do not fail.                                *)
(***************************************************************************)
EXTENDS Integers, Sequences, FiniteSets

CONSTANTS
    MaxEntries,     \* NWC24DL_Header->max_entries (0x78)
    Reserved,       \* NWC24DL_Header->reserved_mailnum (8)
    Ids,            \* low words of title ids; 0 is none
    Names,          \* last components of URLs
    Bases,          \* what comes before them
    MaxVer,         \* bound on the versions of the files served
    MaxFaults       \* bound on failing accesses and power losses

NoId  == 0
NoUrl == [name |-> "", base |-> 0]
Slot  == 0 .. MaxEntries - 1
Url   == [name : Names, base : Bases]

Record == [ID : Ids \cup {NoId}, last : 0 .. MaxVer]
\* What a slot is for; one that is not in use is zeros.
NoOwner == [ID |-> NoId, url |-> NoUrl]
Owner   == {NoOwner} \cup [ID : Ids, url : Url]

Entry  == [index : Slot, ID : Ids \cup {NoId}, url : Url \cup {NoUrl}]
Config == {"off", "on", "zero"}    \* the title boot flag; a file of zeros

ASSUME Wc24Constants ==
    /\ MaxEntries \in Nat /\ Reserved \in Nat /\ Reserved < MaxEntries
    /\ NoId \notin Ids
    /\ 0 \notin Bases
    /\ MaxVer \in Nat \ {0} /\ MaxFaults \in Nat

VARIABLES
    rec, ent,       \* the two tables of nwc24dl.bin
    cbk, cfg,       \* nwc24msg.cbk and nwc24msg.cfg
    init,           \* wc24_did_init
    fd,             \* nwc24dlbin_fd: 0, a descriptor, or an error number
    ram,            \* wc24mail_nwc24msgcfg
    job,            \* the slot being written, and what is left to write
    cfgleft,        \* configuration files WC24Mail_CfgUpdate has left to write
    ret,            \* whether the last call returned an error
    faults,         \* number of failed accesses and power losses
    hurt,           \* history: slots a call has left half written
    torn            \* history: a configuration update was cut short

libvars == <<rec, ent, cbk, cfg, init, fd, ram, job, cfgleft, ret, faults, hurt, torn>>

EmptyRecord   == [ID |-> NoId, last |-> 0]
EmptyEntry(i) == [index |-> i, ID |-> NoId, url |-> NoUrl]
\* Mutant: the time of the call is written.
RecordOfNow(o) == [ID |-> o.ID, last |-> MaxVer + 1]
RecordOf(o)   == [ID |-> o.ID, last |-> 0]
EntryOf(i, o) == [index |-> i, ID |-> o.ID, url |-> o.url]
OwnerOf(e)    == [ID |-> e.ID, url |-> e.url]

Live(i) == rec[i].ID = ent[i].ID /\ rec[i].ID # NoId

\* The parts of a slot in the order a call writes them.
Orders == {<<>>, <<"rec">>, <<"ent">>, <<"rec", "ent">>, <<"ent", "rec">>}
\* A call that has nothing left to write: what it returned is left.
Done(i) == [at |-> i, rec |-> EmptyRecord, ent |-> EmptyEntry(0), left |-> <<>>,
            strict |-> TRUE, ok |-> TRUE]
NoJob == Done(0)
Idle == job.left = <<>> /\ cfgleft = 0

\* table is the download list the Wii has.
LibInit(table) ==
    /\ rec = [i \in Slot |-> RecordOf(table[i])]
    /\ ent = [i \in Slot |-> EntryOf(i, table[i])]
    /\ cbk = "off" /\ cfg = "off"
    /\ init = FALSE /\ fd = "closed" /\ ram = "zero"
    /\ job = NoJob /\ cfgleft = 0 /\ ret = "ok"
    /\ faults = 0 /\ hurt = {} /\ torn = FALSE

-----------------------------------------------------------------------------
(* Access to nwc24dl.bin *)

\* Every access of a call takes effect.  A descriptor that is an error number
\* is not 0, so the file is not opened again and nothing works with it.
Works == fd # "bad" /\ UNCHANGED <<fd, faults>>
\* An access fails.  Opening leaves the error number in nwc24dlbin_fd; the
\* error paths after it return without closing the file.
Fails ==
    \/ fd = "bad" /\ UNCHANGED <<fd, faults>>
    \/ /\ fd # "bad" /\ faults < MaxFaults
       /\ faults' = faults + 1
       /\ fd' \in IF fd = "closed" THEN {"bad", "open"} ELSE {"open"}
\* The slot number is an error number: seeking that far fails.
WrongSlot ==
    /\ fd' = IF fd = "closed" THEN "open" ELSE fd
    /\ UNCHANGED faults

-----------------------------------------------------------------------------
(* Searching the tables: the number of the slot as a singleton, {} for       *)
(* LIBWC24_ENOENT.  A search for ID 0 skips the slots reserved for mail.     *)

Lowest(S) == {i \in S : \A j \in S : i <= j}
From(id)  == IF id = NoId THEN Reserved ELSE 0

FindRecord(id) == Lowest({i \in From(id) .. MaxEntries - 1 : rec[i].ID = id})
\* Mutants: the URL is not compared; the first slot is left out.
FindEntryAnyUrl(id, urls) ==
    Lowest({i \in From(id) .. MaxEntries - 1 : ent[i].ID = id})
FindEntryLate(id, urls) ==
    Lowest({i \in Reserved + 1 .. MaxEntries - 1 : ent[i].ID = id /\ ent[i].url \in urls})
\* urls is the set of URLs that compare equal.
FindEntry(id, urls) ==
    Lowest({i \in From(id) .. MaxEntries - 1 : ent[i].ID = id /\ ent[i].url \in urls})
FindEmptyEntry == FindRecord(NoId)

-----------------------------------------------------------------------------
(* The calls that change a slot *)

\* Mutant: the index of the entry is left as it was.
KeepIndex(i, r, e, order, strict) ==
    job' = [at |-> i, rec |-> r, ent |-> [e EXCEPT !.index = 0], left |-> order,
            strict |-> strict, ok |-> TRUE]
\* Mutant: only the record is written.
OnlyFirst(i, r, e, order, strict) ==
    job' = [at |-> i, rec |-> r, ent |-> e, left |-> <<order[1]>>, strict |-> strict, ok |-> TRUE]
Begin(i, r, e, order, strict) ==
    job' = [at |-> i, rec |-> r, ent |-> e, left |-> order, strict |-> strict, ok |-> TRUE]

\* WC24_CreateRecord by a program with the title id title.  The ID searched
\* for is the one passed, the ID written that of the title if that was 0.
\* What FindEmptyEntry returns is used as the slot number, errors too.  Its
\* callers have initialised the library.
CreateRecord(id, url, title) ==
    LET own   == [ID |-> IF id = NoId THEN title ELSE id, url |-> url]
        found == FindEntry(id, {url})
        place == IF found # {} THEN found ELSE FindEmptyEntry
    IN  \/ /\ Works
           /\ \E i \in place :
                Begin(i, RecordOf(own), EntryOf(i, own), <<"rec", "ent">>, TRUE)
           /\ ret' = "ok"
        \/ /\ (place = {} /\ WrongSlot) \/ Fails
           /\ ret' = "err" /\ UNCHANGED job

\* WC24_DeleteRecord.
\* Mutant: only the entry is deleted.
DeleteEntry(i) == Begin(i, EmptyRecord, EmptyEntry(i), <<"ent">>, TRUE)
DeleteRecord(i) == Begin(i, EmptyRecord, EmptyEntry(i), <<"rec", "ent">>, TRUE)

\* WC24_WriteRecord and WC24_WriteEntry as the call under way makes them.
WriteSlot ==
    /\ job.left # <<>>
    /\ \/ /\ Works
          /\ IF Head(job.left) = "rec"
             THEN rec' = [rec EXCEPT ![job.at] = job.rec] /\ UNCHANGED ent
             ELSE ent' = [ent EXCEPT ![job.at] = job.ent] /\ UNCHANGED rec
          /\ job' = IF Len(job.left) = 1 THEN Done(job.at) ELSE [job EXCEPT !.left = Tail(@)]
          /\ hurt' = IF Len(job.left) = 1 /\ job.ok THEN hurt \ {job.at} ELSE hurt
          /\ UNCHANGED ret
       \/ /\ Fails
          /\ job' = IF job.strict \/ Len(job.left) = 1 THEN Done(job.at)
                    ELSE [job EXCEPT !.left = Tail(@), !.ok = FALSE]
          /\ hurt' = IF job.strict /\ Len(job.left) = 2 THEN hurt ELSE hurt \cup {job.at}
          /\ ret' = IF job.strict THEN "err" ELSE ret
          /\ UNCHANGED <<rec, ent>>
    /\ UNCHANGED <<cbk, cfg, init, ram, cfgleft, torn>>

-----------------------------------------------------------------------------
(* The mail configuration *)

\* __WC24Mail_CfgRead of the backup and then of the file proper, into one
\* buffer that starts as zeros.  A read that fails is not noticed: the buffer
\* stays as it was, and zeros have the right checksum.
\* Mutant: the second file is not read.
ForgottenRead(failed) ==
    LET first == IF "cbk" \in failed THEN "zero" ELSE cbk
    IN  [first |-> first, second |-> first]
CfgRead(failed) ==
    LET first == IF "cbk" \in failed THEN "zero" ELSE cbk
    IN  [first |-> first, second |-> IF "cfg" \in failed THEN first ELSE cfg]

\* WC24_Init: it succeeds with the configuration read in ram, or returns an
\* error.  The two configuration files must have the same checksum.
InitSucceeds(failed) ==
    /\ faults + Cardinality(failed) <= MaxFaults
    /\ faults' = faults + Cardinality(failed)
    /\ CfgRead(failed).first = CfgRead(failed).second
    /\ ram' = CfgRead(failed).second
    /\ init' = TRUE /\ fd' = "closed"
InitRefuses ==
    /\ \/ cbk # cfg /\ UNCHANGED faults
       \/ faults < MaxFaults /\ faults' = faults + 1
    /\ init' = FALSE /\ fd' \in {"closed", "bad"} /\ ram' = "zero"

\* WC24Mail_CfgUpdate: the backup, then the file proper.  A write that fails
\* is not noticed, a file that cannot be opened ends the update.
WriteConfig ==
    /\ cfgleft # 0
    /\ \/ /\ cfgleft = 2 /\ cbk' = ram /\ UNCHANGED <<cfg, faults, torn>>
          /\ cfgleft' = 1
       \/ /\ cfgleft = 1 /\ cfg' = ram /\ UNCHANGED <<cbk, faults, torn>>
          /\ cfgleft' = 0
       \/ /\ faults < MaxFaults /\ faults' = faults + 1
          /\ UNCHANGED <<cbk, cfg>>
          /\ \/ cfgleft' = 0 /\ torn' = (torn \/ cfgleft = 1)
             \/ cfgleft' = cfgleft - 1 /\ torn' = TRUE
    /\ UNCHANGED <<rec, ent, init, fd, ram, job, ret, hurt>>

-----------------------------------------------------------------------------
\* WC24_Shutdown, and the end of the program the library is linked into: its
\* variables are gone.
Forget ==
    /\ init' = FALSE /\ fd' = "closed" /\ ram' = "zero"
    /\ job' = NoJob /\ cfgleft' = 0 /\ ret' = "ok"

\* The power goes.
PowerLoss ==
    /\ faults < MaxFaults /\ faults' = faults + 1
    /\ hurt' = IF job.left # <<>> /\ (Len(job.left) = 1 \/ ~job.ok) THEN hurt \cup {job.at} ELSE hurt
    /\ torn' = (torn \/ cfgleft = 1)
    /\ Forget
    /\ UNCHANGED <<rec, ent, cbk, cfg>>
=============================================================================
