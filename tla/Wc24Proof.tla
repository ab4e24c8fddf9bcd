------------------------------ MODULE Wc24Proof -----------------------------
(***************************************************************************)
(* Proofs about the download list and the mail configuration, for lists of *)
(* any length, any set of titles and URLs, and any number of faults.       *)
(***************************************************************************)
EXTENDS Wc24Title, Sums, FiniteSetTheorems, TLAPS

-----------------------------------------------------------------------------
(* The inductive invariant *)

\* Where a program is says what it holds.
Held ==
    /\ prog = "none" => Idle
    /\ prog = "none" <=> phase = "off"
    /\ phase = "menu" \/ cfgleft # 0 => prog = "app"
    /\ phase \in {"names", "recreate", "created", "download"} =>
        todo \in Seq(Names) /\ installed # 0
    /\ phase \in {"recreate", "created"} => todo # <<>>
    /\ phase = "purge" => purging \in Ids
    /\ phase = "update" => job.left = <<>> /\ todo \in Seq(Effects)

\* A slot not in use is zeros.
Zeros == \A i \in Slot : ent[i].ID = NoId => ent[i].url = NoUrl

\* The slot a call is writing: both parts are for the same owner, and once the
\* first is written only the second is wrong.
Parts ==
    job.left # <<>> =>
        /\ job.ent.index = job.at /\ job.rec.ID = job.ent.ID
        /\ job.ent.ID = NoId => job.ent.url = NoUrl
        /\ job.left = <<"rec">> /\ job.ok => ent[job.at].ID = job.ent.ID
        /\ job.left = <<"ent">> /\ job.ok => rec[job.at].ID = job.rec.ID
        /\ job.ok \/ job.at \in hurt
        /\ job.strict => job.ok /\ job.left \in {<<"ent">>, <<"rec", "ent">>}

\* Why that slot may be written.
Called ==
    job.left # <<>> =>
        /\ \/ Reserved <= job.at \/ job.rec.ID = NoId
           \/ rec[job.at].ID # NoId \/ ent[job.at].ID # NoId
        /\ \/ ~job.strict \/ job.at \in hurt
           \/ /\ job.rec.ID # NoId
              /\ ent[job.at].ID = NoId \/ OwnerOf(ent[job.at]) = OwnerOf(job.ent)
           \/ job.rec.ID = NoId /\ MayChange(job.at)

\* A slot created for a program to boot holds its entry when it is deleted.
Booted(e) == e.ID = TitleId /\ e.url.name = OneShot
OneShotMade ==
    phase = "fetch" /\ ret = "ok" =>
        IF job.left = <<>> THEN Booted(ent[job.at])
        ELSE job.strict /\ job.rec.ID # NoId /\ Booted(job.ent)

\* What ConfigKept rests on: zeros in memory come from two failed reads, and
\* the backup was written from memory before the file is.
Backed ==
    /\ prog = "app" /\ ram = "zero" => blind
    /\ cfgleft = 1 => cbk = ram \/ torn

\* What NoUpdateLoop rests on: the configuration names what was booted, and
\* an update is announced in it before the installer is booted.
Announced ==
    /\ booted <= file["config"]
    /\ phase = "update" =>
        \/ /\ todo = <<"conf", "rminst", "rmver", "boot">>
           /\ file["config"] < file["verinfo"]
        \/ todo = <<"rminst", "rmver", "boot">> /\ booted < file["verinfo"]
                                                /\ file["config"] = file["verinfo"]
        \/ todo = <<"rmver", "boot">> /\ booted < dol.for /\ dol.for <= file["config"]
        \/ todo = <<"boot">> /\ booted < dol.for /\ dol.for <= file["config"]
        \/ todo \in {<<"rminst", "rmver">>, <<"rmver">>, <<>>}

\* A slot written for an owner that is not to be doubled is its only one.
Exempt(e) == e.url.name = OneShot \/ e.ID = AppId
Lone ==
    job.left # <<>> /\ job.ent.ID # NoId /\ ~Exempt(job.ent) =>
        restored \/ \A j \in Slot : j # job.at => OwnerOf(ent[j]) # OwnerOf(job.ent)
Single == NoDoubles /\ Lone

\* A clean run finds whole slots, and its descriptor is none but of the file.
Accessible == clean => fd # "bad" /\ hurt = {}
BadFd == fd = "bad" => faults # 0 \/ prog = "inst"

\* Where the title is, between its calls and in them.
Placed ==
    /\ phase \in {"names", "recreate", "created", "download", "update", "args", "fetch"} =>
        prog = "boot"
    /\ phase \in {"names", "download", "args"} => job.left = <<>>
    /\ phase \in {"names", "recreate", "created", "download"} =>
        todo \in Seq(Names \ {OneShot})

\* The slot of an owner is whole and in use, and the call under way leaves it.
Secured(o) ==
    \E i \in Slot :
        /\ Live(i) /\ OwnerOf(ent[i]) = o
        /\ job.left # <<>> /\ job.at = i => OwnerOf(job.ent) = o
Own(name) == [ID |-> TitleId, url |-> Wanted(name)]
\* Each of the title's entries is there or still to be looked for.
Ready ==
    phase \in {"names", "recreate", "created", "download"} /\ clean =>
        \A k \in DOMAIN Updates :
            \/ Secured(Own(Updates[k]))
            \/ phase # "download" /\ \E l \in DOMAIN todo : todo[l] = Updates[k]
\* The entry just asked for is there when the call returns without an error.
Made ==
    phase = "created" /\ clean /\ ret = "ok" =>
        IF job.left = <<>> THEN Secured(Own(Head(todo)))
        ELSE job.strict /\ OwnerOf(job.ent) = Own(Head(todo))

\* The entry of a program to boot is in the slot it was created in, until that
\* slot is deleted.
Leaves(i) ==
    /\ prog = "boot" /\ i = job.at
    /\ \/ phase = "fetch" /\ ret = "ok"
       \/ phase = "end" /\ job.left # <<>> /\ job.ent.ID = NoId /\ job.strict
OneShots ==
    faults = 0 =>
        /\ \A i \in Slot : ent[i].url.name = OneShot => Leaves(i)
        /\ job.left # <<>> /\ job.ent.url.name = OneShot => phase = "fetch" /\ ret = "ok"

-----------------------------------------------------------------------------
(* Owners, slots and searches *)

JobType == [at : Slot, rec : Record, ent : Entry, left : Orders,
            strict : BOOLEAN, ok : BOOLEAN]

\* The list has a slot.
LEMMA FirstSlot == 0 \in Slot
BY Wc24Constants DEF Slot

\* What is written for an owner is for that owner.
LEMMA Owners ==
    ASSUME NEW o \in Owner, NEW i \in Slot
    PROVE  /\ RecordOf(o) \in Record /\ EntryOf(i, o) \in Entry
           /\ RecordOf(o).ID = o.ID /\ EntryOf(i, o).ID = o.ID
           /\ EntryOf(i, o).url = o.url /\ EntryOf(i, o).index = i
           /\ o.ID = NoId => o.url = NoUrl
BY Wc24Constants DEF Owner, NoOwner, RecordOf, EntryOf, Record, Entry

\* Deleting writes what is written for nobody.
LEMMA Nobody ==
    ASSUME NEW i \in Slot
    PROVE  /\ EmptyRecord = RecordOf(NoOwner) /\ EmptyEntry(i) = EntryOf(i, NoOwner)
           /\ NoOwner \in Owner
BY DEF EmptyRecord, EmptyEntry, RecordOf, EntryOf, NoOwner, Owner

\* A call that is done has nothing left to write.
LEMMA DoneType == ASSUME NEW i \in Slot PROVE Done(i) \in JobType /\ Done(i).left = <<>>
<1>1. EmptyRecord \in Record /\ EmptyEntry(0) \in Entry
    BY FirstSlot, Nobody, Owners
<1> QED  BY <1>1 DEF Done, JobType, Orders

\* The job a call begins.
LEMMA BeginJob ==
    ASSUME NEW i \in Slot, NEW o \in Owner, NEW strict \in BOOLEAN,
           NEW order \in {<<"rec", "ent">>, <<"ent", "rec">>},
           Begin(i, RecordOf(o), EntryOf(i, o), order, strict)
    PROVE  /\ job' \in JobType
           /\ job'.at = i /\ job'.rec = RecordOf(o) /\ job'.ent = EntryOf(i, o)
           /\ job'.left = order /\ job'.strict = strict /\ job'.ok = TRUE
BY Owners DEF Begin, JobType, Orders

\* A search returns slots of the ID and URL searched for, for ID 0 none of
\* those reserved for mail.
LEMMA Searched ==
    ASSUME NEW id \in Ids \cup {NoId}
    PROVE  /\ \A i \in FindRecord(id) :
                i \in Slot /\ rec[i].ID = id /\ (id = NoId => Reserved <= i)
           /\ \A urls : \A i \in FindEntry(id, urls) :
                /\ i \in Slot /\ ent[i].ID = id /\ ent[i].url \in urls
                /\ id = NoId => Reserved <= i
<1>1. From(id) \in Nat /\ (id = NoId => From(id) = Reserved)
    BY Wc24Constants DEF From
<1>2. \A i \in From(id) .. MaxEntries - 1 : i \in Slot /\ From(id) <= i
    BY <1>1, Wc24Constants DEF Slot
<1> QED  BY <1>1, <1>2 DEF FindRecord, FindEntry, Lowest

\* An access leaves a descriptor and a count of faults.
LEMMA Accesses ==
    ASSUME TypeOK, Works \/ Fails \/ WrongSlot
    PROVE  fd' \in {"closed", "open", "bad"} /\ faults' \in 0 .. MaxFaults
BY Wc24Constants DEF TypeOK, Works, Fails, WrongSlot

\* Whose slot WC24_CreateRecord creates.
OwnerFor(id, url, title) == [ID |-> IF id = NoId THEN title ELSE id, url |-> url]

\* It is somebody's.
LEMMA OwnerForType ==
    ASSUME NEW id \in Ids \cup {NoId}, NEW url \in Url, NEW title \in Ids
    PROVE  /\ OwnerFor(id, url, title) \in Owner
           /\ OwnerFor(id, url, title).ID # NoId
           /\ OwnerFor(id, url, title).url = url
           /\ id = NoId => OwnerFor(id, url, title).ID = title
BY Wc24Constants DEF Owner, OwnerFor

\* A slot is created where its owner has one, or in one not in use, never
\* among those reserved for mail.
LEMMA CreateStep ==
    ASSUME TypeOK, NEW id \in Ids \cup {NoId}, NEW url \in Url, NEW title \in Ids,
           CreateRecord(id, url, title)
    PROVE  /\ fd' \in {"closed", "open", "bad"} /\ faults' \in 0 .. MaxFaults
           /\ \/ job' = job /\ ret' = "err"
              \/ /\ ret' = "ok"
                 /\ \E i \in Slot :
                     /\ Begin(i, RecordOf(OwnerFor(id, url, title)),
                              EntryOf(i, OwnerFor(id, url, title)), <<"rec", "ent">>, TRUE)
                     /\ Reserved <= i \/ ent[i].ID # NoId
                     /\ \/ rec[i].ID = NoId \/ ent[i].ID = NoId
                        \/ OwnerOf(ent[i]) = OwnerFor(id, url, title)
<1> DEFINE o == OwnerFor(id, url, title)
           place == IF FindEntry(id, {url}) # {} THEN FindEntry(id, {url}) ELSE FindEmptyEntry
<1>1. Works \/ Fails \/ WrongSlot
    BY DEF CreateRecord
<1>2. \A i \in place :
        /\ i \in Slot
        /\ Reserved <= i \/ ent[i].ID # NoId
        /\ rec[i].ID = NoId \/ ent[i].ID = NoId \/ OwnerOf(ent[i]) = o
    <2>1. \A i \in FindEntry(id, {url}) :
            /\ i \in Slot /\ ent[i].ID = id /\ ent[i].url = url
            /\ id = NoId => Reserved <= i
        BY Searched
    <2>2. \A i \in FindEmptyEntry : i \in Slot /\ rec[i].ID = NoId /\ Reserved <= i
        BY Searched DEF FindEmptyEntry
    <2>3. ASSUME NEW i, ent[i].ID = id, ent[i].url = url, id # NoId PROVE OwnerOf(ent[i]) = o
        BY <2>3 DEF OwnerOf, OwnerFor
    <2> QED  BY <2>1, <2>2, <2>3
<1>3. \/ job' = job /\ ret' = "err"
      \/ /\ ret' = "ok"
         /\ \E i \in place : Begin(i, RecordOf(o), EntryOf(i, o), <<"rec", "ent">>, TRUE)
    BY DEF CreateRecord, OwnerFor
<1> QED  BY <1>1, <1>2, <1>3, Accesses

\* WC24_CreateRecord leaves values of their types.
LEMMA CreateType ==
    ASSUME TypeOK, NEW id \in Ids \cup {NoId}, NEW url \in Url, NEW title \in Ids,
           CreateRecord(id, url, title)
    PROVE  /\ fd' \in {"closed", "open", "bad"} /\ faults' \in 0 .. MaxFaults
           /\ job' \in JobType /\ ret' \in {"ok", "err"}
<1>1. job \in JobType
    BY DEF TypeOK, JobType
<1> DEFINE o == OwnerFor(id, url, title)
<1>2. o \in Owner
    BY OwnerForType
<1>3. /\ fd' \in {"closed", "open", "bad"} /\ faults' \in 0 .. MaxFaults
      /\ \/ job' = job /\ ret' = "err"
         \/ /\ ret' = "ok"
            /\ \E i \in Slot : Begin(i, RecordOf(o), EntryOf(i, o), <<"rec", "ent">>, TRUE)
    BY CreateStep
<1> HIDE DEF o
<1>4. (\E i \in Slot : Begin(i, RecordOf(o), EntryOf(i, o), <<"rec", "ent">>, TRUE))
      => job' \in JobType
    BY <1>2, BeginJob
<1> QED  BY <1>1, <1>3, <1>4

\* Deleting writes zeros.
LEMMA DeleteStep ==
    ASSUME NEW i \in Slot, DeleteRecord(i)
    PROVE  /\ job' \in JobType
           /\ job'.at = i /\ job'.rec = EmptyRecord /\ job'.ent = EmptyEntry(i)
           /\ job'.left = <<"rec", "ent">> /\ job'.strict = TRUE /\ job'.ok = TRUE
           /\ job'.rec.ID = NoId
<1>1. EmptyRecord.ID = NoId
    BY DEF EmptyRecord
<1> QED  BY <1>1, Nobody, BeginJob DEF DeleteRecord

-----------------------------------------------------------------------------
(* Types *)

\* An entry the title wants is one of Url.
LEMMA WantedType ==
    ASSUME TypeOK, installed # 0, NEW name \in Names
    PROVE  Wanted(name) \in Url
<1>1. installed \in 1 .. MaxVer
    BY Wc24Constants DEF TypeOK, Version
<1>2. Base[installed] \in Bases
    BY <1>1, Wc24TitleConstants
<1> QED  BY <1>2 DEF Wanted, Url

\* So is that of a program to boot.
LEMMA OneShotType == [name |-> OneShot, base |-> Base[1]] \in Url
<1>1. 1 \in 1 .. MaxVer
    BY Wc24Constants
<1>2. Base[1] \in Bases
    BY <1>1, Wc24TitleConstants
<1> QED  BY <1>2, Wc24TitleConstants DEF Url

\* The title's entries have names.
LEMMA UpdatesType == Updates \in Seq(Names)
BY Wc24TitleConstants

\* A plan is made of its steps.
LEMMA PlanType == UpdatePlan \in Seq(Effects) /\ UpdatePlan \in Seq(Names \cup Effects)
<1>1. {"conf", "rminst", "rmver", "boot"} \subseteq Effects
    BY DEF Effects
<1>2. /\ <<"conf", "rminst", "rmver", "boot">> \in Seq(Effects)
      /\ <<"conf", "rminst", "rmver", "boot">> \in Seq(Names \cup Effects)
    BY <1>1
<1>3. <<"rminst", "rmver">> \in Seq(Effects) /\ <<"rminst", "rmver">> \in Seq(Names \cup Effects)
    BY <1>1
<1> QED  BY <1>2, <1>3 DEF UpdatePlan

\* What is left of an order.
LEMMA Seconds ==
    /\ Tail(<<"rec", "ent">>) = <<"ent">> /\ Tail(<<"ent", "rec">>) = <<"rec">>
    /\ Len(<<"rec", "ent">>) = 2 /\ Len(<<"ent", "rec">>) = 2
    /\ Len(<<"rec">>) = 1 /\ Len(<<"ent">>) = 1
    /\ Head(<<"rec", "ent">>) = "rec" /\ Head(<<"ent", "rec">>) = "ent"
    /\ Head(<<"rec">>) = "rec" /\ Head(<<"ent">>) = "ent"
OBVIOUS

\* What is read of the configuration is a configuration.
LEMMA CfgType ==
    ASSUME TypeOK, NEW failed
    PROVE  {CfgRead(failed).first, CfgRead(failed).second} \subseteq Config
BY DEF TypeOK, CfgRead, Config

\* Faults are counted.
LEMMA FailedCount ==
    ASSUME NEW failed \in SUBSET {"cbk", "cfg"}
    PROVE  Cardinality(failed) \in Nat
<1>1. IsFiniteSet({"cbk"} \cup {"cfg"})
    BY FS_Singleton, FS_AddElement, Zenon
<1>2. failed \subseteq {"cbk"} \cup {"cfg"}
    OBVIOUS
<1>3. IsFiniteSet(failed)
    BY <1>1, <1>2, FS_Subset
<1> QED  BY <1>3, FS_CardinalityType

\* WC24_Init leaves values of their types.
LEMMA InitTypes ==
    ASSUME TypeOK, NEW failed \in SUBSET {"cbk", "cfg"}, InitSucceeds(failed)
    PROVE  /\ faults' \in 0 .. MaxFaults /\ ram' \in Config
           /\ init' \in BOOLEAN /\ fd' \in {"closed", "open", "bad"}
BY FailedCount, CfgType, Wc24Constants DEF InitSucceeds, TypeOK

\* KD leaves files of versions there are.
LEMMA FetchType ==
    ASSUME TypeOK, NEW i \in Slot, Fetch(i)
    PROVE  rec' \in [Slot -> Record] /\ file' \in [Files -> Version]
<1>1. served \in 0 .. MaxVer
    BY DEF TypeOK, Version
<1>2. [rec[i] EXCEPT !.last = served] \in Record
    BY <1>1 DEF TypeOK, Record
<1> QED  BY <1>1, <1>2 DEF TypeOK, Fetch, Version

\* The variables start with values of their types.
LEMMA TypeInit == Init => TypeOK
<1> SUFFICES ASSUME Init PROVE TypeOK
    OBVIOUS
<1>1. PICK h \in Homes : LibInit(h.table) /\ asks = h.asks
    BY DEF Init
<1>2. h.table \in [Slot -> Owner] /\ h.asks \subseteq Questions
    BY Wc24TitleConstants
<1>3. rec \in [Slot -> Record] /\ ent \in [Slot -> Entry]
    BY <1>1, <1>2, Owners DEF LibInit
<1>4. job \in JobType
    BY <1>1, FirstSlot, DoneType DEF LibInit, NoJob
<1>5. 0 \in Version /\ 1 \in Version
    BY Wc24Constants DEF Version
<1>6. {cbk, cfg, ram} \subseteq Config /\ fd \in {"closed", "open", "bad"} /\ ret \in {"ok", "err"}
    BY <1>1 DEF LibInit, Config
<1>7. init \in BOOLEAN /\ torn \in BOOLEAN /\ {clean, restored, blind} \subseteq BOOLEAN
    BY <1>1, Zenon DEF LibInit, Init
<1>8. cfgleft \in 0 .. 2 /\ faults \in 0 .. MaxFaults /\ hurt \subseteq Slot
    BY <1>1, Wc24Constants DEF LibInit
<1>9. prog \in Programs /\ phase \in Phases /\ code \in Kinds
    BY DEF Init, Programs, Phases, Kinds
<1>10. purging \in Ids \cup {NoId} /\ todo \in Seq(Names \cup Effects)
    BY DEF Init
<1>11. {installed, served, booted} \subseteq Version /\ dol \in [runs : Version, for : Version]
       /\ vff \in BOOLEAN /\ file \in [Files -> Version]
    BY <1>5 DEF Init, NoDol, NoFiles
<1> QED  BY <1>1, <1>2, <1>3, <1>4, <1>6, <1>7, <1>8, <1>9, <1>10, <1>11 DEF TypeOK, JobType

\* A write of a call keeps the types.
LEMMA WriteType == ASSUME TypeOK, Write PROVE TypeOK'
<1>1. CASE WriteSlot
    <2>1. job.left \in Orders /\ job.left # <<>> /\ job.at \in Slot /\ job.rec \in Record /\ job.ent \in Entry
        BY <1>1 DEF WriteSlot, TypeOK
    <2>2. Len(job.left) # 1 => Tail(job.left) \in Orders
        BY <2>1, Seconds DEF Orders
    <2>3. Done(job.at) \in JobType
        BY <2>1, DoneType
    <2>4. job' \in JobType
        BY <1>1, <2>2, <2>3 DEF WriteSlot, TypeOK, JobType
    <2>5. fd' \in {"closed", "open", "bad"} /\ faults' \in 0 .. MaxFaults
        BY <1>1, Accesses DEF WriteSlot
    <2>6. rec' \in [Slot -> Record] /\ ent' \in [Slot -> Entry] /\ hurt' \subseteq Slot
          /\ ret' \in {"ok", "err"}
        BY <1>1, <2>1 DEF WriteSlot, TypeOK
    <2> QED  BY <1>1, <2>4, <2>5, <2>6 DEF Write, WriteSlot, TypeOK, JobType, Watch, Update, Data, Past
<1>2. CASE WriteConfig /\ UNCHANGED fd
    <2>1. cfgleft' \in 0 .. 2 /\ faults' \in 0 .. MaxFaults
        BY <1>2, Wc24Constants DEF WriteConfig, TypeOK
    <2>3. torn' \in BOOLEAN
        BY <1>2, Zenon DEF WriteConfig, TypeOK
    <2>2. {cbk', cfg'} \subseteq Config
        BY <1>2 DEF WriteConfig, TypeOK
    <2> QED  BY <1>2, <2>1, <2>2, <2>3 DEF Write, WriteConfig, TypeOK, Watch, Update, Data, Past
<1> QED  BY <1>1, <1>2 DEF Write

\* So does the end of a program.
LEMMA ForgetTypes ==
    ASSUME Forget
    PROVE  /\ init' \in BOOLEAN /\ fd' \in {"closed", "open", "bad"} /\ ram' \in Config
           /\ job' \in JobType /\ cfgleft' \in 0 .. 2 /\ ret' \in {"ok", "err"}
<1>1. job' \in JobType
    BY FirstSlot, DoneType DEF Forget, NoJob
<1>2. init' \in BOOLEAN
    BY Zenon DEF Forget
<1> QED  BY <1>1, <1>2 DEF Forget, Config

\* A step keeps the types.
LEMMA TypeStep == TypeOK /\ Held /\ [Next]_vars => TypeOK'
<1> SUFFICES ASSUME TypeOK, Held, [Next]_vars PROVE TypeOK'
    OBVIOUS
<1> USE DEF Update, Data, Past, Table, Theirs, libvars
<1>1. ASSUME NEW p \in Programs, NEW first \in Phases, Starts(p, first)
      PROVE  /\ faults' \in 0 .. MaxFaults /\ ram' \in Config /\ init' \in BOOLEAN
             /\ fd' \in {"closed", "open", "bad"} /\ prog' \in Programs /\ phase' \in Phases
             /\ {clean', blind'} \subseteq BOOLEAN
    <2>1. PICK failed \in SUBSET {"cbk", "cfg"} :
            /\ InitSucceeds(failed)
            /\ blind' = (blind \/ failed = {"cbk", "cfg"})
            /\ clean' = (hurt = {} /\ failed = {})
        BY <1>1 DEF Starts
    <2> QED  BY <1>1, <2>1, InitTypes DEF Starts, TypeOK
<1>2. "app" \in Programs /\ "boot" \in Programs /\ "inst" \in Programs
      /\ {"menu", "names", "args", "purge"} \subseteq Phases
    BY DEF Programs, Phases
<1>3. CASE StartApp
    BY <1>3, <1>1, <1>2 DEF StartApp, TypeOK
<1>4. CASE StartBoot
    <2>1. /\ Starts("boot", "names") \/ Starts("boot", "args")
          /\ vff' \in {vff, TRUE} /\ todo' \in {Updates, todo}
          /\ code' = code \/ code' \in Codes
        BY <1>4 DEF StartBoot
    <2>2. /\ faults' \in 0 .. MaxFaults /\ ram' \in Config /\ init' \in BOOLEAN
          /\ fd' \in {"closed", "open", "bad"} /\ prog' \in Programs /\ phase' \in Phases
          /\ {clean', blind'} \subseteq BOOLEAN
        BY <2>1, <1>1, <1>2
    <2>3. vff' \in BOOLEAN
        BY <2>1, Zenon DEF TypeOK
    <2>4. todo' \in Seq(Names \cup Effects) /\ code' \in Kinds
        BY <2>1, UpdatesType DEF TypeOK, Codes, Kinds
    <2> QED  BY <1>4, <2>2, <2>3, <2>4 DEF StartBoot, TypeOK
<1>5. CASE StartInstaller
    <2>1. 0 \in Version /\ TitleId \in Ids
        BY Wc24Constants, Wc24TitleConstants DEF Version
    <2>2. /\ faults' \in 0 .. MaxFaults /\ ram' \in Config /\ init' \in BOOLEAN
          /\ fd' \in {"closed", "open", "bad"} /\ prog' \in Programs /\ phase' \in Phases
          /\ {clean', blind'} \subseteq BOOLEAN
        <3>1. CASE Starts("inst", "purge")
            BY <3>1, <1>1, <1>2
        <3>2. CASE InitRefuses /\ prog' = "inst" /\ phase' = "purge" /\ clean' = FALSE /\ UNCHANGED blind
            <4>1. faults' \in 0 .. MaxFaults /\ ram' \in Config /\ fd' \in {"closed", "open", "bad"}
                BY <3>2, Wc24Constants DEF InitRefuses, TypeOK, Config
            <4>2. init' \in BOOLEAN /\ {clean', blind'} \subseteq BOOLEAN
                BY <3>2, Zenon DEF InitRefuses, TypeOK
            <4> QED  BY <3>2, <4>1, <4>2, <1>2
        <3> QED  BY <1>5, <3>1, <3>2 DEF StartInstaller
    <2>3. /\ installed' \in Version /\ booted' \in Version
          /\ file' \in [Files -> Version]
        BY <1>5, <2>1 DEF StartInstaller, DeleteTitle, NoFiles, TypeOK
    <2>4. vff' \in BOOLEAN
        BY <1>5, Zenon DEF StartInstaller, DeleteTitle, TypeOK
    <2> QED  BY <1>5, <2>1, <2>2, <2>3, <2>4 DEF StartInstaller, TypeOK
<1>6. CASE Install
    BY <1>6, Wc24Constants DEF Install, TypeOK, Version
<1>7. CASE End
    BY <1>7, ForgetTypes, Wc24Constants DEF End, TypeOK, Programs, Phases, Kinds, NoDol, Version, JobType
<1>8. CASE Crash
    <2>1. Forget /\ faults' \in 0 .. MaxFaults /\ hurt' \subseteq Slot
        BY <1>8, Wc24Constants DEF Crash, PowerLoss, TypeOK
    <2>2. torn' \in BOOLEAN /\ clean' \in BOOLEAN
        BY <1>8, Zenon DEF Crash, PowerLoss
    <2> QED  BY <1>8, <2>1, <2>2, ForgetTypes, Wc24Constants
             DEF Crash, PowerLoss, TypeOK, Programs, Phases, Kinds, NoDol, Version, JobType
<1>9. CASE Write
    BY <1>9, WriteType
<1>10. CASE AppInstall
    <2>1. PICK id \in OtherIds \cup {NoId} : CreateRecord(id, AppUrl, AppId)
        BY <1>10 DEF AppInstall
    <2>2. id \in Ids \cup {NoId} /\ AppUrl \in Url /\ AppId \in Ids
        BY Wc24TitleConstants
    <2> QED  BY <1>10, <2>1, <2>2, CreateType DEF AppInstall, TypeOK, Watch, JobType
<1>11. CASE AppDelete
    BY <1>11, Wc24TitleConstants DEF AppDelete, TypeOK, Phases
<1>12. CASE AppRestore
    <2>1. PICK i \in FindEntry(AppId, {AppUrl}) :
            Begin(i, RecordOf(Backup[i]), EntryOf(i, Backup[i]), <<"ent", "rec">>, FALSE)
        BY <1>12 DEF AppRestore
    <2>2. i \in Slot
        BY Searched, Wc24TitleConstants
    <2>3. Backup[i] \in Owner
        BY <2>2, Wc24TitleConstants
    <2>4. job' \in JobType
        BY <2>1, <2>2, <2>3, BeginJob
    <2> QED  BY <1>12, <2>4, Accesses DEF AppRestore, TypeOK, JobType
<1>13. CASE AppFlag
    BY <1>13 DEF AppFlag, TypeOK, Config, Phases
<1>14. CASE AppQuit
    BY <1>14 DEF AppQuit, TypeOK, Phases
<1>15. CASE Purge
    <2>1. job' \in JobType
        <3>1. \A i \in FindRecord(purging) : i \in Slot
            BY Searched DEF TypeOK
        <3>2. (\E i \in FindRecord(purging) : DeleteRecord(i)) => job' \in JobType
            BY <3>1, DeleteStep
        <3> QED  BY <1>15, <3>2 DEF Purge, TypeOK, JobType
    <2>2. fd' \in {"closed", "open", "bad"} /\ faults' \in 0 .. MaxFaults
        BY <1>15, Accesses DEF Purge
    <2>3. phase' \in Phases /\ purging' \in Ids \cup {NoId} /\ ret' = "ok" /\ clean' \in BOOLEAN
        BY <1>15 DEF Purge, TypeOK, Phases, Watch
    <2> QED  BY <1>15, <2>1, <2>2, <2>3 DEF Purge, TypeOK, JobType
<1>16. CASE CheckEntry
    <2>1. job' \in JobType
        <3>1. \A i \in FindEntry(TitleId, Like(Head(todo))) : i \in Slot
            BY Searched, Wc24TitleConstants
        <3>2. (\E i \in FindEntry(TitleId, Like(Head(todo))) : DeleteRecord(i)) => job' \in JobType
            BY <3>1, DeleteStep
        <3> QED  BY <1>16, <3>2 DEF CheckEntry, TypeOK, JobType
    <2>2. fd' \in {"closed", "open", "bad"} /\ faults' \in 0 .. MaxFaults
        BY <1>16, Accesses DEF CheckEntry
    <2>3. phase' \in Phases /\ todo' \in Seq(Names \cup Effects)
        <3>1. todo \in Seq(Names \cup Effects) /\ todo # <<>> /\ phase = "names"
            BY <1>16 DEF CheckEntry, TypeOK
        <3>2. Tail(todo) \in Seq(Names \cup Effects)
            BY <3>1
        <3>3. todo' \in {todo, Tail(todo)} /\ phase' \in {"names", "recreate"}
            BY <1>16, <3>1 DEF CheckEntry
        <3> QED  BY <3>1, <3>2, <3>3 DEF Phases
    <2>4. ret' = ret /\ clean' \in BOOLEAN
        BY <1>16 DEF CheckEntry, TypeOK, Watch
    <2> QED  BY <1>16, <2>1, <2>2, <2>3, <2>4 DEF CheckEntry, TypeOK, JobType
<1>17. CASE CreateEntry
    <2>1. Wanted(Head(todo)) \in Url /\ TitleId \in Ids
        BY <1>17, WantedType, Wc24TitleConstants DEF CreateEntry, Held
    <2> QED  BY <1>17, <2>1, CreateType DEF CreateEntry, TypeOK, Watch, JobType, Phases
<1>18. CASE EntryCreated
    <2>1. todo \in Seq(Names) /\ todo # <<>>
        BY <1>18 DEF EntryCreated, Held
    <2>2. Tail(todo) \in Seq(Names \cup Effects)
        <3>1. todo \in Seq(Names \cup Effects) /\ todo # <<>>
            BY <2>1 DEF TypeOK
        <3> QED  BY <3>1
    <2>3. todo' \in Seq(Names \cup Effects)
        <3>1. todo' = Tail(todo) \/ todo' = <<>>
            BY <1>18 DEF EntryCreated
        <3>2. <<>> \in Seq(Names \cup Effects)
            OBVIOUS
        <3> QED  BY <2>2, <3>1, <3>2, Zenon
    <2>4. code' \in Kinds /\ phase' \in Phases
        BY <1>18 DEF EntryCreated, TypeOK, Phases, Codes, Kinds
    <2> QED  BY <1>18, <2>3, <2>4 DEF EntryCreated, TypeOK
<1>19. CASE EntriesChecked
    BY <1>19, UpdatesType DEF EntriesChecked, TypeOK, Phases
<1>20. CASE DownloadEntry
    <2>1. rec' \in [Slot -> Record] /\ file' \in [Files -> Version]
        <3>1. \A i \in FindEntry(TitleId, {Wanted(Head(todo))}) : i \in Slot
            BY Searched, Wc24TitleConstants
        <3> QED  BY <1>20, <3>1, FetchType DEF DownloadEntry, TypeOK
    <2>2. fd' \in {"closed", "open", "bad"} /\ faults' \in 0 .. MaxFaults
        BY <1>20, Accesses DEF DownloadEntry, TypeOK
    <2>3. todo' \in Seq(Names \cup Effects)
        BY <1>20 DEF DownloadEntry, TypeOK
    <2> QED  BY <1>20, <2>1, <2>2, <2>3 DEF DownloadEntry, TypeOK, Watch
<1>21. CASE Background
    BY <1>21, FetchType DEF Background, TypeOK
<1>22. CASE Publish
    BY <1>22, Wc24Constants DEF Publish, TypeOK, Version
<1>23. CASE CheckUpdate
    <2>1. file' \in [Files -> Version]
        BY <1>23 DEF CheckUpdate, TypeOK, KnownVersion, Files
    <2>2. todo' \in Seq(Names \cup Effects) /\ phase' \in Phases
        BY <1>23, PlanType DEF CheckUpdate, TypeOK, Phases
    <2> QED  BY <1>23, <2>1, <2>2 DEF CheckUpdate, TypeOK, Codes, Kinds
<1>24. CASE UpdateStep
    <2>1. file' \in [Files -> Version]
        <3>1. 0 \in Version /\ file["verinfo"] \in Version
            BY Wc24Constants DEF TypeOK, Files, Version
        <3>2. todo \in Seq(Effects) /\ todo # <<>> /\ Head(todo) # "boot"
            BY <1>24 DEF UpdateStep, Held
        <3>3. Head(todo) \in {"conf", "rminst", "rmver"}
            BY <3>2 DEF Effects
        <3> QED  BY <1>24, <3>1, <3>3 DEF UpdateStep, TypeOK, Files
    <2>2. dol' \in [runs : Version, for : Version] /\ todo' \in Seq(Names \cup Effects)
        BY <1>24 DEF UpdateStep, TypeOK, Files
    <2> QED  BY <1>24, <2>1, <2>2 DEF UpdateStep, TypeOK
<1>25. CASE NoUpdate
    BY <1>25 DEF NoUpdate, TypeOK, Phases
<1>26. CASE BootInstaller
    BY <1>26 DEF BootInstaller, TypeOK, Phases
<1>27. CASE DropInstaller
    BY <1>27 DEF DropInstaller, TypeOK, Phases
<1>28. CASE BootArgs
    <2>1. NoId \in Ids \cup {NoId} /\ TitleId \in Ids
        BY Wc24TitleConstants
    <2>2. /\ fd' \in {"closed", "open", "bad"} /\ faults' \in 0 .. MaxFaults
          /\ job' \in JobType /\ ret' \in {"ok", "err"} /\ phase' \in Phases
        BY <1>28, <2>1, OneShotType, CreateType DEF BootArgs, TypeOK, Phases, JobType
    <2> QED  BY <1>28, <2>2 DEF BootArgs, TypeOK, Watch, JobType
<1>29. CASE EndOneShot
    <2>1. job' \in JobType
        BY <1>29, DeleteStep DEF EndOneShot, TypeOK, JobType
    <2> QED  BY <1>29, <2>1 DEF EndOneShot, TypeOK, JobType, Phases
<1>30. CASE UNCHANGED vars
    BY <1>30 DEF vars, titlevars, TypeOK
<1> QED  BY <1>3, <1>4, <1>5, <1>6, <1>7, <1>8, <1>9, <1>10, <1>11, <1>12, <1>13, <1>14, <1>15,
            <1>16, <1>17, <1>18, <1>19, <1>20, <1>21, <1>22, <1>23, <1>24, <1>25, <1>26, <1>27,
            <1>28, <1>29, <1>30
         DEF Next, Program

-----------------------------------------------------------------------------
(* Where the programs are *)

\* The rest of a sequence.
LEMMA RestOfNames ==
    ASSUME NEW S, NEW s \in Seq(S), s # <<>> PROVE Tail(s) \in Seq(S) /\ Head(s) \in S
OBVIOUS

\* At first no program runs.
LEMMA HeldInit == Init => Held
BY DEF Init, LibInit, NoJob, Done, Idle, Held

\* Each step of a program finds and leaves what its place says.
LEMMA HeldStep == TypeOK /\ Held /\ [Next]_vars => Held'
<1> SUFFICES ASSUME TypeOK, Held, [Next]_vars PROVE Held'
    OBVIOUS
<1> USE DEF Held, Idle, Update, Data, Past, Table, Theirs, libvars
<1>1. CASE StartApp
    BY <1>1 DEF StartApp, Starts
<1>2. CASE StartBoot
    BY <1>2, UpdatesType DEF StartBoot, Starts
<1>3. CASE StartInstaller
    BY <1>3, Wc24TitleConstants DEF StartInstaller, Starts
<1>4. CASE Install
    <2>1. installed' # 0
        BY <1>4, Wc24Constants DEF Install, TypeOK, Version
    <2> QED  BY <1>4, <2>1 DEF Install
<1>5. CASE End
    BY <1>5 DEF End, Forget, NoJob, Done
<1>6. CASE Crash
    BY <1>6 DEF Crash, PowerLoss, Forget, NoJob, Done
<1>7. CASE Write
    <2>1. CASE WriteSlot
        BY <1>7, <2>1 DEF Write, WriteSlot
    <2>2. CASE WriteConfig
        BY <1>7, <2>2 DEF Write, WriteConfig
    <2> QED  BY <1>7, <2>1, <2>2 DEF Write
<1>8. CASE AppInstall
    BY <1>8 DEF AppInstall
<1>9. CASE AppDelete
    BY <1>9, Wc24TitleConstants DEF AppDelete
<1>10. CASE AppRestore
    BY <1>10 DEF AppRestore
<1>11. CASE AppFlag
    BY <1>11 DEF AppFlag
<1>12. CASE AppQuit
    BY <1>12 DEF AppQuit
<1>13. CASE Purge
    BY <1>13 DEF Purge
<1>14. CASE CheckEntry
    <2>1. todo \in Seq(Names) /\ todo # <<>>
        BY <1>14 DEF CheckEntry
    <2>2. Tail(todo) \in Seq(Names)
        BY <2>1, RestOfNames
    <2> QED  BY <1>14, <2>1, <2>2 DEF CheckEntry
<1>15. CASE CreateEntry
    BY <1>15 DEF CreateEntry
<1>16. CASE EntryCreated
    <2>1. todo \in Seq(Names) /\ todo # <<>>
        BY <1>16 DEF EntryCreated
    <2>2. Tail(todo) \in Seq(Names)
        BY <2>1, RestOfNames
    <2> QED  BY <1>16, <2>2 DEF EntryCreated
<1>17. CASE EntriesChecked
    BY <1>17, UpdatesType DEF EntriesChecked
<1>18. CASE DownloadEntry
    <2>1. todo \in Seq(Names) /\ todo # <<>>
        BY <1>18 DEF DownloadEntry
    <2>2. Tail(todo) \in Seq(Names)
        BY <2>1, RestOfNames
    <2> QED  BY <1>18, <2>2 DEF DownloadEntry
<1>19. CASE Background
    BY <1>19 DEF Background
<1>20. CASE Publish
    BY <1>20 DEF Publish
<1>21. CASE CheckUpdate
    BY <1>21, PlanType DEF CheckUpdate
<1>22. CASE UpdateStep
    <2>1. todo \in Seq(Effects) /\ todo # <<>>
        BY <1>22 DEF UpdateStep
    <2>2. Tail(todo) \in Seq(Effects)
        BY <2>1, RestOfNames
    <2> QED  BY <1>22, <2>2 DEF UpdateStep
<1>23. CASE NoUpdate
    BY <1>23 DEF NoUpdate
<1>24. CASE BootInstaller
    BY <1>24 DEF BootInstaller
<1>25. CASE DropInstaller
    BY <1>25 DEF DropInstaller
<1>26. CASE BootArgs
    BY <1>26 DEF BootArgs
<1>27. CASE EndOneShot
    BY <1>27 DEF EndOneShot
<1>28. CASE UNCHANGED vars
    BY <1>28 DEF vars, titlevars
<1> QED  BY <1>1, <1>2, <1>3, <1>4, <1>5, <1>6, <1>7, <1>8, <1>9, <1>10, <1>11, <1>12, <1>13,
            <1>14, <1>15, <1>16, <1>17, <1>18, <1>19, <1>20, <1>21, <1>22, <1>23, <1>24, <1>25,
            <1>26, <1>27, <1>28
         DEF Next, Program

-----------------------------------------------------------------------------
(* The two tables *)

Slots == TablesAgree /\ IndexIsSlot /\ Zeros /\ Parts /\ Called

\* Between calls only damaged slots differ.
LEMMA NoneLeft ==
    ASSUME job.left = <<>>, TablesAgree
    PROVE  \A i \in Slot : rec[i].ID # ent[i].ID => i \in hurt
<1>1. Len(job.left) # 1
    OBVIOUS
<1> QED  BY <1>1 DEF TablesAgree

\* A step that leaves the tables' owners and the job alone.
LEMMA SlotsUntouched ==
    ASSUME TypeOK, Slots, UNCHANGED <<ent, job, hurt>>,
           \A i \in Slot : rec'[i].ID = rec[i].ID,
           job.left = <<>> \/ UNCHANGED <<phase, purging, todo>>
    PROVE  Slots'
<1>1. job.at \in Slot
    BY DEF TypeOK
<1>2. TablesAgree' /\ IndexIsSlot' /\ Zeros'
    BY DEF Slots, TablesAgree, IndexIsSlot, Zeros
<1>3. Parts'
    BY <1>1 DEF Slots, Parts
<1>4. Called'
    BY <1>1 DEF Slots, Called, MayChange, OwnerOf
<1> QED  BY <1>2, <1>3, <1>4 DEF Slots

\* A call that begins has changed nothing yet.
LEMMA SlotsBegun ==
    ASSUME TypeOK, Slots, job.left = <<>>, UNCHANGED <<rec, ent, hurt>>,
           NEW i \in Slot, NEW o \in Owner, NEW strict \in BOOLEAN,
           NEW order \in {<<"rec", "ent">>, <<"ent", "rec">>},
           Begin(i, RecordOf(o), EntryOf(i, o), order, strict), strict => order = <<"rec", "ent">>,
           Called'
    PROVE  Slots'
<1>1. \A j \in Slot : rec[j].ID # ent[j].ID => j \in hurt
    BY NoneLeft DEF Slots
<1>2. TablesAgree' /\ IndexIsSlot' /\ Zeros'
    BY <1>1 DEF Slots, TablesAgree, IndexIsSlot, Zeros
<1>3. /\ job'.at = i /\ job'.rec = RecordOf(o) /\ job'.ent = EntryOf(i, o)
      /\ job'.left = order /\ job'.strict = strict /\ job'.ok = TRUE
    BY BeginJob
<1>4. order # <<"rec">> /\ order # <<"ent">>
    BY Seconds
<1>5. /\ job'.ent.index = job'.at /\ job'.rec.ID = job'.ent.ID
      /\ job'.ent.ID = NoId => job'.ent.url = NoUrl
    BY <1>3, Owners
<1>6. Parts'
    BY <1>3, <1>4, <1>5 DEF Parts
<1> QED  BY <1>2, <1>6 DEF Slots

\* WC24_CreateRecord begins in the slot of the owner, or one not in use.
LEMMA SlotsCreated ==
    ASSUME TypeOK, Slots, job.left = <<>>, UNCHANGED <<rec, ent, hurt>>,
           NEW i \in Slot, NEW o \in Owner, o.ID # NoId,
           Begin(i, RecordOf(o), EntryOf(i, o), <<"rec", "ent">>, TRUE),
           Reserved <= i \/ ent[i].ID # NoId,
           rec[i].ID = NoId \/ ent[i].ID = NoId \/ OwnerOf(ent[i]) = o
    PROVE  Slots'
<1>1. /\ job'.at = i /\ job'.rec = RecordOf(o) /\ job'.ent = EntryOf(i, o)
      /\ job'.left = <<"rec", "ent">> /\ job'.strict = TRUE
    BY BeginJob
<1>2. job'.rec.ID # NoId
    BY <1>1, Owners
<1>3. OwnerOf(job'.ent) = o
    BY <1>1, Owners DEF OwnerOf, EntryOf, Owner, NoOwner
<1>4. i \in hurt \/ ent[i].ID = NoId \/ OwnerOf(ent[i]) = o
    BY NoneLeft DEF Slots
<1>5. Called'
    BY <1>1, <1>2, <1>3, <1>4 DEF Called, OwnerOf
<1> QED  BY <1>5, SlotsBegun

\* WC24_DeleteRecord begins where the program may delete.
LEMMA SlotsDeleted ==
    ASSUME TypeOK, Slots, job.left = <<>>, UNCHANGED <<rec, ent, hurt>>,
           NEW i \in Slot, DeleteRecord(i), i \in hurt \/ MayChange(i)'
    PROVE  Slots'
<1>1. /\ job'.at = i /\ job'.rec = EmptyRecord /\ job'.strict = TRUE
    BY DeleteStep
<1>2. job'.rec.ID = NoId
    BY DeleteStep
<1>3. Called'
    BY <1>1, <1>2 DEF Called
<1>4. Begin(i, RecordOf(NoOwner), EntryOf(i, NoOwner), <<"rec", "ent">>, TRUE) /\ NoOwner \in Owner
    BY Nobody DEF DeleteRecord
<1> QED  BY <1>3, <1>4, SlotsBegun

\* The power goes: the slot being written is known to be damaged.
LEMMA SlotsLost ==
    ASSUME TypeOK, Slots, PowerLoss
    PROVE  Slots'
<1>1. job' = NoJob /\ UNCHANGED <<rec, ent>> /\ NoJob.left = <<>>
    BY DEF PowerLoss, Forget, NoJob, Done
<1>2. Parts' /\ Called'
    BY <1>1 DEF Parts, Called
<1>3. \A i \in Slot : rec[i].ID # ent[i].ID => i \in hurt'
    BY DEF PowerLoss, Slots, TablesAgree
<1>4. TablesAgree' /\ IndexIsSlot' /\ Zeros'
    BY <1>1, <1>3 DEF Slots, TablesAgree, IndexIsSlot, Zeros
<1> QED  BY <1>2, <1>4 DEF Slots

\* A write of a call: the slot is whole again, or half written and known to be.
LEMMA SlotsWritten ==
    ASSUME TypeOK, Slots, WriteSlot, UNCHANGED <<phase, purging, todo>>
    PROVE  Slots'
<1> DEFINE a == job.at
<1>1. /\ a \in Slot /\ job.left # <<>> /\ job.left \in Orders
      /\ job.ent \in Entry /\ job.rec \in Record
    BY DEF TypeOK, WriteSlot
<1>2. /\ job.ent.index = a /\ job.rec.ID = job.ent.ID
      /\ job.ent.ID = NoId => job.ent.url = NoUrl
      /\ job.left = <<"rec">> /\ job.ok => ent[a].ID = job.ent.ID
      /\ job.left = <<"ent">> /\ job.ok => rec[a].ID = job.rec.ID
      /\ job.ok \/ a \in hurt
      /\ job.strict => job.ok /\ job.left \in {<<"ent">>, <<"rec", "ent">>}
    BY <1>1 DEF Slots, Parts
<1>3. \/ job.left \in {<<"rec">>, <<"ent">>} /\ Len(job.left) = 1
      \/ job.left \in {<<"rec", "ent">>, <<"ent", "rec">>} /\ Len(job.left) = 2
    BY <1>1, Seconds DEF Orders
<1>4. /\ rec' = rec \/ rec' = [rec EXCEPT ![a] = job.rec]
      /\ ent' = ent \/ ent' = [ent EXCEPT ![a] = job.ent]
    BY DEF WriteSlot
<1>5. IndexIsSlot' /\ Zeros'
    BY <1>1, <1>2, <1>4 DEF Slots, IndexIsSlot, Zeros, TypeOK
<1>6. Done(a).left = <<>> /\ Done(a).at = a
    BY DEF Done
<1>7. \A i \in Slot : i # a /\ rec'[i].ID # ent'[i].ID => i \in hurt'
    <2>1. \A i \in Slot : i # a => rec'[i] = rec[i] /\ ent'[i] = ent[i]
        BY <1>4 DEF TypeOK
    <2>2. hurt' = hurt \/ hurt' = hurt \ {a} \/ hurt' = hurt \cup {a}
        BY DEF WriteSlot
    <2> QED  BY <2>1, <2>2 DEF Slots, TablesAgree
<1>8. \/ /\ \/ Head(job.left) = "rec" /\ rec' = [rec EXCEPT ![a] = job.rec] /\ ent' = ent
            \/ Head(job.left) # "rec" /\ ent' = [ent EXCEPT ![a] = job.ent] /\ rec' = rec
         /\ job' = IF Len(job.left) = 1 THEN Done(a) ELSE [job EXCEPT !.left = Tail(@)]
         /\ hurt' = IF Len(job.left) = 1 /\ job.ok THEN hurt \ {a} ELSE hurt
      \/ /\ UNCHANGED <<rec, ent>>
         /\ job' = IF job.strict \/ Len(job.left) = 1 THEN Done(a)
                   ELSE [job EXCEPT !.left = Tail(@), !.ok = FALSE]
         /\ hurt' = IF job.strict /\ Len(job.left) = 2 THEN hurt ELSE hurt \cup {a}
    BY DEF WriteSlot
<1>9. rec \in [Slot -> Record] /\ ent \in [Slot -> Entry] /\ job \in JobType
    BY DEF TypeOK, JobType
<1>10. CASE job.left \in {<<"rec">>, <<"ent">>} /\ Len(job.left) = 1
    <2>1. job' = Done(a)
        BY <1>8, <1>10
    <2>2. a \in hurt' \/ rec'[a].ID = ent'[a].ID
        <3>1. CASE job.left = <<"rec">>
            BY <1>1, <1>2, <1>8, <1>9, <1>10, <3>1, Seconds
        <3>2. CASE job.left = <<"ent">>
            BY <1>1, <1>2, <1>8, <1>9, <1>10, <3>2, Seconds
        <3> QED  BY <1>10, <3>1, <3>2
    <2>3. Parts' /\ Called'
        BY <2>1, <1>6 DEF Parts, Called
    <2> QED  BY <1>5, <1>7, <2>2, <2>3 DEF Slots, TablesAgree
<1>11. CASE job.left \in {<<"rec", "ent">>, <<"ent", "rec">>} /\ Len(job.left) = 2
    <2>1. CASE job' = Done(a) /\ UNCHANGED <<rec, ent, hurt>>
        <3>1. Parts' /\ Called'
            BY <2>1, <1>6 DEF Parts, Called
        <3>2. a \in hurt \/ rec[a].ID = ent[a].ID
            BY <1>1, <1>11 DEF Slots, TablesAgree
        <3> QED  BY <1>5, <1>7, <2>1, <3>1, <3>2 DEF Slots, TablesAgree
    <2>2. CASE /\ ~job.strict /\ job' = [job EXCEPT !.left = Tail(@), !.ok = FALSE]
               /\ UNCHANGED <<rec, ent>> /\ hurt' = hurt \cup {a}
        <3>1. /\ job'.at = a /\ job'.rec = job.rec /\ job'.ent = job.ent /\ ~job'.strict
              /\ ~job'.ok /\ job'.left = Tail(job.left)
            BY <1>9, <2>2 DEF JobType
        <3>2. Parts'
            BY <1>2, <2>2, <3>1 DEF Parts
        <3>3. Called'
            BY <1>1, <2>2, <3>1 DEF Slots, Called
        <3> QED  BY <1>5, <1>7, <2>2, <3>2, <3>3 DEF Slots, TablesAgree
    <2>3. CASE /\ job' = [job EXCEPT !.left = Tail(@)] /\ hurt' = hurt
               /\ \/ Head(job.left) = "rec" /\ rec' = [rec EXCEPT ![a] = job.rec] /\ ent' = ent
                  \/ Head(job.left) # "rec" /\ ent' = [ent EXCEPT ![a] = job.ent] /\ rec' = rec
        <3>1. /\ job'.at = a /\ job'.rec = job.rec /\ job'.ent = job.ent /\ job'.strict = job.strict
              /\ job'.ok = job.ok /\ job'.left = Tail(job.left)
            BY <1>9, <2>3 DEF JobType
        <3>2. CASE job.left = <<"rec", "ent">>
            <4>1. rec'[a] = job.rec /\ ent' = ent /\ job'.left = <<"ent">>
                BY <1>1, <1>9, <2>3, <3>1, <3>2, Seconds
            <4>2. Parts'
                BY <1>2, <2>3, <3>1, <3>2, <4>1, Seconds DEF Parts
            <4>3. Called'
                BY <1>1, <2>3, <3>1, <4>1 DEF Slots, Called, MayChange, OwnerOf
            <4>4. Len(job'.left) = 1
                BY <4>1, Seconds
            <4> QED  BY <1>5, <1>7, <3>1, <4>2, <4>3, <4>4 DEF Slots, TablesAgree
        <3>3. CASE job.left = <<"ent", "rec">>
            <4>1. ent'[a] = job.ent /\ rec' = rec /\ job'.left = <<"rec">>
                BY <1>1, <1>9, <2>3, <3>1, <3>3, Seconds
            <4>2. ~job.strict
                BY <1>2, <3>3
            <4>3. Parts'
                BY <1>2, <2>3, <3>1, <3>3, <4>1, <4>2, Seconds DEF Parts
            <4>4. Called'
                BY <1>1, <1>2, <2>3, <3>1, <4>1, <4>2 DEF Slots, Called
            <4>5. Len(job'.left) = 1
                BY <4>1, Seconds
            <4> QED  BY <1>5, <1>7, <3>1, <4>3, <4>4, <4>5 DEF Slots, TablesAgree
        <3> QED  BY <1>11, <3>2, <3>3
    <2> QED  BY <1>8, <1>11, <2>1, <2>2, <2>3
<1> QED  BY <1>3, <1>10, <1>11

\* The end of a program leaves the tables alone.
LEMMA SlotsDropped ==
    ASSUME TypeOK, Slots, job.left = <<>>, job' = NoJob, UNCHANGED <<rec, ent, hurt>>
    PROVE  Slots'
<1>1. NoJob.left = <<>>
    BY DEF NoJob, Done
<1>2. \A i \in Slot : rec[i].ID # ent[i].ID => i \in hurt
    BY NoneLeft DEF Slots
<1> QED  BY <1>1, <1>2 DEF Slots, TablesAgree, IndexIsSlot, Zeros, Parts, Called

\* What WC24_CreateRecord does to the tables, whoever calls it.
LEMMA SlotsOfCreate ==
    ASSUME TypeOK, Slots, job.left = <<>>, UNCHANGED <<rec, ent, hurt>>,
           NEW id \in Ids \cup {NoId}, NEW url \in Url, NEW title \in Ids,
           CreateRecord(id, url, title)
    PROVE  Slots'
<1>1. CASE job' = job
    <2>1. \A j \in Slot : rec'[j].ID = rec[j].ID
        OBVIOUS
    <2> QED  BY <1>1, <2>1, SlotsUntouched
<1>2. CASE job' # job
    <2> DEFINE o == OwnerFor(id, url, title)
    <2>1. o \in Owner /\ o.ID # NoId
        BY OwnerForType
    <2>2. \E i \in Slot :
            /\ Begin(i, RecordOf(o), EntryOf(i, o), <<"rec", "ent">>, TRUE)
            /\ Reserved <= i \/ ent[i].ID # NoId
            /\ rec[i].ID = NoId \/ ent[i].ID = NoId \/ OwnerOf(ent[i]) = o
        BY <1>2, CreateStep
    <2> HIDE DEF o
    <2> QED  BY <2>1, <2>2, SlotsCreated
<1> QED  BY <1>1, <1>2

\* A download changes nobody's slot.
LEMMA FetchKeeps ==
    ASSUME TypeOK, NEW i \in Slot, Fetch(i)
    PROVE  \A j \in Slot : rec'[j].ID = rec[j].ID
<1>1. rec' = [rec EXCEPT ![i].last = served] /\ rec \in [Slot -> Record]
    BY DEF Fetch, TypeOK
<1> QED  BY <1>1 DEF Record

\* The Wii's own list is whole.
LEMMA SlotsInit == Init => Slots
<1> SUFFICES ASSUME Init PROVE Slots
    OBVIOUS
<1>1. PICK h \in Homes : LibInit(h.table)
    BY DEF Init
<1>2. h.table \in [Slot -> Owner]
    BY Wc24TitleConstants
<1>3. \A i \in Slot : /\ rec[i] = RecordOf(h.table[i]) /\ ent[i] = EntryOf(i, h.table[i])
                      /\ h.table[i] \in Owner
    BY <1>1, <1>2 DEF LibInit
<1>4. TablesAgree /\ IndexIsSlot /\ Zeros
    BY <1>3, Owners DEF TablesAgree, IndexIsSlot, Zeros
<1>5. job.left = <<>>
    BY <1>1 DEF LibInit, NoJob, Done
<1> QED  BY <1>4, <1>5 DEF Slots, Parts, Called

\* Every step keeps the tables together.
LEMMA SlotsStep == TypeOK /\ Held /\ Slots /\ OneShotMade /\ [Next]_vars => Slots'
<1> SUFFICES ASSUME TypeOK, Held, Slots, OneShotMade, [Next]_vars PROVE Slots'
    OBVIOUS
<1> USE DEF Idle, Update, Data, Past, Table, Theirs, libvars
\* The steps that leave the tables alone.
<1>1. ASSUME UNCHANGED <<rec, ent, job, hurt>>, job.left = <<>> \/ UNCHANGED <<phase, purging, todo>>
      PROVE  Slots'
    BY <1>1, SlotsUntouched
<1>2. CASE StartApp \/ StartBoot \/ StartInstaller
    BY <1>1, <1>2 DEF StartApp, StartBoot, StartInstaller, Starts, Held
<1>3. CASE Install \/ Publish
    BY <1>1, <1>3 DEF Install, Publish
<1>4. CASE AppDelete \/ AppFlag \/ AppQuit
    BY <1>1, <1>4 DEF AppDelete, AppFlag, AppQuit
<1>5. CASE EntryCreated \/ EntriesChecked \/ CheckUpdate
    BY <1>1, <1>5 DEF EntryCreated, EntriesChecked, CheckUpdate
<1>6. CASE UpdateStep \/ NoUpdate \/ BootInstaller \/ DropInstaller
    BY <1>1, <1>6 DEF UpdateStep, NoUpdate, BootInstaller, DropInstaller, Held
<1>7. CASE UNCHANGED vars
    BY <1>1, <1>7 DEF vars, titlevars
\* KD changes last_modified only.
<1>8. CASE Background
    <2>1. PICK i \in Slot : Fetch(i)
        BY <1>8 DEF Background
    <2>2. \A j \in Slot : rec'[j].ID = rec[j].ID
        BY <2>1, FetchKeeps
    <2> QED  BY <1>8, <2>2, SlotsUntouched DEF Background
<1>9. CASE DownloadEntry
    <2>1. \A i \in FindEntry(TitleId, {Wanted(Head(todo))}) : i \in Slot
        BY Searched, Wc24TitleConstants
    <2>2. \A j \in Slot : rec'[j].ID = rec[j].ID
        BY <1>9, <2>1, FetchKeeps DEF DownloadEntry
    <2> QED  BY <1>9, <2>2, SlotsUntouched DEF DownloadEntry
\* The ends of a program.
<1>10. CASE End
    BY <1>10, SlotsDropped DEF End, Forget
<1>11. CASE Crash
    BY <1>11, SlotsLost DEF Crash
\* The calls.
<1>12. CASE Write
    BY <1>1, <1>12, SlotsWritten DEF Write, WriteConfig
<1>13. CASE AppInstall
    <2>1. PICK id \in OtherIds \cup {NoId} : CreateRecord(id, AppUrl, AppId)
        BY <1>13 DEF AppInstall
    <2>2. id \in Ids \cup {NoId} /\ AppUrl \in Url /\ AppId \in Ids
        BY Wc24TitleConstants
    <2> QED  BY <1>13, <2>1, <2>2, SlotsOfCreate DEF AppInstall
<1>14. CASE AppRestore
    <2>1. PICK i \in FindEntry(AppId, {AppUrl}) :
            Begin(i, RecordOf(Backup[i]), EntryOf(i, Backup[i]), <<"ent", "rec">>, FALSE)
        BY <1>14 DEF AppRestore
    <2>2. i \in Slot /\ ent[i].ID = AppId
        BY Searched, Wc24TitleConstants
    <2>3. Backup[i] \in Owner /\ AppId # NoId
        BY <2>2, Wc24Constants, Wc24TitleConstants
    <2>4. UNCHANGED <<rec, ent, hurt>> /\ job.left = <<>>
        BY <1>14 DEF AppRestore
    <2>5. job'.at = i /\ job'.strict = FALSE
        BY <2>1, <2>2, <2>3, BeginJob
    <2>6. Called'
        BY <2>2, <2>3, <2>4, <2>5 DEF Called
    <2> QED  BY <2>1, <2>2, <2>3, <2>4, <2>6, SlotsBegun
<1>15. CASE Purge
    <2>1. CASE UNCHANGED job
        BY <1>1, <1>15, <2>1 DEF Purge
    <2>2. CASE ~UNCHANGED job
        <3>1. PICK i \in FindRecord(purging) : DeleteRecord(i)
            BY <1>15, <2>2 DEF Purge
        <3>2. i \in Slot /\ rec[i].ID = purging
            BY <3>1, Searched DEF TypeOK
        <3>3. i \in hurt \/ ent[i].ID = purging
            BY <1>15, <3>2, NoneLeft DEF Purge, Slots
        <3>4. phase' = "purge" /\ purging' = purging /\ UNCHANGED <<rec, ent, hurt>>
            BY <1>15, <2>2 DEF Purge
        <3>5. job'.rec.ID = NoId
            BY <3>1, <3>2, DeleteStep
        <3>6. i \in hurt \/ MayChange(i)'
            BY <3>3, <3>4, <3>5 DEF MayChange
        <3> QED  BY <1>15, <3>1, <3>2, <3>4, <3>6, SlotsDeleted DEF Purge
    <2> QED  BY <2>1, <2>2
<1>16. CASE CheckEntry
    <2>1. CASE UNCHANGED job
        BY <1>1, <1>16, <2>1 DEF CheckEntry
    <2>2. CASE ~UNCHANGED job
        <3>1. PICK i \in FindEntry(TitleId, Like(Head(todo))) : DeleteRecord(i)
            BY <1>16, <2>2 DEF CheckEntry
        <3>2. i \in Slot /\ ent[i].ID = TitleId /\ ent[i].url.name = Head(todo)
            <4>1. TitleId \in Ids \cup {NoId}
                BY Wc24TitleConstants
            <4>2. i \in Slot /\ ent[i].ID = TitleId /\ ent[i].url \in Like(Head(todo))
                BY <3>1, <4>1, Searched
            <4> QED  BY <4>2 DEF Like
        <3>3. phase' = "recreate" /\ todo' = todo /\ UNCHANGED <<rec, ent, hurt>>
            BY <1>16, <2>2 DEF CheckEntry
        <3>4. job'.rec.ID = NoId
            BY <3>1, <3>2, DeleteStep
        <3>5. MayChange(i)'
            BY <3>2, <3>3, <3>4 DEF MayChange
        <3> QED  BY <1>16, <3>1, <3>2, <3>3, <3>5, SlotsDeleted DEF CheckEntry
    <2> QED  BY <2>1, <2>2
<1>17. CASE CreateEntry
    <2>1. Wanted(Head(todo)) \in Url /\ TitleId \in Ids
        BY <1>17, WantedType, Wc24TitleConstants DEF CreateEntry, Held
    <2> QED  BY <1>17, <2>1, SlotsOfCreate DEF CreateEntry
<1>18. CASE BootArgs
    <2>1. TitleId \in Ids /\ NoId \in Ids \cup {NoId}
        BY Wc24TitleConstants
    <2>2. CASE UNCHANGED job
        BY <1>1, <1>18, <2>2 DEF BootArgs
    <2>3. CASE ~UNCHANGED job
        BY <1>18, <2>1, <2>3, OneShotType, SlotsOfCreate DEF BootArgs
    <2> QED  BY <2>2, <2>3
<1>19. CASE EndOneShot
    <2>1. CASE ret = "ok"
        <3>1. job.at \in Slot /\ DeleteRecord(job.at) /\ UNCHANGED <<rec, ent, hurt>>
            BY <1>19, <2>1 DEF EndOneShot, TypeOK
        <3>2. Booted(ent[job.at])
            BY <1>19, <2>1 DEF EndOneShot, OneShotMade
        <3>3. job'.rec.ID = NoId
            BY <3>1, DeleteStep
        <3>4. \A i \in Slot : Booted(ent[i]) => MayChange(i)'
            BY <1>19, <3>1, <3>3 DEF EndOneShot, MayChange, Booted
        <3> QED  BY <1>19, <3>1, <3>2, <3>4, SlotsDeleted DEF EndOneShot
    <2>2. CASE ret # "ok"
        BY <1>1, <1>19, <2>2 DEF EndOneShot
    <2> QED  BY <2>1, <2>2
<1> QED  BY <1>2, <1>3, <1>4, <1>5, <1>6, <1>7, <1>8, <1>9, <1>10, <1>11, <1>12, <1>13, <1>14,
            <1>15, <1>16, <1>17, <1>18, <1>19
         DEF Next, Program

\* The slot of a program to boot is the one that was created for it.
LEMMA OneShotStep == TypeOK /\ Held /\ Slots /\ OneShotMade /\ [Next]_vars => OneShotMade'
<1> SUFFICES ASSUME TypeOK, Held, Slots, OneShotMade, [Next]_vars, phase' = "fetch", ret' = "ok"
             PROVE  OneShotMade'
    BY DEF OneShotMade
<1> USE DEF Idle, Update, Data, Past, Table, Theirs, libvars
<1>1. Write \/ BootArgs \/ UNCHANGED vars
    BY DEF Next, Program, Held, StartApp, StartBoot, StartInstaller, Starts, Install, Publish,
           AppInstall, AppDelete, AppRestore, AppFlag, AppQuit, Purge, CheckEntry, CreateEntry,
           EntryCreated, EntriesChecked, DownloadEntry, Background, CheckUpdate, UpdateStep,
           NoUpdate, BootInstaller, DropInstaller, EndOneShot, End, Crash
<1>2. CASE Write
    <2>1. CASE WriteConfig
        BY <1>2, <2>1 DEF Write, WriteConfig, OneShotMade, Booted
    <2>2. CASE WriteSlot
        <3>1. phase = "fetch" /\ job.left # <<>> /\ job.at \in Slot
            BY <1>2, <2>2 DEF Write, WriteSlot, TypeOK
        <3>2. ret = "ok" \/ ret' = "err"
            BY <2>2 DEF WriteSlot, TypeOK
        <3>3. job.strict /\ job.rec.ID # NoId /\ Booted(job.ent)
            BY <3>1, <3>2 DEF OneShotMade
        <3>4. job.left \in {<<"ent">>, <<"rec", "ent">>}
            BY <3>1, <3>3 DEF Slots, Parts
        <3>5. /\ job' = IF Len(job.left) = 1 THEN Done(job.at) ELSE [job EXCEPT !.left = Tail(@)]
              /\ Head(job.left) = "ent" => ent' = [ent EXCEPT ![job.at] = job.ent]
            BY <2>2, <3>3 DEF WriteSlot
        <3>6. CASE job.left = <<"ent">>
            <4>1. job' = Done(job.at) /\ ent' = [ent EXCEPT ![job.at] = job.ent]
                BY <3>5, <3>6, Seconds
            <4>2. job'.left = <<>> /\ job'.at = job.at /\ ent'[job.at] = job.ent
                BY <3>1, <4>1 DEF Done, TypeOK
            <4> QED  BY <3>3, <4>2 DEF OneShotMade, Booted
        <3>7. CASE job.left = <<"rec", "ent">>
            <4>1. job' = [job EXCEPT !.left = <<"ent">>] /\ job \in JobType
                BY <3>5, <3>7, Seconds DEF TypeOK, JobType
            <4>2. /\ job'.left = <<"ent">> /\ job'.strict = job.strict
                  /\ job'.rec = job.rec /\ job'.ent = job.ent
                BY <4>1 DEF JobType
            <4>3. job'.left # <<>>
                BY <4>2
            <4> QED  BY <3>3, <4>2, <4>3 DEF OneShotMade, Booted
        <3> QED  BY <3>4, <3>6, <3>7
    <2> QED  BY <1>2, <2>1, <2>2 DEF Write
<1>3. CASE BootArgs
    <2>1. CreateRecord(NoId, [name |-> OneShot, base |-> Base[1]], TitleId)
        BY <1>3 DEF BootArgs
    <2> DEFINE o == OwnerFor(NoId, [name |-> OneShot, base |-> Base[1]], TitleId)
    <2>2. TitleId \in Ids /\ NoId \in Ids \cup {NoId}
        BY Wc24TitleConstants
    <2>3. /\ o \in Owner /\ o.ID = TitleId /\ o.ID # NoId
          /\ o.url = [name |-> OneShot, base |-> Base[1]]
        BY <2>2, OneShotType, OwnerForType
    <2>4. PICK i \in Slot : Begin(i, RecordOf(o), EntryOf(i, o), <<"rec", "ent">>, TRUE)
        BY <2>1, <2>2, OneShotType, CreateStep
    <2> HIDE DEF o
    <2>5. /\ job'.rec = RecordOf(o) /\ job'.ent = EntryOf(i, o)
          /\ job'.left = <<"rec", "ent">> /\ job'.strict = TRUE
        BY <2>3, <2>4, BeginJob
    <2>6. job'.left # <<>> /\ job'.rec.ID # NoId /\ Booted(job'.ent)
        BY <2>3, <2>5 DEF RecordOf, EntryOf, Booted
    <2> QED  BY <2>5, <2>6 DEF OneShotMade, Booted
<1>4. CASE UNCHANGED vars
    BY <1>4 DEF vars, titlevars, OneShotMade, Booted
<1> QED  BY <1>1, <1>2, <1>3, <1>4

-----------------------------------------------------------------------------
(* The configuration *)

\* At first both files of the configuration are there.
LEMMA ConfigInit == Init => ConfigKept /\ Backed
BY DEF Init, LibInit, ConfigKept, NotLost, ConfigsAgree, Backed

\* Zeros are read only from files of zeros, or when both cannot be read.
LEMMA ZerosRead ==
    ASSUME NEW failed \in SUBSET {"cbk", "cfg"}, InitSucceeds(failed), ram' = "zero"
    PROVE  "zero" \in {cbk, cfg} \/ failed = {"cbk", "cfg"}
BY DEF InitSucceeds, CfgRead

\* Every step keeps the configuration.
LEMMA ConfigStep ==
    TypeOK /\ Held /\ ConfigKept /\ Backed /\ [Next]_vars => ConfigKept' /\ Backed'
<1> SUFFICES ASSUME TypeOK, Held, ConfigKept, Backed, [Next]_vars
             PROVE  ConfigKept' /\ Backed'
    OBVIOUS
<1> USE DEF ConfigKept, NotLost, ConfigsAgree, Backed, Update, Data, Past, Table, Theirs, libvars
<1>1. ASSUME UNCHANGED <<cbk, cfg, ram, cfgleft, torn, blind, prog>> PROVE ConfigKept' /\ Backed'
    BY <1>1
<1>2. ASSUME NEW p, NEW first, Starts(p, first), prog = "none", UNCHANGED <<cbk, cfg, cfgleft, torn>>
      PROVE  ConfigKept' /\ Backed'
    <2>1. PICK failed \in SUBSET {"cbk", "cfg"} :
            InitSucceeds(failed) /\ blind' = (blind \/ failed = {"cbk", "cfg"})
        BY <1>2 DEF Starts
    <2>2. ram' = "zero" => blind'
        BY <2>1, ZerosRead
    <2>3. cfgleft = 0 /\ cfgleft' = 0
        BY <1>2 DEF Held, Idle
    <2>4. (blind => blind') /\ (torn => torn') /\ cbk' = cbk /\ cfg' = cfg
        BY <1>2, <2>1, Zenon
    <2>5. ("zero" \in {cbk, cfg} => blind) /\ (cbk = cfg \/ torn)
        BY <2>3
    <2> QED  BY <2>2, <2>3, <2>4, <2>5
<1>3. CASE StartApp
    BY <1>2, <1>3 DEF StartApp
<1>4. CASE StartBoot
    BY <1>2, <1>4 DEF StartBoot
<1>5. CASE StartInstaller
    <2>1. cfgleft = 0 /\ cfgleft' = 0
        BY <1>5 DEF StartInstaller, Held, Idle
    <2> QED  BY <1>2, <1>5, <2>1 DEF StartInstaller
<1>6. CASE End
    BY <1>6 DEF End, Forget, Idle
<1>7. CASE Crash
    <2>1. /\ cbk' = cbk /\ cfg' = cfg /\ prog' = "none" /\ cfgleft' = 0
          /\ torn' = (torn \/ cfgleft = 1) /\ blind' = blind
        BY <1>7 DEF Crash, PowerLoss, Forget
    <2>2. (blind => blind') /\ (torn \/ cfgleft = 1 => torn')
        BY <2>1, Zenon
    <2> QED  BY <2>1, <2>2
<1>8. CASE Write
    <2>1. CASE WriteSlot
        BY <1>1, <1>8, <2>1 DEF Write, WriteSlot
    <2>2. CASE WriteConfig
        <3>1. /\ cfgleft \in {1, 2} /\ prog = "app" /\ prog' = "app"
              /\ ram' = ram /\ blind' = blind
            BY <1>8, <2>2 DEF Write, WriteConfig, Held, TypeOK
        <3>2. (blind => blind') /\ (torn => torn')
            <4>1. \/ torn' = torn \/ torn' = (torn \/ cfgleft = 1) \/ torn' = TRUE
                BY <2>2 DEF WriteConfig
            <4> QED  BY <3>1, <4>1, Zenon
        <3>3. \/ cfgleft = 2 /\ cbk' = ram /\ cfg' = cfg /\ cfgleft' = 1
              \/ cfgleft = 1 /\ cfg' = ram /\ cbk' = cbk /\ cfgleft' = 0
              \/ cbk' = cbk /\ cfg' = cfg /\ cfgleft' = 0 /\ (cfgleft = 1 => torn')
              \/ cbk' = cbk /\ cfg' = cfg /\ torn'
            <4>1. \/ cfgleft = 2 /\ cbk' = ram /\ UNCHANGED cfg /\ cfgleft' = 1
                  \/ cfgleft = 1 /\ cfg' = ram /\ UNCHANGED cbk /\ cfgleft' = 0
                  \/ /\ UNCHANGED <<cbk, cfg>>
                     /\ \/ cfgleft' = 0 /\ torn' = (torn \/ cfgleft = 1)
                        \/ torn' = TRUE
                BY <2>2, Zenon DEF WriteConfig
            <4>2. torn' = (torn \/ cfgleft = 1) => (cfgleft = 1 => torn')
                BY Zenon
            <4> QED  BY <4>1, <4>2
        <3> QED  BY <3>1, <3>2, <3>3
    <2> QED  BY <1>8, <2>1, <2>2 DEF Write
<1>9. CASE AppFlag
    BY <1>9 DEF AppFlag, Idle, Held
<1>10. CASE Install \/ AppInstall \/ AppDelete \/ AppRestore \/ AppQuit \/ Purge
    BY <1>1, <1>10 DEF Install, AppInstall, AppDelete, AppRestore, AppQuit, Purge
<1>11. CASE CheckEntry \/ CreateEntry \/ EntryCreated \/ EntriesChecked \/ DownloadEntry
    BY <1>1, <1>11 DEF CheckEntry, CreateEntry, EntryCreated, EntriesChecked, DownloadEntry
<1>12. CASE Background \/ Publish \/ CheckUpdate \/ UpdateStep \/ NoUpdate \/ BootInstaller
    BY <1>1, <1>12 DEF Background, Publish, CheckUpdate, UpdateStep, NoUpdate, BootInstaller
<1>13. CASE DropInstaller \/ BootArgs \/ EndOneShot \/ UNCHANGED vars
    BY <1>1, <1>13 DEF DropInstaller, BootArgs, EndOneShot, vars, titlevars
<1> QED  BY <1>3, <1>4, <1>5, <1>6, <1>7, <1>8, <1>9, <1>10, <1>11, <1>12, <1>13 DEF Next, Program

-----------------------------------------------------------------------------
(* Updates *)

\* What is left of a plan.
LEMMA Plans ==
    /\ Head(<<"conf", "rminst", "rmver", "boot">>) = "conf"
    /\ Tail(<<"conf", "rminst", "rmver", "boot">>) = <<"rminst", "rmver", "boot">>
    /\ Head(<<"rminst", "rmver", "boot">>) = "rminst"
    /\ Tail(<<"rminst", "rmver", "boot">>) = <<"rmver", "boot">>
    /\ Head(<<"rmver", "boot">>) = "rmver" /\ Tail(<<"rmver", "boot">>) = <<"boot">>
    /\ Head(<<"rminst", "rmver">>) = "rminst" /\ Tail(<<"rminst", "rmver">>) = <<"rmver">>
    /\ Head(<<"rmver">>) = "rmver" /\ Tail(<<"rmver">>) = <<>>
    /\ Head(<<"boot">>) = "boot"
OBVIOUS

\* When the installer is to be booted its version is new, and announced.
LEMMA UpToDate ==
    ASSUME TypeOK, Announced, phase = "update", todo = <<"boot">>
    PROVE  booted < dol.for /\ dol.for <= file["config"]
<1>1. todo # <<>> /\ Head(todo) = "boot"
    BY Plans
<1> QED  BY <1>1, Plans DEF Announced

\* At first nothing was booted.
LEMMA AnnouncedInit == Init => Announced
BY Wc24Constants DEF Init, Announced, NoFiles, Files

\* Every step keeps what is booted announced.
LEMMA AnnouncedStep == TypeOK /\ Held /\ Announced /\ [Next]_vars => Announced'
<1> SUFFICES ASSUME TypeOK, Held, Announced, [Next]_vars PROVE Announced'
    OBVIOUS
<1> USE DEF Update, Data, Past, Table, Theirs, libvars
<1>1. /\ file \in [Files -> 0 .. MaxVer] /\ dol.for \in 0 .. MaxVer /\ booted \in 0 .. MaxVer
      /\ installed \in 0 .. MaxVer /\ file["config"] \in 0 .. MaxVer
      /\ file["verinfo"] \in 0 .. MaxVer /\ file["installer"] \in 0 .. MaxVer
    BY DEF TypeOK, Version, Files
<1>2. ASSUME UNCHANGED <<booted, file>>, phase' # "update" \/ UNCHANGED <<phase, todo, dol>>
      PROVE  Announced'
    BY <1>2 DEF Announced
<1>3. ASSUME NEW i, Fetch(i), booted' = booted, phase' # "update" PROVE Announced'
    <2>1. file'["config"] = file["config"]
        BY <1>1, <1>3 DEF Fetch, Files
    <2> QED  BY <1>3, <2>1 DEF Announced
<1>4. CASE StartApp \/ StartBoot
    BY <1>2, <1>4 DEF StartApp, StartBoot, Starts
<1>14. CASE StartInstaller
    <2>1. phase' # "update"
        BY <1>14 DEF StartInstaller, Starts
    <2>2. CASE file' = NoFiles /\ booted' = 0
        <3>1. file'["config"] = 0
            BY <2>2 DEF NoFiles, Files
        <3> QED  BY <2>1, <2>2, <3>1 DEF Announced
    <2>3. CASE UNCHANGED Data
        BY <1>2, <2>1, <2>3
    <2> QED  BY <1>14, <2>2, <2>3 DEF StartInstaller, DeleteTitle
<1>5. CASE Install \/ End \/ Crash \/ Write \/ Publish
    BY <1>2, <1>5 DEF Install, End, Crash, Write, Publish
<1>6. CASE AppInstall \/ AppDelete \/ AppRestore \/ AppFlag \/ AppQuit \/ Purge
    BY <1>2, <1>6 DEF AppInstall, AppDelete, AppRestore, AppFlag, AppQuit, Purge
<1>7. CASE CheckEntry \/ CreateEntry \/ EntryCreated \/ EntriesChecked
    BY <1>2, <1>7 DEF CheckEntry, CreateEntry, EntryCreated, EntriesChecked
<1>8. CASE DownloadEntry
    BY <1>2, <1>3, <1>8 DEF DownloadEntry
<1>9. CASE Background
    <2>1. phase' # "update" /\ \E i : Fetch(i)
        BY <1>9 DEF Background, Held
    <2> QED  BY <1>3, <1>9, <2>1 DEF Background
<1>10. CASE CheckUpdate
    <2>1. file["config"] <= KnownVersion /\ KnownVersion \in 0 .. MaxVer
        BY <1>1 DEF KnownVersion
    <2>2. CASE phase' = "args" /\ UNCHANGED <<file, todo>>
        BY <1>2, <1>10, <2>2 DEF CheckUpdate
    <2>3. CASE phase' = "update"
        <3>1. /\ file' = [file EXCEPT !["config"] = KnownVersion] /\ todo' = UpdatePlan
              /\ booted' = booted
            BY <1>10, <2>3 DEF CheckUpdate
        <3>2. file'["config"] = KnownVersion /\ file'["verinfo"] = file["verinfo"]
            BY <1>1, <3>1 DEF Files
        <3> QED  BY <1>1, <2>1, <3>1, <3>2 DEF Announced, UpdatePlan
    <2> QED  BY <1>10, <2>2, <2>3 DEF CheckUpdate
<1>11. CASE UpdateStep
    <2>1. phase = "update" /\ phase' = "update" /\ todo # <<>> /\ Head(todo) # "boot"
          /\ todo' = Tail(todo) /\ booted' = booted
        BY <1>11 DEF UpdateStep
    <2>2. CASE todo = <<"conf", "rminst", "rmver", "boot">>
        <3>1. file' = [file EXCEPT !["config"] = file["verinfo"]]
            BY <1>11, <2>2, Plans DEF UpdateStep
        <3>2. file'["config"] = file["verinfo"] /\ file'["verinfo"] = file["verinfo"]
            BY <1>1, <3>1 DEF Files
        <3>3. booted <= file["config"] /\ file["config"] < file["verinfo"]
            BY <2>1, <2>2, Plans DEF Announced
        <3> QED  BY <1>1, <2>1, <2>2, <3>2, <3>3, Plans DEF Announced
    <2>3. CASE todo = <<"rminst", "rmver", "boot">>
        <3>1. /\ file' = [file EXCEPT !["installer"] = 0]
              /\ dol' = [runs |-> file["installer"], for |-> file["verinfo"]]
            BY <1>11, <2>3, Plans DEF UpdateStep
        <3>2. file'["config"] = file["config"] /\ dol'.for = file["verinfo"]
            BY <1>1, <3>1 DEF Files
        <3>3. booted < file["verinfo"] /\ file["config"] = file["verinfo"]
            BY <2>1, <2>3, Plans DEF Announced
        <3> QED  BY <1>1, <2>1, <2>3, <3>2, <3>3, Plans DEF Announced
    <2>4. CASE todo = <<"rmver", "boot">>
        <3>1. file' = [file EXCEPT !["verinfo"] = 0] /\ dol' = dol
            BY <1>11, <2>4, Plans DEF UpdateStep
        <3>2. file'["config"] = file["config"]
            BY <1>1, <3>1 DEF Files
        <3>3. booted < dol.for /\ dol.for <= file["config"]
            BY <2>1, <2>4, Plans DEF Announced
        <3> QED  BY <1>1, <2>1, <2>4, <3>1, <3>2, <3>3, Plans DEF Announced
    <2>5. CASE todo \in {<<"rminst", "rmver">>, <<"rmver">>}
        <3>1. file' = [file EXCEPT !["installer"] = 0] \/ file' = [file EXCEPT !["verinfo"] = 0]
            BY <1>11, <2>5, Plans DEF UpdateStep
        <3>2. file'["config"] = file["config"] /\ booted <= file["config"]
            BY <1>1, <3>1 DEF Files, Announced
        <3> QED  BY <1>1, <2>1, <2>5, <3>2, Plans DEF Announced
    <2> QED  BY <2>1, <2>2, <2>3, <2>4, <2>5, Plans DEF Announced
<1>12. CASE BootInstaller
    <2>1. dol.for <= file["config"]
        BY <1>12, UpToDate DEF BootInstaller
    <2> QED  BY <1>12, <2>1 DEF BootInstaller, Announced
<1>13. CASE NoUpdate \/ DropInstaller \/ BootArgs \/ EndOneShot \/ UNCHANGED vars
    BY <1>2, <1>13 DEF NoUpdate, DropInstaller, BootArgs, EndOneShot, vars, titlevars
<1> QED  BY <1>4, <1>5, <1>6, <1>7, <1>8, <1>9, <1>10, <1>11, <1>12, <1>13, <1>14
         DEF Next, Program

-----------------------------------------------------------------------------
(* What a write may change *)

MayWrite(i) ==
    (rec[i].ID # rec'[i].ID \/ ent[i] # ent'[i]) =>
        /\ Live(i) /\ i \notin hurt => MayChange(i)
        /\ i < Reserved => rec[i].ID # NoId \/ ent[i].ID # NoId

\* Entries with the same parts are the same.
LEMMA SameEntry ==
    ASSUME NEW e \in Entry, NEW f \in Entry, e.index = f.index, e.ID = f.ID, e.url = f.url
    PROVE  e = f
BY DEF Entry

\* Only the write of a call changes whose a slot is, and only of a slot that
\* call may write.
LEMMA OthersStep == TypeOK /\ Slots /\ [Next]_vars => \A i \in Slot : MayWrite(i)
<1> SUFFICES ASSUME TypeOK, Slots, [Next]_vars, NEW i \in Slot PROVE MayWrite(i)
    OBVIOUS
<1> USE DEF Update, Data, Past, Table, Theirs, libvars
<1>1. ASSUME rec'[i].ID = rec[i].ID, ent'[i] = ent[i] PROVE MayWrite(i)
    BY <1>1 DEF MayWrite
<1>2. CASE WriteSlot
    <2>1. /\ rec'[i] = rec[i] \/ (i = job.at /\ rec'[i] = job.rec)
          /\ ent'[i] = ent[i] \/ (i = job.at /\ ent'[i] = job.ent)
        BY <1>2 DEF WriteSlot, TypeOK
    <2>2. CASE i # job.at
        BY <1>1, <2>1, <2>2
    <2>3. CASE i = job.at
        <3>1. job.left # <<>> /\ job.rec.ID = job.ent.ID /\ job.ent.index = i
              /\ (job.ent.ID = NoId => job.ent.url = NoUrl)
            BY <1>2, <2>3 DEF WriteSlot, Slots, Parts
        <3>2. /\ \/ Reserved <= i \/ job.rec.ID = NoId
                 \/ rec[i].ID # NoId \/ ent[i].ID # NoId
              /\ \/ ~job.strict \/ i \in hurt
                 \/ /\ job.rec.ID # NoId
                    /\ ent[i].ID = NoId \/ OwnerOf(ent[i]) = OwnerOf(job.ent)
                 \/ job.rec.ID = NoId /\ MayChange(i)
            BY <2>3, <3>1 DEF Slots, Called
        <3>3. Live(i) /\ i \notin hurt => MayChange(i)
            BY <3>2 DEF Live, MayChange
        <3>4. CASE i < Reserved => rec[i].ID # NoId \/ ent[i].ID # NoId
            BY <3>3, <3>4 DEF MayWrite
        <3>5. CASE i < Reserved /\ rec[i].ID = NoId /\ ent[i].ID = NoId
            <4>1. i \in Nat /\ Reserved \in Nat
                BY Wc24Constants DEF Slot
            <4>2. job.rec.ID = NoId
                BY <3>2, <3>5, <4>1
            <4>3. job.ent = ent[i]
                <5>1. ent[i].index = i /\ ent[i].url = NoUrl
                    BY <3>5 DEF Slots, IndexIsSlot, Zeros
                <5>2. job.ent \in Entry /\ ent[i] \in Entry
                    BY DEF TypeOK
                <5>3. job.ent.index = ent[i].index /\ job.ent.ID = ent[i].ID
                      /\ job.ent.url = ent[i].url
                    BY <3>1, <3>5, <4>2, <5>1
                <5> QED  BY <5>2, <5>3, SameEntry
            <4> QED  BY <1>1, <2>1, <3>5, <4>2, <4>3
        <3> QED  BY <3>4, <3>5
    <2> QED  BY <2>2, <2>3
<1>3. CASE Write
    BY <1>1, <1>2, <1>3 DEF Write, WriteConfig
<1>4. CASE Background
    <2>1. PICK j \in Slot : Fetch(j)
        BY <1>4 DEF Background
    <2> QED  BY <1>1, <1>4, <2>1, FetchKeeps DEF Background
<1>5. CASE DownloadEntry
    <2>1. \A j \in FindEntry(TitleId, {Wanted(Head(todo))}) : j \in Slot
        BY Searched, Wc24TitleConstants
    <2>2. \A j \in Slot : rec'[j].ID = rec[j].ID
        BY <1>5, <2>1, FetchKeeps DEF DownloadEntry
    <2> QED  BY <1>1, <1>5, <2>2 DEF DownloadEntry
<1>6. CASE StartApp \/ StartBoot \/ StartInstaller \/ Install \/ End \/ Publish
    BY <1>1, <1>6 DEF StartApp, StartBoot, StartInstaller, Install, End, Publish
<1>7. CASE Crash
    BY <1>1, <1>7 DEF Crash, PowerLoss
<1>8. CASE AppInstall \/ AppDelete \/ AppRestore \/ AppFlag \/ AppQuit \/ Purge
    BY <1>1, <1>8 DEF AppInstall, AppDelete, AppRestore, AppFlag, AppQuit, Purge
<1>9. CASE CheckEntry \/ CreateEntry \/ EntryCreated \/ EntriesChecked
    BY <1>1, <1>9 DEF CheckEntry, CreateEntry, EntryCreated, EntriesChecked
<1>10. CASE CheckUpdate \/ UpdateStep \/ NoUpdate \/ BootInstaller
    BY <1>1, <1>10 DEF CheckUpdate, UpdateStep, NoUpdate, BootInstaller
<1>11. CASE DropInstaller \/ BootArgs \/ EndOneShot \/ UNCHANGED vars
    BY <1>1, <1>11 DEF DropInstaller, BootArgs, EndOneShot, vars, titlevars
<1> QED  BY <1>3, <1>4, <1>5, <1>6, <1>7, <1>8, <1>9, <1>10, <1>11 DEF Next, Program

-----------------------------------------------------------------------------
(* The entries that should be there *)

\* A write leaves the call where it is, or done.
LEMMA JobWritten ==
    ASSUME TypeOK, WriteSlot
    PROVE  /\ job.at \in Slot /\ job.left # <<>> /\ job \in JobType
           /\ ent \in [Slot -> Entry] /\ rec \in [Slot -> Record] /\ faults \in Nat
           /\ job'.at = job.at
           /\ \/ job'.left = <<>>
              \/ job'.ent = job.ent /\ job'.left = Tail(job.left) /\ job'.strict = job.strict
<1> DEFINE a == job.at
<1>1. /\ a \in Slot /\ job.left # <<>> /\ job \in JobType
      /\ ent \in [Slot -> Entry] /\ rec \in [Slot -> Record] /\ faults \in Nat
    BY Wc24Constants DEF TypeOK, WriteSlot, JobType
<1>2. \/ job' = Done(a)
      \/ job' = [job EXCEPT !.left = Tail(@)]
      \/ job' = [job EXCEPT !.left = Tail(@), !.ok = FALSE]
    BY DEF WriteSlot
<1>3. /\ job'.at = a
      /\ \/ job'.left = <<>>
         \/ job'.ent = job.ent /\ job'.left = Tail(job.left) /\ job'.strict = job.strict
    <2>1. CASE job' = Done(a)
        BY <2>1 DEF Done
    <2>2. CASE job' = [job EXCEPT !.left = Tail(@)]
        BY <1>1, <2>2 DEF JobType
    <2>3. CASE job' = [job EXCEPT !.left = Tail(@), !.ok = FALSE]
        BY <1>1, <2>3 DEF JobType
    <2> QED  BY <1>2, <2>1, <2>2, <2>3
<1> QED  BY <1>1, <1>3

\* A run that stays clean has met no fault.
LEMMA Watched == ASSUME Watch, clean' PROVE clean /\ faults' = faults
BY Zenon DEF Watch

\* Faults are not taken back, and one that is met counts unless the descriptor
\* is an error number already.
LEMMA FaultsCount ==
    ASSUME TypeOK, Works \/ Fails \/ WrongSlot
    PROVE  /\ faults' = faults \/ faults' = faults + 1
           /\ fd' = "bad" => fd = "bad" \/ faults' = faults + 1
           /\ Fails => fd = "bad" \/ faults' = faults + 1
BY DEF TypeOK, Works, Fails, WrongSlot

\* At first the title does not run.
LEMMA PlacedInit == Init => Placed
BY DEF Init, LibInit, NoJob, Done, Placed

\* Each step finds and leaves the title at its place.
LEMMA PlacedStep == TypeOK /\ Held /\ Placed /\ [Next]_vars => Placed'
<1> SUFFICES ASSUME TypeOK, Held, Placed, [Next]_vars PROVE Placed'
    OBVIOUS
<1> USE DEF Placed, Idle, Update, Data, Past, Table, Theirs, libvars
<1>1. CASE StartApp \/ StartInstaller \/ Install
    BY <1>1 DEF StartApp, StartInstaller, Install, Starts, Held
<1>2. CASE StartBoot
    <2>1. prog' = "boot" /\ job' = job /\ job.left = <<>>
        BY <1>2 DEF StartBoot, Starts, Held
    <2>2. phase' = "args" \/ (phase' = "names" /\ todo' = Updates)
        BY <1>2 DEF StartBoot, Starts
    <2>3. Updates \in Seq(Names \ {OneShot})
        <3>1. Names \ {OneShot, AppUrl.name} \subseteq Names \ {OneShot}
            OBVIOUS
        <3> QED  BY <3>1, Wc24TitleConstants
    <2> QED  BY <2>1, <2>2, <2>3
<1>3. CASE AppInstall \/ AppDelete \/ AppRestore \/ AppFlag \/ AppQuit \/ Purge
    BY <1>3 DEF AppInstall, AppDelete, AppRestore, AppFlag, AppQuit, Purge
<1>4. CASE CheckEntry
    BY <1>4, RestOfNames DEF CheckEntry
<1>5. CASE CreateEntry
    BY <1>5 DEF CreateEntry
<1>6. CASE EntryCreated
    BY <1>6, RestOfNames DEF EntryCreated, Held
<1>7. CASE EntriesChecked
    BY <1>7, Wc24TitleConstants DEF EntriesChecked
<1>8. CASE DownloadEntry
    BY <1>8, RestOfNames DEF DownloadEntry
<1>9. CASE CheckUpdate
    BY <1>9 DEF CheckUpdate
<1>10. CASE UpdateStep \/ NoUpdate \/ BootInstaller \/ DropInstaller
    BY <1>10 DEF UpdateStep, NoUpdate, BootInstaller, DropInstaller, Held
<1>11. CASE BootArgs \/ EndOneShot
    BY <1>11 DEF BootArgs, EndOneShot
<1>12. CASE End \/ Crash
    BY <1>12 DEF End, Crash
<1>13. CASE Write
    <2>1. phase \in {"names", "download", "args"} => job' = job
        BY <1>13 DEF Write, WriteSlot, WriteConfig
    <2> QED  BY <1>13, <2>1 DEF Write
<1>14. CASE Background \/ Publish \/ UNCHANGED vars
    BY <1>14 DEF Background, Publish, vars, titlevars
<1> QED  BY <1>1, <1>2, <1>3, <1>4, <1>5, <1>6, <1>7, <1>8, <1>9, <1>10, <1>11, <1>12, <1>13,
            <1>14 DEF Next, Program

\* At first nothing has failed.
LEMMA CleanInit == Init => Accessible /\ BadFd
BY DEF Init, LibInit, Accessible, BadFd

\* What a call of the library did to the descriptor.
LEMMA CleanCall ==
    ASSUME TypeOK, Accessible, BadFd, Works \/ Fails \/ WrongSlot, Watch, UNCHANGED <<hurt, prog>>
    PROVE  Accessible' /\ BadFd'
<1>1. clean' => clean /\ faults' = faults
    BY Watched
<1>2. faults \in Nat
    BY Wc24Constants DEF TypeOK
<1> QED  BY <1>1, <1>2, FaultsCount DEF Accessible, BadFd

\* What a program finds when it starts.
LEMMA CleanStart ==
    ASSUME NEW p, NEW first, Starts(p, first), UNCHANGED hurt
    PROVE  Accessible' /\ BadFd'
<1>1. PICK failed \in SUBSET {"cbk", "cfg"} :
        InitSucceeds(failed) /\ clean' = (hurt = {} /\ failed = {})
    BY DEF Starts
<1>2. clean' => hurt = {}
    BY <1>1, Zenon
<1> QED  BY <1>1, <1>2 DEF InitSucceeds, Accessible, BadFd

\* No step of a clean run leaves a slot damaged or the descriptor an error.
LEMMA CleanStep == TypeOK /\ Held /\ Accessible /\ BadFd /\ [Next]_vars => Accessible' /\ BadFd'
<1> SUFFICES ASSUME TypeOK, Held, Accessible, BadFd, [Next]_vars PROVE Accessible' /\ BadFd'
    OBVIOUS
<1> USE DEF Update, Data, Past, Table, Theirs, libvars
<1>1. ASSUME UNCHANGED <<fd, hurt, faults, prog, clean>> PROVE Accessible' /\ BadFd'
    BY <1>1 DEF Accessible, BadFd
<1>2. CASE StartApp \/ StartBoot
    BY <1>2, CleanStart DEF StartApp, StartBoot
<1>3. CASE StartInstaller
    <2>1. CASE Starts("inst", "purge")
        BY <1>3, <2>1, CleanStart DEF StartInstaller
    <2>2. CASE InitRefuses /\ prog' = "inst" /\ clean' = FALSE
        BY <2>2 DEF Accessible, BadFd
    <2> QED  BY <1>3, <2>1, <2>2 DEF StartInstaller
<1>4. CASE Install \/ AppDelete \/ AppFlag \/ AppQuit
    BY <1>1, <1>4 DEF Install, AppDelete, AppFlag, AppQuit
<1>5. CASE AppInstall
    BY <1>5, CleanCall DEF AppInstall, CreateRecord
<1>6. CASE AppRestore
    BY <1>1, <1>6 DEF AppRestore, Works
<1>7. CASE Purge
    BY <1>7, CleanCall DEF Purge
<1>8. CASE CheckEntry
    BY <1>8, CleanCall DEF CheckEntry
<1>9. CASE CreateEntry
    BY <1>9, CleanCall DEF CreateEntry, CreateRecord
<1>10. CASE EntryCreated \/ EntriesChecked \/ CheckUpdate
    BY <1>1, <1>10 DEF EntryCreated, EntriesChecked, CheckUpdate
<1>11. CASE UpdateStep \/ NoUpdate \/ BootInstaller \/ DropInstaller
    BY <1>1, <1>11 DEF UpdateStep, NoUpdate, BootInstaller, DropInstaller
<1>12. CASE DownloadEntry
    <2>1. CASE Works \/ Fails
        BY <1>12, <2>1, CleanCall DEF DownloadEntry
    <2>2. CASE UNCHANGED <<fd, faults>>
        <3>1. clean' => clean
            BY <1>12, Watched DEF DownloadEntry
        <3> QED  BY <1>12, <2>2, <3>1 DEF DownloadEntry, Accessible, BadFd
    <2> QED  BY <1>12, <2>1, <2>2 DEF DownloadEntry
<1>13. CASE BootArgs
    <2>1. CASE code = "http"
        BY <1>13, <2>1, CleanCall DEF BootArgs, CreateRecord
    <2>2. CASE code # "http"
        <3>1. clean' => clean
            BY <1>13, Watched DEF BootArgs
        <3> QED  BY <1>13, <2>2, <3>1 DEF BootArgs, Accessible, BadFd
    <2> QED  BY <2>1, <2>2
<1>14. CASE EndOneShot \/ Background \/ Publish
    BY <1>1, <1>14 DEF EndOneShot, Background, Publish
<1>15. CASE End
    BY <1>15 DEF End, Forget, Accessible, BadFd
<1>16. CASE Crash
    BY <1>16 DEF Crash, PowerLoss, Forget, Accessible, BadFd
<1>17. CASE Write
    <2>1. clean' => clean /\ faults' = faults
        BY <1>17, Watched DEF Write
    <2>2. faults \in Nat /\ prog' = prog
        BY <1>17, Wc24Constants DEF TypeOK, Write
    <2>3. CASE WriteConfig /\ UNCHANGED fd
        <3>1. UNCHANGED <<fd, hurt>> /\ (faults' = faults \/ faults' = faults + 1)
            BY <2>3 DEF WriteConfig
        <3> QED  BY <2>1, <2>2, <3>1 DEF Accessible, BadFd
    <2>4. CASE WriteSlot
        <3>1. CASE Works /\ (hurt = {} => hurt' = {})
            BY <2>1, <2>2, <3>1 DEF Works, Accessible, BadFd
        <3>2. CASE Fails
            BY <2>1, <2>2, <3>2, FaultsCount DEF Accessible, BadFd
        <3>3. Works \/ Fails
            BY <2>4 DEF WriteSlot
        <3>4. Works /\ ~Fails => hurt' = hurt \/ hurt' = hurt \ {job.at}
            BY <2>4 DEF WriteSlot
        <3> QED  BY <3>1, <3>2, <3>3, <3>4
    <2> QED  BY <1>17, <2>3, <2>4 DEF Write
<1>18. CASE UNCHANGED vars
    BY <1>1, <1>18 DEF vars, titlevars
<1> QED  BY <1>2, <1>3, <1>4, <1>5, <1>6, <1>7, <1>8, <1>9, <1>10, <1>11, <1>12, <1>13,
            <1>14, <1>15, <1>16, <1>17, <1>18 DEF Next, Program

\* A search that finds nothing: no slot that is searched has the ID and a URL
\* of those.
LEMMA NoneFound ==
    ASSUME NEW id \in Ids, NEW urls, FindEntry(id, urls) = {}
    PROVE  \A i \in Slot : ent[i].ID = id => ent[i].url \notin urls
<1> DEFINE S == {i \in From(id) .. MaxEntries - 1 : ent[i].ID = id /\ ent[i].url \in urls}
<1>1. From(id) = 0
    BY Wc24Constants DEF From
<1>2. S = {}
    <2> SUFFICES ASSUME S # {} PROVE FALSE
        OBVIOUS
    <2>1. S \subseteq Nat
        BY <1>1, Wc24Constants
    <2>2. \E x \in S : \A y \in S : x <= y
        <3> HIDE DEF S
        <3> QED  BY <2>1, LeastNumber
    <2>3. FindEntry(id, urls) = {i \in S : \A j \in S : i <= j}
        BY DEF FindEntry, Lowest
    <2> HIDE DEF S
    <2> QED  BY <2>2, <2>3
<1> QED  BY <1>1, <1>2 DEF Slot

\* A call that creates a slot for an owner with an ID of its own chooses one
\* such that no other slot is for it.
LEMMA CreateLone ==
    ASSUME TypeOK, NoDoubles, NEW id \in Ids, NEW url \in Url, NEW title \in Ids,
           CreateRecord(id, url, title), job' # job,
           id # AppId, url.name # OneShot, ~restored
    PROVE  \A j \in Slot : j # job'.at => OwnerOf(ent[j]) # [ID |-> id, url |-> url]
<1> DEFINE o == [ID |-> id, url |-> url]
<1>1. id # NoId
    BY Wc24Constants
<1>2. OwnerFor(id, url, title) = o /\ o \in Owner
    BY <1>1, OwnerForType DEF OwnerFor
<1>3. \A j \in Slot : OwnerOf(ent[j]) = o => ent[j].ID = id /\ ent[j].url = url
    BY DEF OwnerOf
<1>4. CASE FindEntry(id, {url}) = {}
    <2>1. \A j \in Slot : ent[j].ID = id => ent[j].url \notin {url}
        BY <1>4, NoneFound
    <2> QED  BY <1>3, <2>1
<1>5. CASE FindEntry(id, {url}) # {}
    <2>1. PICK i \in FindEntry(id, {url}) : Begin(i, RecordOf(o), EntryOf(i, o), <<"rec", "ent">>, TRUE)
        BY <1>1, <1>5 DEF CreateRecord
    <2>2. i \in Slot /\ ent[i].ID = id /\ ent[i].url = url
        BY Searched
    <2>3. job'.at = i
        BY <2>1 DEF Begin
    <2>4. OwnerOf(ent[i]) = o
        BY <2>2 DEF OwnerOf
    <2>5. \A j \in Slot : i # j => OwnerOf(ent[i]) # OwnerOf(ent[j])
        BY <1>1, <2>2 DEF NoDoubles
    <2> QED  BY <2>3, <2>4, <2>5
<1> QED  BY <1>4, <1>5

\* Whom a slot is for can be read back from its entry.
LEMMA OwnerBack == ASSUME NEW i, NEW o \in Owner PROVE OwnerOf(EntryOf(i, o)) = o
<1>1. OwnerOf(EntryOf(i, o)) = [ID |-> o.ID, url |-> o.url]
    BY DEF OwnerOf, EntryOf
<1>2. CASE o = NoOwner
    BY <1>1, <1>2 DEF NoOwner
<1>3. CASE o \in [ID : Ids, url : Url]
    BY <1>1, <1>3
<1> QED  BY <1>2, <1>3 DEF Owner

\* An owner is an ID and a URL.
LEMMA OwnerParts == \A e : OwnerOf(e).ID = e.ID /\ OwnerOf(e).url = e.url
BY DEF OwnerOf

\* The job such a call begins is for the owner.
LEMMA CreateOwner ==
    ASSUME TypeOK, NEW id \in Ids \cup {NoId}, NEW url \in Url, NEW title \in Ids,
           CreateRecord(id, url, title)
    PROVE  \/ job' = job /\ ret' = "err"
           \/ /\ ret' = "ok" /\ job'.strict = TRUE /\ job'.left = <<"rec", "ent">>
              /\ OwnerOf(job'.ent) = OwnerFor(id, url, title)
              /\ job'.at \in Slot
              /\ \/ rec[job'.at].ID = NoId \/ ent[job'.at].ID = NoId
                 \/ OwnerOf(ent[job'.at]) = OwnerFor(id, url, title)
<1> DEFINE o == OwnerFor(id, url, title)
<1>1. o \in Owner /\ o = [ID |-> o.ID, url |-> o.url]
    BY OwnerForType DEF OwnerFor
<1>2. \/ job' = job /\ ret' = "err"
      \/ /\ ret' = "ok"
         /\ \E i \in Slot :
             /\ Begin(i, RecordOf(o), EntryOf(i, o), <<"rec", "ent">>, TRUE)
             /\ rec[i].ID = NoId \/ ent[i].ID = NoId \/ OwnerOf(ent[i]) = o
    BY CreateStep
<1> HIDE DEF o
<1>3. CASE ret' = "ok" /\ ~(job' = job /\ ret' = "err")
    <2>1. PICK i \in Slot :
            /\ Begin(i, RecordOf(o), EntryOf(i, o), <<"rec", "ent">>, TRUE)
            /\ rec[i].ID = NoId \/ ent[i].ID = NoId \/ OwnerOf(ent[i]) = o
        BY <1>2, <1>3
    <2>2. /\ job'.at = i /\ job'.ent = EntryOf(i, o)
          /\ job'.left = <<"rec", "ent">> /\ job'.strict = TRUE
        BY <1>1, <2>1, BeginJob
    <2>3. OwnerOf(job'.ent) = o
        BY <1>1, <2>2 DEF OwnerOf, EntryOf
    <2> QED  BY <1>3, <2>1, <2>2, <2>3 DEF o
<1> QED  BY <1>2, <1>3 DEF o

\* The lists found have no entry twice.
LEMMA SingleInit == Init => Single
<1> SUFFICES ASSUME Init PROVE Single
    OBVIOUS
<1>1. PICK h \in Homes : LibInit(h.table)
    BY DEF Init
<1>2. h.table \in [Slot -> Owner]
    BY Wc24TitleConstants
<1>3. \A i \in Slot : ent[i] = EntryOf(i, h.table[i]) /\ h.table[i] \in Owner
    BY <1>1, <1>2 DEF LibInit
<1>4. \A i \in Slot : h.table[i] = OwnerOf(ent[i]) /\ h.table[i].ID = ent[i].ID
    BY <1>3, OwnerBack, OwnerParts
<1>5. \A i, j \in Slot : i # j /\ h.table[i] = h.table[j] => h.table[i].ID \in {NoId, AppId}
    BY <1>1, Wc24Lists
<1>6. NoDoubles
    <2> SUFFICES ASSUME NEW i \in Slot, NEW j \in Slot, i # j, ent[i].ID # NoId,
                        OwnerOf(ent[i]) = OwnerOf(ent[j])
                 PROVE  ent[i].ID = AppId
        BY DEF NoDoubles
    <2> QED  BY <1>4, <1>5
<1>7. job.left = <<>>
    BY <1>1 DEF LibInit, NoJob, Done
<1> QED  BY <1>6, <1>7 DEF Single, Lone

\* A write of a call.
LEMMA SingleWritten ==
    ASSUME TypeOK, Single, WriteSlot, UNCHANGED restored
    PROVE  Single'
<1> DEFINE a == job.at
<1>1. /\ a \in Slot /\ job.left # <<>> /\ ent \in [Slot -> Entry]
      /\ \/ job'.left = <<>>
         \/ job'.at = a /\ job'.ent = job.ent
    BY JobWritten
<1>2. \A j \in Slot : j # a => ent'[j] = ent[j]
    BY <1>1 DEF WriteSlot
<1>3. ent' = ent \/ ent'[a] = job.ent
    BY <1>1 DEF WriteSlot
<1>4. Lone'
    BY <1>1, <1>2 DEF Single, Lone, OwnerOf, Exempt
<1>5. NoDoubles'
    <2>1. CASE ent' = ent
        BY <2>1 DEF Single, NoDoubles, OwnerOf
    <2>2. CASE ent'[a] = job.ent
        <3> SUFFICES ASSUME NEW i \in Slot, NEW j \in Slot, i # j, ent'[i].ID # NoId,
                            OwnerOf(ent'[i]) = OwnerOf(ent'[j]), ~restored, ~Exempt(ent'[i])
                     PROVE  FALSE
            BY DEF NoDoubles, OwnerOf, Exempt
        <3>2. ent'[i].ID = ent'[j].ID /\ ent'[i].url = ent'[j].url
            BY OwnerParts
        <3>3. CASE i = a
            BY <1>1, <1>2, <2>2, <3>3 DEF Single, Lone, Exempt
        <3>4. CASE j = a
            BY <1>1, <1>2, <2>2, <3>2, <3>4 DEF Single, Lone, Exempt
        <3>5. CASE i # a /\ j # a
            BY <1>2, <3>5 DEF Single, NoDoubles, Exempt
        <3> QED  BY <3>3, <3>4, <3>5
    <2> QED  BY <1>3, <2>1, <2>2
<1> QED  BY <1>4, <1>5 DEF Single

\* A call that creates a slot.
LEMMA SingleCreated ==
    ASSUME TypeOK, Single, job.left = <<>>, UNCHANGED <<ent, restored>>,
           NEW id \in Ids \cup {NoId}, NEW url \in Url, NEW title \in Ids,
           CreateRecord(id, url, title), id # NoId \/ title = AppId \/ url.name = OneShot
    PROVE  Single'
<1> DEFINE o == OwnerFor(id, url, title)
<1>1. \/ job' = job /\ ret' = "err"
      \/ job'.left = <<"rec", "ent">> /\ OwnerOf(job'.ent) = o
    BY CreateOwner
<1>2. NoDoubles'
    BY DEF Single, NoDoubles, OwnerOf
<1>3. Lone'
    <2>1. CASE job' = job
        BY <2>1 DEF Lone
    <2>2. CASE job' # job
        <3> SUFFICES ASSUME ~Exempt(job'.ent), ~restored
                     PROVE  \A j \in Slot : j # job'.at => OwnerOf(ent[j]) # OwnerOf(job'.ent)
            BY DEF Lone, OwnerOf, Exempt
        <3>1. OwnerOf(job'.ent) = o
            BY <1>1, <2>2
        <3>2. job'.ent.ID = o.ID /\ job'.ent.url = o.url
            BY <3>1, OwnerParts
        <3>3. o.url = url /\ (id = NoId => o.ID = title)
            BY DEF OwnerFor
        <3>4. id # NoId /\ url.name # OneShot
            BY <3>2, <3>3 DEF Exempt
        <3>5. o = [ID |-> id, url |-> url]
            BY <3>4 DEF OwnerFor
        <3>6. id \in Ids /\ id # AppId
            BY <3>2, <3>4, <3>5 DEF Exempt
        <3> HIDE DEF o
        <3> QED  BY <2>2, <3>1, <3>4, <3>5, <3>6, CreateLone DEF Single
    <2> QED  BY <2>1, <2>2
<1> QED  BY <1>2, <1>3 DEF Single

\* A call that deletes a slot writes for nobody.
LEMMA SingleDeleted ==
    ASSUME Single, UNCHANGED <<ent, restored>>, NEW i \in Slot, DeleteRecord(i)
    PROVE  Single'
<1>1. job'.ent = EmptyEntry(i) /\ EmptyEntry(i).ID = NoId
    BY DeleteStep DEF EmptyEntry
<1>2. job'.ent.ID = NoId
    BY <1>1
<1> QED  BY <1>2 DEF Single, NoDoubles, Lone, OwnerOf

\* No step doubles an entry of the title's.
LEMMA SingleStep == TypeOK /\ Held /\ Single /\ [Next]_vars => Single'
<1> SUFFICES ASSUME TypeOK, Held, Single, [Next]_vars PROVE Single'
    OBVIOUS
<1> USE DEF Idle, Update, Data, Past, Table, Theirs, libvars
<1>1. ASSUME UNCHANGED <<ent, job, restored>> PROVE Single'
    BY <1>1 DEF Single, NoDoubles, Lone, OwnerOf, Exempt
<1>2. ASSUME UNCHANGED <<ent, restored>>, job' = NoJob PROVE Single'
    <2>1. NoJob.left = <<>>
        BY DEF NoJob, Done
    <2> QED  BY <1>2, <2>1 DEF Single, NoDoubles, Lone, OwnerOf
<1>3. CASE StartApp \/ StartBoot \/ StartInstaller \/ Install
    BY <1>1, <1>3 DEF StartApp, StartBoot, StartInstaller, Install
<1>4. CASE AppInstall
    <2>1. PICK id \in OtherIds \cup {NoId} : CreateRecord(id, AppUrl, AppId)
        BY <1>4 DEF AppInstall
    <2>2. id \in Ids \cup {NoId} /\ AppUrl \in Url /\ AppId \in Ids
        BY Wc24TitleConstants
    <2>3. job.left = <<>> /\ UNCHANGED <<ent, restored>>
        BY <1>4 DEF AppInstall
    <2> QED  BY <2>1, <2>2, <2>3, SingleCreated
<1>5. CASE AppRestore
    BY <1>5 DEF AppRestore, Single, NoDoubles, Lone
<1>6. CASE AppDelete \/ AppFlag \/ AppQuit
    BY <1>1, <1>6 DEF AppDelete, AppFlag, AppQuit
<1>7. CASE Purge
    <2>1. CASE UNCHANGED job
        BY <1>1, <1>7, <2>1 DEF Purge
    <2>2. CASE ~UNCHANGED job
        <3>1. PICK i \in FindRecord(purging) : DeleteRecord(i)
            BY <1>7, <2>2 DEF Purge
        <3>2. i \in Slot
            BY <3>1, Searched DEF TypeOK
        <3> QED  BY <1>7, <3>1, <3>2, SingleDeleted DEF Purge
    <2> QED  BY <2>1, <2>2
<1>8. CASE CheckEntry
    <2>1. CASE UNCHANGED job
        BY <1>1, <1>8, <2>1 DEF CheckEntry
    <2>2. CASE ~UNCHANGED job
        <3>1. PICK i \in FindEntry(TitleId, Like(Head(todo))) : DeleteRecord(i)
            BY <1>8, <2>2 DEF CheckEntry
        <3>2. i \in Slot
            BY <3>1, Searched, Wc24TitleConstants
        <3> QED  BY <1>8, <3>1, <3>2, SingleDeleted DEF CheckEntry
    <2> QED  BY <2>1, <2>2
<1>9. CASE CreateEntry
    <2>1. Wanted(Head(todo)) \in Url /\ TitleId \in Ids /\ TitleId # NoId
        BY <1>9, WantedType, Wc24Constants, Wc24TitleConstants DEF CreateEntry, Held
    <2> QED  BY <1>9, <2>1, SingleCreated DEF CreateEntry
<1>10. CASE EntryCreated \/ EntriesChecked \/ DownloadEntry \/ CheckUpdate
    BY <1>1, <1>10 DEF EntryCreated, EntriesChecked, DownloadEntry, CheckUpdate
<1>11. CASE UpdateStep \/ NoUpdate \/ BootInstaller \/ DropInstaller
    BY <1>1, <1>11 DEF UpdateStep, NoUpdate, BootInstaller, DropInstaller
<1>12. CASE BootArgs
    <2>1. CASE UNCHANGED job
        BY <1>1, <1>12, <2>1 DEF BootArgs
    <2>2. CASE ~UNCHANGED job
        <3> DEFINE u == [name |-> OneShot, base |-> Base[1]]
        <3>1. CreateRecord(NoId, u, TitleId) /\ job.left = <<>> /\ UNCHANGED <<ent, restored>>
            BY <1>12, <2>2 DEF BootArgs
        <3>2. TitleId \in Ids /\ NoId \in Ids \cup {NoId} /\ u \in Url /\ u.name = OneShot
            BY OneShotType, Wc24TitleConstants
        <3> HIDE DEF u
        <3> QED  BY <3>1, <3>2, SingleCreated
    <2> QED  BY <2>1, <2>2
<1>13. CASE EndOneShot
    <2>1. CASE ret = "ok"
        <3>1. job.at \in Slot /\ DeleteRecord(job.at) /\ UNCHANGED <<ent, restored>>
            BY <1>13, <2>1 DEF EndOneShot, TypeOK
        <3> QED  BY <3>1, SingleDeleted
    <2>2. CASE ret # "ok"
        BY <1>1, <1>13, <2>2 DEF EndOneShot
    <2> QED  BY <2>1, <2>2
<1>14. CASE End
    BY <1>2, <1>14 DEF End, Forget
<1>15. CASE Crash
    BY <1>2, <1>15 DEF Crash, PowerLoss, Forget
<1>16. CASE Write
    <2>1. CASE WriteConfig
        BY <1>1, <1>16, <2>1 DEF Write, WriteConfig
    <2> QED  BY <1>16, <2>1, SingleWritten DEF Write
<1>17. CASE Background \/ Publish \/ UNCHANGED vars
    BY <1>1, <1>17 DEF Background, Publish, vars, titlevars
<1> QED  BY <1>3, <1>4, <1>5, <1>6, <1>7, <1>8, <1>9, <1>10, <1>11, <1>12, <1>13,
            <1>14, <1>15, <1>16, <1>17 DEF Next, Program

\* An entry of the title's own is somebody's.
LEMMA OwnOwner ==
    ASSUME NEW name
    PROVE  Own(name).ID = TitleId /\ Own(name).url = Wanted(name) /\ TitleId # NoId
BY Wc24Constants, Wc24TitleConstants DEF Own

\* A step that leaves the tables' owners, the job and the version alone.
LEMMA SecuredUntouched ==
    ASSUME NEW o, Secured(o), UNCHANGED <<ent, job>>, \A i \in Slot : rec'[i].ID = rec[i].ID
    PROVE  Secured(o)'
BY DEF Secured, Live, OwnerOf

\* A write of a call leaves it.
LEMMA SecuredWritten ==
    ASSUME TypeOK, Parts, WriteSlot, NEW o, Secured(o)
    PROVE  Secured(o)'
<1> DEFINE a == job.at
<1>1. /\ a \in Slot /\ job.left # <<>>
      /\ ent \in [Slot -> Entry] /\ rec \in [Slot -> Record]
      /\ \/ job'.left = <<>>
         \/ job'.at = a /\ job'.ent = job.ent
    BY JobWritten
<1>2. \/ rec' = rec /\ ent' = ent
      \/ rec' = [rec EXCEPT ![a] = job.rec] /\ ent' = ent
      \/ ent' = [ent EXCEPT ![a] = job.ent] /\ rec' = rec
    BY DEF WriteSlot
<1>3. PICK i \in Slot :
        /\ Live(i) /\ OwnerOf(ent[i]) = o
        /\ a = i => OwnerOf(job.ent) = o
    BY <1>1 DEF Secured
<1>4. Live(i)' /\ OwnerOf(ent[i])' = o
    <2>1. CASE a # i
        <3>1. rec'[i] = rec[i] /\ ent'[i] = ent[i]
            BY <1>1, <1>2, <2>1
        <3> QED  BY <1>3, <3>1 DEF Live
    <2>2. CASE a = i
        <3>1. job.rec.ID = job.ent.ID /\ job.ent.ID = ent[i].ID
            BY <1>1, <1>3, <2>2, OwnerParts DEF Parts
        <3>2. /\ rec'[i] = rec[i] \/ rec'[i] = job.rec
              /\ ent'[i] = ent[i] \/ ent'[i] = job.ent
            BY <1>1, <1>2, <2>2
        <3>3. OwnerOf(ent'[i]) = o
            BY <1>3, <2>2, <3>2
        <3> QED  BY <1>3, <3>1, <3>2, <3>3 DEF Live
    <2> QED  BY <2>1, <2>2
<1>5. job'.left # <<>> /\ job'.at = i => OwnerOf(job'.ent) = o
    BY <1>1, <1>3
<1> QED  BY <1>4, <1>5 DEF Secured

\* A slot that is created for it, or in one that is not.
LEMMA SecuredCreated ==
    ASSUME NEW o, Secured(o), UNCHANGED <<rec, ent>>, NEW p,
           job' = job \/ /\ OwnerOf(job'.ent) = p
                         /\ \/ rec[job'.at].ID = NoId \/ ent[job'.at].ID = NoId
                            \/ OwnerOf(ent[job'.at]) = p
    PROVE  Secured(o)'
<1>1. CASE job' = job
    BY <1>1, SecuredUntouched
<1>2. CASE job' # job
    <2>1. PICK i \in Slot : Live(i) /\ OwnerOf(ent[i]) = o
        BY DEF Secured
    <2>2. job'.at = i => OwnerOf(job'.ent) = o
        BY <1>2, <2>1 DEF Live
    <2> QED  BY <2>1, <2>2 DEF Secured, Live
<1> QED  BY <1>1, <1>2

\* Nor does it matter when the entry of that name for another URL is deleted.
LEMMA SecuredDeleted ==
    ASSUME NEW name, NEW other, Secured(Own(other)), UNCHANGED <<rec, ent, installed>>,
           NEW i \in Slot, DeleteRecord(i),
           ent[i].url.name = name, ent[i].url # Wanted(name)
    PROVE  Secured(Own(other))'
<1>1. job'.at = i
    BY DeleteStep
<1>2. PICK j \in Slot : Live(j) /\ OwnerOf(ent[j]) = Own(other)
    BY DEF Secured
<1>3. ent[j].url = Wanted(other)
    BY <1>2, OwnOwner, OwnerParts
<1>4. Wanted(other).name = other
    BY DEF Wanted
<1>5. j # i
    BY <1>3, <1>4
<1>6. Own(other)' = Own(other)
    BY DEF Own, Wanted
<1> QED  BY <1>1, <1>2, <1>5, <1>6 DEF Secured, Live, Own, Wanted

\* What a clean run finds by a search is whole.
LEMMA FoundWhole ==
    ASSUME TypeOK, Slots, Accessible, clean, job.left = <<>>, NEW name,
           NEW i \in Slot, ent[i].ID = TitleId, ent[i].url = Wanted(name)
    PROVE  Secured(Own(name))
<1>1. rec[i].ID = ent[i].ID
    BY NoneLeft DEF Slots, Accessible
<1>2. OwnerOf(ent[i]) = Own(name)
    BY DEF OwnerOf, Own
<1> QED  BY <1>1, <1>2, OwnOwner DEF Secured, Live

\* An entry that is not the head of those left is in the tail.
LEMMA LaterLeft ==
    ASSUME NEW S, NEW s \in Seq(S), s # <<>>, NEW l \in DOMAIN s, s[l] # Head(s)
    PROVE  \E m \in DOMAIN Tail(s) : Tail(s)[m] = s[l]
<1>1. l \in 1 .. Len(s) /\ l # 1
    OBVIOUS
<1>2. l - 1 \in DOMAIN Tail(s) /\ Tail(s)[l - 1] = s[l]
    BY <1>1
<1> QED  BY <1>2

\* At first no entry is looked for.
LEMMA ReadyInit == Init => Ready /\ Made
BY DEF Init, Ready, Made

\* A write of a call keeps the entries, and ends with the one it was made for.
LEMMA WriteReady ==
    ASSUME TypeOK, Parts, Placed, Accessible, Ready, Made, Write
    PROVE  Ready' /\ Made'
<1> USE DEF Update, Data, Past
<1>1. UNCHANGED <<phase, todo, installed>>
    BY DEF Write
<1>2. \A name : Own(name)' = Own(name)
    BY <1>1 DEF Own, Wanted
<1>3. clean' => clean /\ faults' = faults
    BY Watched DEF Write
<1>4. \A o : Secured(o) => Secured(o)'
    <2>1. CASE WriteSlot
        BY <2>1, SecuredWritten
    <2>2. CASE WriteConfig
        BY <2>2, SecuredUntouched DEF WriteConfig
    <2> QED  BY <2>1, <2>2 DEF Write
<1>5. Ready'
    BY <1>1, <1>2, <1>3, <1>4 DEF Ready
<1>6. Made'
    <2> SUFFICES ASSUME phase = "created", clean, faults' = faults, ret' = "ok"
                 PROVE  IF job'.left = <<>> THEN Secured(Own(Head(todo)))'
                        ELSE job'.strict /\ OwnerOf(job'.ent) = Own(Head(todo))
        BY <1>1, <1>2, <1>3 DEF Made, OwnerOf
    <2> DEFINE o == Own(Head(todo))
    <2>1. CASE WriteConfig
        <3>1. UNCHANGED <<job, ret>>
            BY <2>1 DEF WriteConfig
        <3> QED  BY <1>1, <1>2, <1>4, <3>1 DEF Made
    <2>2. CASE WriteSlot
        <3> DEFINE a == job.at
        <3>1. /\ a \in Slot /\ job.left # <<>> /\ job \in JobType
              /\ ent \in [Slot -> Entry] /\ rec \in [Slot -> Record] /\ faults \in Nat
            BY <2>2, Wc24Constants DEF TypeOK, WriteSlot, JobType
        <3>2. Works
            BY <2>2, <3>1, FaultsCount DEF WriteSlot, Accessible
        <3>3. ~Fails
            BY <3>1, FaultsCount DEF Accessible
        <3>4. ret = "ok"
            BY <2>2, <3>3 DEF WriteSlot
        <3>5. job.strict /\ OwnerOf(job.ent) = o
            BY <3>1, <3>4 DEF Made
        <3>6. job.left \in {<<"ent">>, <<"rec", "ent">>} /\ job.ok /\ job.rec.ID = job.ent.ID
            BY <3>1, <3>5 DEF Parts
        <3>7. /\ job' = IF Len(job.left) = 1 THEN Done(a) ELSE [job EXCEPT !.left = Tail(@)]
              /\ Head(job.left) = "ent" => ent' = [ent EXCEPT ![a] = job.ent] /\ rec' = rec
            BY <2>2, <3>3 DEF WriteSlot
        <3>8. CASE job.left = <<"ent">>
            <4>1. job' = Done(a) /\ ent' = [ent EXCEPT ![a] = job.ent] /\ rec' = rec
                BY <3>7, <3>8, Seconds
            <4>2. job'.left = <<>> /\ ent'[a] = job.ent
                BY <3>1, <4>1 DEF Done
            <4>3. rec'[a].ID = job.ent.ID
                BY <3>1, <3>6, <3>8, <4>1 DEF Parts
            <4>4. OwnerOf(ent'[a]) = o /\ ent'[a].ID # NoId
                BY <3>5, <4>2, OwnOwner, OwnerParts
            <4>5. Secured(o)'
                BY <1>1, <1>2, <3>1, <4>2, <4>3, <4>4 DEF Secured, Live
            <4> QED  BY <4>2, <4>5
        <3>9. CASE job.left = <<"rec", "ent">>
            <4>1. job' = [job EXCEPT !.left = <<"ent">>]
                BY <3>7, <3>9, Seconds
            <4>2. job'.left = <<"ent">> /\ job'.strict = job.strict /\ job'.ent = job.ent
                BY <3>1, <4>1 DEF JobType
            <4>3. job'.left # <<>>
                BY <4>2
            <4> QED  BY <3>5, <4>2, <4>3
        <3> QED  BY <3>6, <3>8, <3>9
    <2> QED  BY <2>1, <2>2 DEF Write
<1> QED  BY <1>5, <1>6

\* The next of its entries: the title finds it, or goes on to create it.
LEMMA CheckReady ==
    ASSUME TypeOK, Slots, Placed, Accessible, Ready, CheckEntry
    PROVE  Ready'
<1> USE DEF Idle, Update, Data, Past, Table, Theirs, libvars
<1> SUFFICES ASSUME clean, faults' = faults, NEW k \in DOMAIN Updates
             PROVE  \/ Secured(Own(Updates[k]))'
                    \/ phase' # "download" /\ \E l \in DOMAIN todo' : todo'[l] = Updates[k]
    BY Watched DEF Ready, CheckEntry
<1>1. /\ UNCHANGED <<rec, ent, installed>> /\ job.left = <<>> /\ phase = "names"
      /\ phase' \in {"names", "recreate"} /\ todo # <<>> /\ todo \in Seq(Names \ {OneShot})
    BY DEF CheckEntry, Placed
<1>2. \A name : Own(name)' = Own(name)
    BY <1>1 DEF Own, Wanted
<1>3. ~Fails
    <2>1. faults \in Nat
        BY Wc24Constants DEF TypeOK
    <2> QED  BY <2>1, FaultsCount DEF Accessible
<1>4. \/ Secured(Own(Updates[k]))
      \/ \E l \in DOMAIN todo : todo[l] = Updates[k]
    BY <1>1 DEF Ready
<1>5. CASE \E i \in FindEntry(TitleId, Like(Head(todo))) :
            ent[i].url = Wanted(Head(todo)) /\ todo' = Tail(todo) /\ UNCHANGED <<job, phase>>
    <2>1. PICK i \in FindEntry(TitleId, Like(Head(todo))) : ent[i].url = Wanted(Head(todo))
        BY <1>5
    <2>2. i \in Slot /\ ent[i].ID = TitleId
        BY Searched, Wc24TitleConstants
    <2>3. Secured(Own(Head(todo)))
        BY <1>1, <2>1, <2>2, FoundWhole
    <2>4. \A name : Secured(Own(name)) => Secured(Own(name))'
        BY <1>1, <1>2, <1>5, SecuredUntouched
    <2>5. CASE \E l \in DOMAIN todo : todo[l] = Updates[k] /\ Updates[k] # Head(todo)
        BY <1>1, <1>5, <2>5, LaterLeft
    <2>6. Updates[k] = Head(todo) => Secured(Own(Updates[k]))'
        BY <2>3, <2>4
    <2> QED  BY <1>4, <2>4, <2>5, <2>6
<1>6. CASE \E i \in FindEntry(TitleId, Like(Head(todo))) :
            ent[i].url # Wanted(Head(todo)) /\ DeleteRecord(i) /\ UNCHANGED todo /\ phase' = "recreate"
    <2>1. PICK i \in FindEntry(TitleId, Like(Head(todo))) :
            ent[i].url # Wanted(Head(todo)) /\ DeleteRecord(i)
        BY <1>6
    <2>2. i \in Slot /\ ent[i].url \in Like(Head(todo))
        BY Searched, Wc24TitleConstants
    <2>3. ent[i].url.name = Head(todo)
        BY <2>2 DEF Like
    <2>4. \A name : Secured(Own(name)) => Secured(Own(name))'
        BY <1>1, <2>1, <2>2, <2>3, SecuredDeleted
    <2> QED  BY <1>4, <1>6, <2>4
<1>7. CASE UNCHANGED <<job, todo>> /\ phase' = "recreate"
    <2>1. \A name : Secured(Own(name)) => Secured(Own(name))'
        BY <1>1, <1>2, <1>7, SecuredUntouched
    <2> QED  BY <1>4, <1>7, <2>1
<1> QED  BY <1>3, <1>5, <1>6, <1>7 DEF CheckEntry

\* The entry it creates.
LEMMA CreateReady ==
    ASSUME TypeOK, Held, Ready, CreateEntry
    PROVE  Ready' /\ Made'
<1> USE DEF Idle, Update, Data, Past, Table, Theirs, libvars
<1> DEFINE o == Own(Head(todo))
<1>1. /\ UNCHANGED <<rec, ent, installed, todo>> /\ phase = "recreate" /\ phase' = "created"
      /\ CreateRecord(TitleId, Wanted(Head(todo)), TitleId)
    BY DEF CreateEntry
<1>2. Wanted(Head(todo)) \in Url /\ TitleId \in Ids /\ TitleId # NoId
    BY <1>1, WantedType, Wc24Constants, Wc24TitleConstants DEF Held
<1>3. OwnerFor(TitleId, Wanted(Head(todo)), TitleId) = o
    BY <1>2 DEF OwnerFor, Own
<1>4. \/ job' = job /\ ret' = "err"
      \/ /\ ret' = "ok" /\ job'.strict = TRUE /\ job'.left = <<"rec", "ent">>
         /\ OwnerOf(job'.ent) = o
         /\ \/ rec[job'.at].ID = NoId \/ ent[job'.at].ID = NoId
            \/ OwnerOf(ent[job'.at]) = o
    BY <1>1, <1>2, <1>3, CreateOwner
<1>5. \A name : Own(name)' = Own(name)
    BY <1>1 DEF Own, Wanted
<1>6. \A p : Secured(p) => Secured(p)'
    <2> HIDE DEF o
    <2> QED  BY <1>1, <1>4, SecuredCreated
<1>7. clean' => clean
    BY Watched DEF CreateEntry
<1>8. Ready'
    BY <1>1, <1>5, <1>6, <1>7 DEF Ready
<1>9. Made'
    <2> SUFFICES ASSUME ret' = "ok"
                 PROVE  job'.left # <<>> /\ job'.strict /\ OwnerOf(job'.ent) = Own(Head(todo))'
        BY DEF Made, OwnerOf
    <2>1. job'.left = <<"rec", "ent">> /\ job'.strict = TRUE /\ OwnerOf(job'.ent) = o
        BY <1>4
    <2>2. job'.left # <<>>
        BY <2>1
    <2>3. Own(Head(todo))' = o
        BY <1>1, <1>5
    <2> QED  BY <2>1, <2>2, <2>3
<1> QED  BY <1>8, <1>9

\* The entry is created: one less to look for.
LEMMA CreatedReady ==
    ASSUME TypeOK, Placed, Held, Ready, Made, EntryCreated
    PROVE  Ready'
<1> USE DEF Idle, Update, Data, Past, Table, Theirs, libvars
<1> SUFFICES ASSUME clean, phase' = "names", NEW k \in DOMAIN Updates
             PROVE  \/ Secured(Own(Updates[k]))'
                    \/ \E l \in DOMAIN todo' : todo'[l] = Updates[k]
    BY DEF Ready, EntryCreated
<1>1. /\ UNCHANGED <<rec, ent, job, installed>> /\ job.left = <<>> /\ phase = "created" /\ ret = "ok"
      /\ todo' = Tail(todo) /\ todo # <<>> /\ todo \in Seq(Names \ {OneShot})
    BY DEF EntryCreated, Placed, Held
<1>2. \A name : Own(name)' = Own(name)
    BY <1>1 DEF Own, Wanted
<1>3. \A name : Secured(Own(name)) => Secured(Own(name))'
    BY <1>1, <1>2, SecuredUntouched
<1>4. Secured(Own(Head(todo)))
    BY <1>1 DEF Made
<1>5. \/ Secured(Own(Updates[k]))
      \/ \E l \in DOMAIN todo : todo[l] = Updates[k]
    BY <1>1 DEF Ready
<1>6. CASE \E l \in DOMAIN todo : todo[l] = Updates[k] /\ Updates[k] # Head(todo)
    BY <1>1, <1>6, LaterLeft
<1>7. Updates[k] = Head(todo) => Secured(Own(Updates[k]))'
    BY <1>3, <1>4
<1> QED  BY <1>3, <1>5, <1>6, <1>7

\* No step loses an entry of the title's.
LEMMA ReadyStep ==
    ASSUME TypeOK, Held, Slots, Placed, Accessible, Ready, Made, [Next]_vars
    PROVE  Ready' /\ Made'
<1> USE DEF Idle, Update, Data, Past, Table, Theirs, libvars
\* The steps after which none is looked for.
<1>1. ASSUME phase' \notin {"names", "recreate", "created", "download"} PROVE Ready' /\ Made'
    BY <1>1 DEF Ready, Made
<1>2. ASSUME UNCHANGED <<ent, job, installed, todo, phase, ret>>, clean' => clean,
             \A i \in Slot : rec'[i].ID = rec[i].ID
      PROVE  Ready' /\ Made'
    <2>1. \A name : Own(name)' = Own(name)
        BY <1>2 DEF Own, Wanted
    <2>2. \A o : Secured(o) => Secured(o)'
        BY <1>2, SecuredUntouched
    <2>3. Ready'
        BY <1>2, <2>1, <2>2 DEF Ready
    <2>4. Secured(Own(Head(todo))) => Secured(Own(Head(todo)))'
        BY <1>2, <2>1, <2>2
    <2>5. Made'
        BY <1>2, <2>1, <2>4 DEF Made, OwnerOf
    <2> QED  BY <2>3, <2>5
<1>3. CASE StartApp \/ StartInstaller
    BY <1>1, <1>3 DEF StartApp, StartInstaller, Starts
<1>4. CASE StartBoot
    <2>1. phase' = "args" \/ (phase' = "names" /\ todo' = Updates)
        BY <1>4 DEF StartBoot, Starts
    <2> QED  BY <1>1, <2>1 DEF Ready, Made
<1>5. CASE Install
    BY <1>1, <1>5 DEF Install, Held
<1>6. CASE AppInstall \/ AppDelete \/ AppRestore \/ AppFlag \/ AppQuit \/ Purge
    BY <1>1, <1>6 DEF AppInstall, AppDelete, AppRestore, AppFlag, AppQuit, Purge
<1>7. CASE CheckEntry
    <2>1. Made'
        BY <1>7 DEF CheckEntry, Made
    <2> QED  BY <1>7, <2>1, CheckReady
<1>8. CASE CreateEntry
    BY <1>8, CreateReady
<1>9. CASE EntryCreated
    <2>1. Made'
        BY <1>9 DEF EntryCreated, Made
    <2> QED  BY <1>9, <2>1, CreatedReady
<1>10. CASE EntriesChecked
    <2>1. /\ UNCHANGED <<rec, ent, job, installed, clean>> /\ todo = <<>>
          /\ phase = "names" /\ phase' = "download"
        BY <1>10 DEF EntriesChecked
    <2>2. \A name : Own(name)' = Own(name)
        BY <2>1 DEF Own, Wanted
    <2>3. \A name : Secured(Own(name)) => Secured(Own(name))'
        BY <2>1, <2>2, SecuredUntouched
    <2>4. ~\E l \in DOMAIN todo : TRUE
        BY <2>1
    <2> QED  BY <2>1, <2>2, <2>3, <2>4 DEF Ready, Made
<1>11. CASE DownloadEntry
    <2>1. \A i \in FindEntry(TitleId, {Wanted(Head(todo))}) : i \in Slot
        BY Searched, Wc24TitleConstants
    <2>2. \A j \in Slot : rec'[j].ID = rec[j].ID
        BY <1>11, <2>1, FetchKeeps DEF DownloadEntry
    <2>3. clean' => clean
        BY <1>11, Watched DEF DownloadEntry
    <2>4. UNCHANGED <<ent, job, installed>> /\ phase = "download" /\ phase' = "download"
        BY <1>11 DEF DownloadEntry
    <2>5. \A name : Own(name)' = Own(name)
        BY <2>4 DEF Own, Wanted
    <2>6. \A name : Secured(Own(name)) => Secured(Own(name))'
        BY <2>2, <2>4, <2>5, SecuredUntouched
    <2> QED  BY <2>3, <2>4, <2>5, <2>6 DEF Ready, Made
<1>12. CASE CheckUpdate \/ NoUpdate \/ UpdateStep \/ BootInstaller \/ DropInstaller
    BY <1>1, <1>12 DEF CheckUpdate, NoUpdate, UpdateStep, BootInstaller, DropInstaller
<1>13. CASE BootArgs \/ EndOneShot \/ End \/ Crash
    BY <1>1, <1>13 DEF BootArgs, EndOneShot, End, Crash
<1>14. CASE Write
    BY <1>14, WriteReady DEF Slots
<1>15. CASE Background
    BY <1>1, <1>15 DEF Background, Held
<1>16. CASE Publish \/ UNCHANGED vars
    BY <1>2, <1>16 DEF Publish, vars, titlevars
<1> QED  BY <1>3, <1>4, <1>5, <1>6, <1>7, <1>8, <1>9, <1>10, <1>11, <1>12, <1>13,
            <1>14, <1>15, <1>16 DEF Next, Program

-----------------------------------------------------------------------------
(* The entry of a program to boot *)

\* The lists found have no entry of a program to boot.
LEMMA OneShotsInit == Init => OneShots
<1> SUFFICES ASSUME Init PROVE OneShots
    OBVIOUS
<1>1. PICK h \in Homes : LibInit(h.table)
    BY DEF Init
<1>2. \A i \in Slot : ent[i].url = h.table[i].url
    BY <1>1 DEF LibInit, EntryOf
<1>3. \A i \in Slot : h.table[i].url.name # OneShot
    BY <1>1, Wc24Lists
<1>4. job.left = <<>>
    BY <1>1 DEF LibInit, NoJob, Done
<1> QED  BY <1>2, <1>3, <1>4 DEF OneShots

\* Elsewhere there is none.
LEMMA NoOneShot ==
    ASSUME OneShots, UNCHANGED ent, faults' = 0 => faults = 0,
           prog # "boot" \/ phase \notin {"fetch", "end"} \/ (phase = "end" /\ job.left = <<>>),
           job'.left = <<>> \/ job'.ent.url.name # OneShot
    PROVE  OneShots'
<1>1. faults = 0 => \A i \in Slot : ent[i].url.name # OneShot
    BY DEF OneShots, Leaves
<1> QED  BY <1>1 DEF OneShots

\* A call that creates a slot for something else.
LEMMA OthersCreated ==
    ASSUME TypeOK, OneShots, UNCHANGED ent, job.left = <<>>,
           NEW id \in Ids \cup {NoId}, NEW url \in Url, NEW title \in Ids,
           CreateRecord(id, url, title), url.name # OneShot,
           prog # "boot" \/ phase \notin {"fetch", "end"}
    PROVE  OneShots'
<1>1. OwnerFor(id, url, title).url = url
    BY OwnerForType
<1>2. \/ job' = job
      \/ job'.ent.url = url
    <2>1. job' = job \/ OwnerOf(job'.ent) = OwnerFor(id, url, title)
        BY CreateOwner
    <2> QED  BY <1>1, <2>1, OwnerParts
<1>3. faults' = 0 => faults = 0
    <2>1. Works \/ Fails \/ WrongSlot
        BY DEF CreateRecord
    <2>2. faults \in Nat
        BY Wc24Constants DEF TypeOK
    <2> QED  BY <2>1, <2>2, FaultsCount
<1> QED  BY <1>2, <1>3, NoOneShot

\* A call that deletes one.
LEMMA OthersDeleted ==
    ASSUME OneShots, UNCHANGED <<ent, faults>>, NEW i \in Slot, DeleteRecord(i),
           prog # "boot" \/ phase \notin {"fetch", "end"}
    PROVE  OneShots'
<1>1. job'.ent = EmptyEntry(i) /\ EmptyEntry(i).url = NoUrl /\ NoUrl.name = ""
    BY DeleteStep DEF EmptyEntry, NoUrl
<1>2. job'.ent.url.name # OneShot
    BY <1>1, Wc24Lists
<1> QED  BY <1>2, NoOneShot

\* A write of a call: the entry of a program to boot is made, or made zeros.
LEMMA OneShotWritten ==
    ASSUME TypeOK, Parts, Placed, BadFd, OneShots, WriteSlot, UNCHANGED <<phase, prog>>
    PROVE  OneShots'
<1> DEFINE a == job.at
<1>1. /\ a \in Slot /\ job.left # <<>> /\ job \in JobType
      /\ ent \in [Slot -> Entry] /\ faults \in Nat
      /\ job'.at = a
      /\ \/ job'.left = <<>>
         \/ job'.ent = job.ent /\ job'.left = Tail(job.left) /\ job'.strict = job.strict
    BY JobWritten
<1> SUFFICES ASSUME faults' = 0
             PROVE  /\ \A i \in Slot : ent'[i].url.name = OneShot => Leaves(i)'
                    /\ job'.left # <<>> /\ job'.ent.url.name = OneShot =>
                        phase' = "fetch" /\ ret' = "ok"
    BY DEF OneShots
<1>2. faults = 0
    <2>1. Works \/ Fails
        BY DEF WriteSlot
    <2> QED  BY <1>1, <2>1, FaultsCount
<1>3. CASE Fails
    <2>1. prog = "inst"
        BY <1>1, <1>2, <1>3, FaultsCount DEF BadFd
    <2>2. \A i \in Slot : ent[i].url.name # OneShot
        BY <1>2, <2>1 DEF OneShots, Leaves
    <2>3. phase # "fetch"
        BY <2>1 DEF Placed
    <2>4. job.ent.url.name # OneShot
        BY <1>1, <1>2, <2>3 DEF OneShots
    <2>5. \A i \in Slot : ent'[i] = ent[i] \/ ent'[i] = job.ent
        BY <1>1 DEF WriteSlot
    <2> QED  BY <1>1, <2>2, <2>4, <2>5
<1>4. CASE ~Fails
    <2>1. /\ ret' = ret
          /\ job' = IF Len(job.left) = 1 THEN Done(a) ELSE [job EXCEPT !.left = Tail(@)]
          /\ IF Head(job.left) = "rec" THEN ent' = ent ELSE ent' = [ent EXCEPT ![a] = job.ent]
        BY <1>4 DEF WriteSlot
    <2>2. \A i \in Slot : i # a => ent'[i].url.name # OneShot
        <3>1. \A i \in Slot : i # a => ent'[i] = ent[i]
            BY <1>1, <2>1
        <3> QED  BY <1>2, <3>1 DEF OneShots, Leaves
    <2>3. CASE job.ent.url.name = OneShot
        <3>1. phase = "fetch" /\ ret = "ok" /\ prog = "boot"
            BY <1>1, <1>2, <2>3 DEF OneShots, Placed
        <3> QED  BY <1>1, <2>1, <2>2, <3>1 DEF Leaves
    <2>4. CASE job.ent.url.name # OneShot
        <3>1. \A i \in Slot : ent'[i].url.name = OneShot => i = a /\ ent'[a] = ent[a]
            BY <1>1, <2>1, <2>2, <2>4
        <3>2. ASSUME ent'[a].url.name = OneShot PROVE Leaves(a)'
            <4>1. Leaves(a)
                BY <1>1, <1>2, <3>1, <3>2 DEF OneShots
            <4>2. CASE phase = "fetch" /\ ret = "ok"
                BY <1>1, <2>1, <4>1, <4>2 DEF Leaves
            <4>3. CASE phase = "end" /\ job.ent.ID = NoId /\ job.strict
                <5>1. job.left \in {<<"ent">>, <<"rec", "ent">>}
                    BY <1>1, <4>3 DEF Parts
                <5>2. job.left # <<"ent">>
                    <6> SUFFICES ASSUME job.left = <<"ent">> PROVE FALSE
                        OBVIOUS
                    <6>1. ent'[a] = job.ent
                        BY <1>1, <2>1, Seconds
                    <6> QED  BY <2>4, <3>2, <6>1
                <5>3. job'.left = <<"ent">> /\ job'.ent = job.ent /\ job'.strict = job.strict
                    <6>1. job' = [job EXCEPT !.left = <<"ent">>]
                        <7>1. job.left = <<"rec", "ent">>
                            BY <5>1, <5>2
                        <7> QED  BY <2>1, <7>1, Seconds
                    <6> QED  BY <1>1, <6>1 DEF JobType
                <5>4. job'.left # <<>>
                    BY <5>3
                <5> QED  BY <1>1, <4>1, <4>3, <5>3, <5>4 DEF Leaves
            <4> QED  BY <4>1, <4>2, <4>3 DEF Leaves
        <3> QED  BY <1>1, <2>4, <3>1, <3>2
    <2> QED  BY <2>3, <2>4
<1> QED  BY <1>3, <1>4

\* Only a fault leaves the entry of a program to boot behind.
LEMMA OneShotsStep ==
    ASSUME TypeOK, Held, Slots, Placed, BadFd, OneShots, [Next]_vars
    PROVE  OneShots'
<1> USE DEF Idle, Update, Data, Past, Table, Theirs, libvars
<1>1. faults \in Nat
    BY Wc24Constants DEF TypeOK
<1>2. ASSUME NEW p, NEW first, Starts(p, first), prog = "none", UNCHANGED <<ent, job>>
      PROVE  OneShots'
    <2>1. PICK failed \in SUBSET {"cbk", "cfg"} : InitSucceeds(failed)
        BY <1>2 DEF Starts
    <2>2. Cardinality(failed) \in Nat /\ faults' = faults + Cardinality(failed)
        BY <2>1, FailedCount DEF InitSucceeds
    <2>3. faults' = 0 => faults = 0
        BY <1>1, <2>2
    <2> QED  BY <1>2, <2>3, NoOneShot DEF Held
<1>3. CASE StartApp \/ StartBoot
    BY <1>2, <1>3 DEF StartApp, StartBoot
<1>4. CASE StartInstaller
    <2>1. CASE InitRefuses
        <3>1. faults' = 0 => faults = 0
            BY <1>1, <2>1 DEF InitRefuses
        <3> QED  BY <1>4, <3>1, NoOneShot DEF StartInstaller, Held
    <2> QED  BY <1>2, <1>4, <2>1 DEF StartInstaller
<1>5. CASE AppInstall
    <2>1. PICK id \in OtherIds \cup {NoId} : CreateRecord(id, AppUrl, AppId)
        BY <1>5 DEF AppInstall
    <2>2. /\ id \in Ids \cup {NoId} /\ AppUrl \in Url /\ AppId \in Ids
          /\ AppUrl.name # OneShot
        BY Wc24TitleConstants, Wc24Lists
    <2>3. job.left = <<>> /\ UNCHANGED ent /\ phase = "menu"
        BY <1>5 DEF AppInstall
    <2> QED  BY <2>1, <2>2, <2>3, OthersCreated
<1>6. CASE AppRestore
    <2>1. PICK i \in FindEntry(AppId, {AppUrl}) :
            Begin(i, RecordOf(Backup[i]), EntryOf(i, Backup[i]), <<"ent", "rec">>, FALSE)
        BY <1>6 DEF AppRestore
    <2>2. i \in Slot
        BY Searched, Wc24TitleConstants
    <2>3. job'.ent.url.name # OneShot
        BY <2>1, <2>2, Wc24Lists DEF Begin, EntryOf
    <2> QED  BY <1>6, <2>3, NoOneShot DEF AppRestore, Works
<1>7. CASE AppDelete \/ AppFlag \/ AppQuit
    BY <1>7, NoOneShot DEF AppDelete, AppFlag, AppQuit
<1>8. CASE Purge
    <2>1. CASE UNCHANGED job
        <3>1. faults' = 0 => faults = 0
            BY <1>1, <1>8, FaultsCount DEF Purge
        <3> QED  BY <1>8, <2>1, <3>1, NoOneShot DEF Purge
    <2>2. CASE ~UNCHANGED job
        <3>1. PICK i \in FindRecord(purging) : DeleteRecord(i)
            BY <1>8, <2>2 DEF Purge
        <3>2. i \in Slot
            BY <3>1, Searched DEF TypeOK
        <3>3. UNCHANGED <<ent, faults>> /\ phase = "purge"
            BY <1>8, <2>2 DEF Purge, Works
        <3> QED  BY <3>1, <3>2, <3>3, OthersDeleted
    <2> QED  BY <2>1, <2>2
<1>9. CASE CheckEntry
    <2>1. CASE UNCHANGED job
        <3>1. faults' = 0 => faults = 0
            BY <1>1, <1>9, FaultsCount DEF CheckEntry
        <3> QED  BY <1>9, <2>1, <3>1, NoOneShot DEF CheckEntry
    <2>2. CASE ~UNCHANGED job
        <3>1. PICK i \in FindEntry(TitleId, Like(Head(todo))) : DeleteRecord(i)
            BY <1>9, <2>2 DEF CheckEntry
        <3>2. i \in Slot
            BY <3>1, Searched, Wc24TitleConstants
        <3>3. UNCHANGED <<ent, faults>> /\ phase = "names"
            BY <1>9, <2>2 DEF CheckEntry, Works
        <3> QED  BY <3>1, <3>2, <3>3, OthersDeleted
    <2> QED  BY <2>1, <2>2
<1>10. CASE CreateEntry
    <2>1. Wanted(Head(todo)) \in Url /\ TitleId \in Ids
        BY <1>10, WantedType, Wc24TitleConstants DEF CreateEntry, Held
    <2>2. Head(todo) # OneShot
        <3>1. todo # <<>> /\ todo \in Seq(Names \ {OneShot})
            BY <1>10 DEF CreateEntry, Held, Placed
        <3> QED  BY <3>1, RestOfNames
    <2>3. Wanted(Head(todo)).name # OneShot
        BY <2>2 DEF Wanted
    <2> QED  BY <1>10, <2>1, <2>3, OthersCreated DEF CreateEntry
<1>11. CASE EntryCreated \/ EntriesChecked \/ CheckUpdate
    BY <1>11, NoOneShot DEF EntryCreated, EntriesChecked, CheckUpdate
<1>12. CASE DownloadEntry
    <2>1. faults' = 0 => faults = 0
        BY <1>1, <1>12, FaultsCount DEF DownloadEntry
    <2>2. job.left = <<>> /\ UNCHANGED <<ent, job>> /\ phase = "download"
        BY <1>12 DEF DownloadEntry
    <2> QED  BY <2>1, <2>2, NoOneShot
<1>13. CASE UpdateStep \/ NoUpdate \/ BootInstaller \/ DropInstaller
    BY <1>13, NoOneShot DEF UpdateStep, NoUpdate, BootInstaller, DropInstaller, Held
<1>14. CASE BootArgs
    <2>1. UNCHANGED ent /\ phase = "args" /\ job.left = <<>> /\ prog = "boot" /\ prog' = prog
        BY <1>14 DEF BootArgs, Placed
    <2>2. faults = 0 => \A i \in Slot : ent[i].url.name # OneShot
        BY <2>1 DEF OneShots, Leaves
    <2>3. CASE code = "http"
        <3> DEFINE u == [name |-> OneShot, base |-> Base[1]]
        <3>1. CreateRecord(NoId, u, TitleId) /\ phase' = "fetch"
            BY <1>14, <2>3 DEF BootArgs
        <3>2. TitleId \in Ids /\ NoId \in Ids \cup {NoId} /\ u \in Url
            BY OneShotType, Wc24TitleConstants
        <3> HIDE DEF u
        <3>3. job'.left = <<>> \/ ret' = "ok"
            BY <2>1, <3>1, <3>2, CreateOwner
        <3>4. faults' = 0 => faults = 0
            <4>1. Works \/ Fails \/ WrongSlot
                BY <3>1 DEF CreateRecord
            <4> QED  BY <1>1, <4>1, FaultsCount
        <3> QED  BY <2>1, <2>2, <3>1, <3>3, <3>4 DEF OneShots
    <2>4. CASE code # "http"
        BY <1>14, <2>1, <2>4, NoOneShot DEF BootArgs
    <2> QED  BY <2>3, <2>4
<1>15. CASE EndOneShot
    <2>1. CASE ret = "ok"
        <3>1. /\ job.at \in Slot /\ DeleteRecord(job.at) /\ UNCHANGED <<ent, faults, prog>>
              /\ phase = "fetch" /\ phase' = "end" /\ prog = "boot"
            BY <1>15, <2>1 DEF EndOneShot, TypeOK, Placed
        <3>2. /\ job'.at = job.at /\ job'.ent = EmptyEntry(job.at) /\ job'.strict = TRUE
              /\ job'.left = <<"rec", "ent">>
            BY <3>1, DeleteStep
        <3>3. /\ EmptyEntry(job.at).ID = NoId /\ EmptyEntry(job.at).url.name = ""
              /\ job'.left # <<>>
            <4>1. job'.left # <<>>
                BY <3>2
            <4> QED  BY <4>1 DEF EmptyEntry, NoUrl
        <3>4. job'.ent.ID = NoId /\ job'.ent.url.name # OneShot
            BY <3>2, <3>3, Wc24Lists
        <3>5. faults = 0 => \A i \in Slot : ent[i].url.name = OneShot => i = job.at
            BY DEF OneShots, Leaves
        <3> QED  BY <3>1, <3>2, <3>3, <3>4, <3>5 DEF OneShots, Leaves
    <2>2. CASE ret # "ok"
        <3>1. UNCHANGED <<ent, job, faults>> /\ job.left = <<>>
            BY <1>15, <2>2 DEF EndOneShot
        <3>2. faults = 0 => \A i \in Slot : ent[i].url.name # OneShot
            BY <2>2, <3>1 DEF OneShots, Leaves
        <3> QED  BY <3>1, <3>2 DEF OneShots
    <2> QED  BY <2>1, <2>2
<1>16. CASE End
    <2>1. NoJob.left = <<>>
        BY DEF NoJob, Done
    <2> QED  BY <1>16, <2>1, NoOneShot DEF End, Forget
<1>17. CASE Crash
    <2>1. faults' = faults + 1
        BY <1>17 DEF Crash, PowerLoss
    <2> QED  BY <1>1, <2>1 DEF OneShots
<1>18. CASE Write
    <2>1. CASE WriteSlot
        BY <1>18, <2>1, OneShotWritten DEF Write, Slots
    <2>2. CASE WriteConfig
        <3>1. /\ UNCHANGED <<ent, job, ret, phase, prog>>
              /\ faults' = faults \/ faults' = faults + 1
            BY <1>18, <2>2 DEF Write, WriteConfig
        <3>2. faults' = 0 => faults = 0
            BY <1>1, <3>1
        <3> QED  BY <3>1, <3>2 DEF OneShots, Leaves
    <2> QED  BY <1>18, <2>1, <2>2 DEF Write
<1>19. CASE Install \/ Background \/ Publish \/ UNCHANGED vars
    BY <1>19 DEF Install, Background, Publish, vars, titlevars, OneShots, Leaves
<1> QED  BY <1>3, <1>4, <1>5, <1>6, <1>7, <1>8, <1>9, <1>10, <1>11, <1>12, <1>13,
            <1>14, <1>15, <1>16, <1>17, <1>18, <1>19 DEF Next, Program

-----------------------------------------------------------------------------
(* The theorems *)

IInv == TypeOK /\ Held /\ Slots /\ OneShotMade /\ ConfigKept /\ Backed /\ Announced

\* The invariant is inductive.
LEMMA Inductive == Spec => []IInv
<1>1. Init => IInv
    <2>1. Init => OneShotMade
        BY DEF Init, OneShotMade
    <2> QED  BY <2>1, TypeInit, HeldInit, SlotsInit, ConfigInit, AnnouncedInit DEF IInv
<1>2. IInv /\ [Next]_vars => IInv'
    BY TypeStep, HeldStep, SlotsStep, OneShotStep, ConfigStep, AnnouncedStep DEF IInv
<1> QED  BY <1>1, <1>2, PTL DEF Spec

\* Whatever order the programs make their calls in, wherever a write fails or
\* the power goes, the two tables of nwc24dl.bin name the same title in every
\* slot but those a cut call left, and each entry its own number.
THEOREM SlotsKept == Spec => []SlotsAgree
<1>1. IInv => SlotsAgree
    BY DEF IInv, Slots, SlotsAgree
<1> QED  BY <1>1, Inductive, PTL

\* No program writes a slot of another owner, or gives out a slot reserved for
\* mail.
THEOREM NoneOverwritten == Spec => OthersKept
<1>1. IInv /\ [Next]_vars =>
        [\A i \in Slot :
            (rec[i].ID # rec'[i].ID \/ ent[i] # ent'[i]) =>
                /\ Live(i) /\ i \notin hurt => MayChange(i)
                /\ i < Reserved => rec[i].ID # NoId \/ ent[i].ID # NoId]_vars
    BY OthersStep DEF IInv, MayWrite
<1> QED  BY <1>1, Inductive, PTL DEF Spec, OthersKept

\* One failed read or a cut update never costs the configuration, nor locks
\* the programs out unnoticed.
THEOREM ConfigSurvives == Spec => []ConfigKept
<1>1. IInv => ConfigKept
    BY DEF IInv
<1> QED  BY <1>1, Inductive, PTL

\* As long as its data are not deleted, wc24boottitle boots no installer for a
\* version file that is not newer than every one it booted an installer for.
THEOREM UpdatesEnd == Spec => NoUpdateLoop
<1>1. IInv /\ [Next]_vars => [BootInstaller => dol.for > booted]_vars
    <2>1. IInv /\ BootInstaller => booted < dol.for
        BY UpToDate DEF IInv, BootInstaller
    <2>2. IInv => dol.for \in Nat /\ booted \in Nat
        BY Wc24Constants DEF IInv, TypeOK, Version
    <2> QED  BY <2>1, <2>2
<1> QED  BY <1>1, Inductive, PTL DEF Spec, NoUpdateLoop

\* What EntriesThere rests on besides.
There == Single /\ Placed /\ Accessible /\ BadFd /\ Ready /\ Made /\ OneShots

\* Whatever programs run in whatever order: an entry with an ID of its own is
\* in no two slots, after a clean run each entry of the title's is there, and
\* without a fault no entry of a booted program stays.
THEOREM EntriesKept == Spec => []EntriesThere
<1>1. Init => There
    BY SingleInit, PlacedInit, CleanInit, ReadyInit, OneShotsInit DEF There
<1>2. IInv /\ There /\ [Next]_vars => There'
    BY SingleStep, PlacedStep, CleanStep, ReadyStep, OneShotsStep DEF IInv, There
<1>3. IInv /\ There => EntriesThere
    <2> SUFFICES ASSUME IInv, There PROVE EntriesThere
        OBVIOUS
    <2>1. NoDoubles
        BY DEF There, Single
    <2>2. AllThere
        BY DEF There, Ready, Secured, Own, AllThere
    <2>3. OneShotGone
        BY DEF There, OneShots, Leaves, OneShotGone
    <2> QED  BY <2>1, <2>2, <2>3 DEF EntriesThere
<1> QED  BY <1>1, <1>2, <1>3, Inductive, PTL DEF Spec
=============================================================================
