------------------------------ MODULE Wc24Title -----------------------------
(***************************************************************************)
(* The programs that use libwc24, one at a time: the menu of wc24app, the  *)
(* NAND title wc24boottitle, and its installer.                            *)
(*                                                                         *)
(* wc24boottitle keeps download entries for its own updates, has them      *)
(* downloaded, and boots the installer it finds among the files when the   *)
(* version file beside it is newer than the one its configuration names.   *)
(* KD, the part of IOS that downloads, is external: for a slot in use it   *)
(* fetches the file of the URL if the server has one newer than            *)
(* last_modified.  The files stand in wc24dl.vff, which goes when ES       *)
(* deletes the title's data; only wc24boottitle creates it.                *)
(***************************************************************************)
EXTENDS Wc24

CONSTANTS
    AppId,          \* the title wc24app runs as
    TitleId,        \* WC24ID, the title of wc24boottitle
    AppUrl,         \* what wc24app installs an entry for
    OtherIds,       \* IDs wc24app passes for entries of no title
    Backup,         \* nwc24dlbak.bin on the SD card
    Updates,        \* names of the entries wc24boottitle keeps, in its order
    OneShot,        \* name of a program to download and boot
    Base,           \* base of the URLs in each version of wc24boottitle
    Homes           \* download lists, and what is asked of the programs

Questions == {"install", "delete", "restore", "flag", "http"}

ASSUME Wc24TitleConstants ==
    /\ {AppId, TitleId} \cup OtherIds \subseteq Ids /\ AppId # TitleId
    /\ AppUrl \in Url /\ OneShot \in Names
    /\ Updates \in Seq(Names \ {OneShot, AppUrl.name})
    /\ Base \in [1 .. MaxVer -> Bases]
    /\ Backup \in [Slot -> Owner]
    /\ Homes \subseteq [table : [Slot -> Owner], asks : SUBSET Questions]

\* As the programs find them, no list holds an entry of a program to boot, and
\* none but that of wc24app twice; nor does the backup hold one to boot.
ASSUME Wc24Lists ==
    /\ OneShot # "" /\ OneShot # AppUrl.name
    /\ \A i \in Slot : Backup[i].url.name # OneShot
    /\ \A h \in Homes : \A i, j \in Slot :
        /\ h.table[i].url.name # OneShot
        /\ i # j /\ h.table[i] = h.table[j] => h.table[i].ID \in {NoId, AppId}

VARIABLES
    asks,       \* the questions of wc24app that may be answered with yes, and
                \* whether programs are booted over HTTP
    prog,       \* the program running
    phase,      \* where it is
    purging,    \* the ID whose slots are being deleted
    todo,       \* entries, or steps of the update, still to be dealt with
    code,       \* launchcode: what wc24boottitle was started to boot
    dol,        \* the installer read into memory, and the version file beside it
    installed,  \* version of wc24boottitle on the NAND
    served,     \* version on the server
    vff,        \* whether there is a wc24dl.vff
    file,       \* versions of the files in it, 0 where there is none
    booted,     \* history: the newest version file an installer was booted for
                \* since the title's data were deleted last
    clean,      \* history: this run began with whole slots and met no fault
    restored,   \* history: slots were overwritten from the backup
    blind       \* history: both configuration files could not be read

titlevars == <<asks, prog, phase, purging, todo, code, dol, installed, served, vff, file,
               booted, clean, restored, blind>>
vars == <<libvars, titlevars>>

Programs == {"none", "app", "boot", "inst"}
Phases   == {"off", "menu", "purge", "names", "recreate", "created", "download",
             "update", "args", "fetch", "end"}
Effects  == {"conf", "rminst", "rmver", "boot"}
Files    == {"installer", "verinfo", "config"}
Kinds    == {"nothing", "homebrew", "http"}
Codes    == IF "http" \in asks THEN Kinds ELSE Kinds \ {"http"}
Version  == 0 .. MaxVer
NoDol    == [runs |-> 0, for |-> 0]
NoFiles  == [f \in Files |-> 0]

TypeOK ==
    /\ rec \in [Slot -> Record] /\ ent \in [Slot -> Entry]
    /\ {cbk, cfg, ram} \subseteq Config
    /\ init \in BOOLEAN /\ fd \in {"closed", "open", "bad"}
    /\ job \in [at : Slot, rec : Record, ent : Entry, left : Orders,
                strict : BOOLEAN, ok : BOOLEAN]
    /\ cfgleft \in 0 .. 2 /\ ret \in {"ok", "err"}
    /\ faults \in 0 .. MaxFaults /\ hurt \subseteq Slot /\ torn \in BOOLEAN
    /\ asks \subseteq Questions
    /\ prog \in Programs /\ phase \in Phases
    /\ purging \in Ids \cup {NoId}
    /\ todo \in Seq(Names \cup Effects) /\ code \in Kinds
    /\ {installed, served, booted} \subseteq Version /\ dol \in [runs : Version, for : Version]
    /\ vff \in BOOLEAN /\ file \in [Files -> Version]
    /\ {clean, restored, blind} \subseteq BOOLEAN

Init ==
    /\ \E h \in Homes : LibInit(h.table) /\ asks = h.asks
    /\ prog = "none" /\ phase = "off" /\ purging = NoId /\ todo = <<>>
    /\ code = "nothing" /\ dol = NoDol
    /\ installed = 1 /\ served = 1
    /\ vff = FALSE /\ file = NoFiles
    /\ booted = 0 /\ clean = TRUE /\ restored = FALSE /\ blind = FALSE

Theirs == <<rec, ent, cbk, cfg, init, ram, cfgleft, hurt, torn>>
Table  == <<rec, ent, cbk, cfg, hurt, torn>>
Data   == <<vff, file, booted>>
Update == <<installed, served, Data, dol>>
Past   == <<restored, blind, asks>>

\* A run that meets a fault is no longer clean.
Watch == clean' = (clean /\ faults' = faults)

-----------------------------------------------------------------------------
(* Starting and ending *)

\* WC24_Init as a program starts; both reads of the configuration may fail.
Starts(p, first) ==
    /\ \E failed \in SUBSET {"cbk", "cfg"} :
        /\ InitSucceeds(failed)
        /\ blind' = (blind \/ failed = {"cbk", "cfg"})
        /\ clean' = (hurt = {} /\ failed = {})
    /\ prog' = p /\ phase' = first

StartApp ==
    /\ prog = "none" /\ Starts("app", "menu")
    /\ UNCHANGED <<Table, Update, job, cfgleft, ret, purging, todo, code, restored, asks>>

\* ProcessWC24 creates wc24dl.vff if there is none, and mounts it; when one of
\* the two fails, what is left is ProcessArgs.
StartBoot ==
    /\ prog = "none" /\ installed # 0
    /\ \/ /\ Starts("boot", "names")
          /\ vff' = TRUE /\ todo' = Updates
          /\ UNCHANGED code
       \/ /\ Starts("boot", "args")
          /\ vff' \in {vff, TRUE} /\ code' \in Codes
          /\ UNCHANGED todo
    /\ UNCHANGED <<Table, installed, served, file, booted, dol, job, cfgleft, ret, purging,
                   restored, asks>>

\* ES_DeleteTitleContent, ES_DeleteTitle and ES_DeleteTicket.
DeleteTitle ==
    \/ /\ installed' = 0
       /\ vff' = FALSE /\ file' = NoFiles /\ booted' = 0
    \/ installed' \in {0, installed} /\ UNCHANGED Data

\* The installer, told to delete the title: the title first, with the files in
\* its data directory, then its slots.  What ES and WC24_Init return is kept in
\* an unsigned variable, so no error stops it: the title, or only its data, may
\* still be there when its slots are deleted.
StartInstaller ==
    /\ prog = "none"
    /\ \/ Starts("inst", "purge")
       \/ /\ InitRefuses
          /\ prog' = "inst" /\ phase' = "purge" /\ clean' = FALSE /\ UNCHANGED blind
    /\ purging' = TitleId /\ DeleteTitle
    /\ UNCHANGED <<Table, job, cfgleft, ret, todo, code, served, dol, restored, asks>>

\* The installer, told to install the title it carries.
Install ==
    /\ prog = "none"
    /\ installed' \in 1 .. served
    /\ UNCHANGED <<libvars, prog, phase, purging, todo, code, dol, served, Data, clean, Past>>

End ==
    /\ Idle /\ phase = "end"
    /\ Forget
    /\ prog' = "none" /\ phase' = "off" /\ purging' = NoId /\ todo' = <<>>
    /\ code' = "nothing" /\ dol' = NoDol
    /\ UNCHANGED <<Table, faults, installed, served, Data, clean, Past>>

Crash ==
    /\ prog # "none"
    /\ PowerLoss
    /\ prog' = "none" /\ phase' = "off" /\ purging' = NoId /\ todo' = <<>>
    /\ code' = "nothing" /\ dol' = NoDol /\ clean' = FALSE
    /\ UNCHANGED <<installed, served, Data, Past>>

Write ==
    /\ (WriteSlot \/ (WriteConfig /\ UNCHANGED fd))
    /\ Watch
    /\ UNCHANGED <<prog, phase, purging, todo, code, Update, Past>>

-----------------------------------------------------------------------------
(* wc24app: its questions are asked in a fixed order and each may be         *)
(* answered with no; it may be run again and again.                          *)

\* Install an entry for the current title, or for an ID of no title.  When
\* WC24_CreateRecord returns an error the program is over.
AppInstall ==
    /\ "install" \in asks
    /\ Idle /\ phase = "menu" /\ ret = "ok"
    /\ \E id \in OtherIds \cup {NoId} : CreateRecord(id, AppUrl, AppId)
    /\ Watch
    /\ UNCHANGED <<Theirs, prog, phase, purging, todo, code, Update, Past>>

\* "Delete all WC24 records+entries"
AppDelete ==
    /\ "delete" \in asks
    /\ Idle /\ phase = "menu" /\ ret = "ok"
    /\ purging' \in OtherIds \cup {AppId}
    /\ phase' = "purge"
    /\ UNCHANGED <<libvars, prog, todo, code, Update, clean, Past>>

\* "Overwrite WC24 entries+records": the slot the entry has now is filled with
\* what was in the slot of that number when the backup was made.
AppRestore ==
    /\ "restore" \in asks
    /\ Idle /\ phase = "menu" /\ ret = "ok"
    /\ init /\ Works
    /\ \E i \in FindEntry(AppId, {AppUrl}) :
        Begin(i, RecordOf(Backup[i]), EntryOf(i, Backup[i]), <<"ent", "rec">>, FALSE)
    /\ restored' = TRUE
    /\ UNCHANGED <<Theirs, ret, prog, phase, purging, todo, code, Update, clean, blind, asks>>

\* Set the title boot flag, the last of the questions; clearing it differs in
\* nothing the properties see.
\* Mutant: the backup is not written.
AppFlagPlain ==
    /\ "flag" \in asks
    /\ Idle /\ phase = "menu" /\ ret = "ok"
    /\ ram' = IF ram = "zero" THEN "zero" ELSE "on"
    /\ cfgleft' = 1
    /\ phase' = "end"
    /\ UNCHANGED <<Table, init, fd, job, ret, faults, prog, purging, todo, code, Update, clean,
                   Past>>
AppFlag ==
    /\ "flag" \in asks
    /\ Idle /\ phase = "menu" /\ ret = "ok"
    /\ ram' = IF ram = "zero" THEN "zero" ELSE "on"
    /\ cfgleft' = 2
    /\ phase' = "end"
    /\ UNCHANGED <<Table, init, fd, job, ret, faults, prog, purging, todo, code, Update, clean,
                   Past>>

AppQuit ==
    /\ Idle /\ phase = "menu"
    /\ phase' = "end"
    /\ UNCHANGED <<libvars, prog, purging, todo, code, Update, clean, Past>>

\* while((retval=WC24_FindRecord(id, &rec))!=LIBWC24_ENOENT)
\*     WC24_DeleteRecord((u32)retval);
\* Any other error is taken for a slot number as well.
Purge ==
    /\ Idle /\ phase = "purge"
    /\ \/ /\ init /\ Works
          /\ \E i \in FindRecord(purging) : DeleteRecord(i)
          /\ UNCHANGED <<phase, purging>>
       \/ /\ init /\ Works /\ FindRecord(purging) = {}
          /\ phase' = IF prog = "app" THEN "menu" ELSE "end"
          /\ purging' = NoId
          /\ UNCHANGED job
       \/ /\ init /\ Fails
          /\ UNCHANGED <<job, phase, purging>>
       \/ /\ ~init /\ WrongSlot
          /\ UNCHANGED <<job, phase, purging>>
    /\ Watch
    /\ ret' = "ok"
    /\ UNCHANGED <<Theirs, prog, todo, code, Update, Past>>
-----------------------------------------------------------------------------
(* wc24boottitle: ProcessWC24 and what ProcessArgs does with the library     *)

Wanted(name) == [name |-> name, base |-> Base[installed]]
Like(name)   == {u \in Url : u.name = name}

\* The next of the title's own entries: leave one for the URL wanted, delete
\* one for another URL of that name, create it if there is none.
CheckEntry ==
    /\ Idle /\ phase = "names" /\ todo # <<>>
    /\ LET want  == Wanted(Head(todo))
           found == FindEntry(TitleId, Like(Head(todo)))
       IN  \/ /\ Works /\ \E i \in found : ent[i].url = want
              /\ todo' = Tail(todo)
              /\ UNCHANGED <<job, ret, phase>>
           \/ /\ Works /\ \E i \in found : ent[i].url # want /\ DeleteRecord(i)
              /\ phase' = "recreate"
              /\ UNCHANGED <<ret, todo>>
           \/ /\ Works /\ found = {}
              /\ phase' = "recreate"
              /\ UNCHANGED <<job, ret, todo>>
           \/ /\ Fails
              /\ todo' = Tail(todo)
              /\ UNCHANGED <<job, ret, phase>>
    /\ Watch
    /\ UNCHANGED <<Theirs, prog, purging, code, Update, Past>>

CreateEntry ==
    /\ Idle /\ phase = "recreate"
    /\ CreateRecord(TitleId, Wanted(Head(todo)), TitleId)
    /\ phase' = "created"
    /\ Watch
    /\ UNCHANGED <<Theirs, prog, purging, todo, code, Update, Past>>

\* An error of WC24_CreateRecord ends ProcessWC24.
EntryCreated ==
    /\ Idle /\ phase = "created"
    /\ IF ret = "ok"
       THEN /\ phase' = "names" /\ todo' = Tail(todo)
            /\ UNCHANGED code
       ELSE /\ phase' = "args" /\ todo' = <<>>
            /\ code' \in Codes
    /\ UNCHANGED <<libvars, prog, purging, Update, clean, Past>>

EntriesChecked ==
    /\ Idle /\ phase = "names" /\ todo = <<>>
    /\ phase' = "download" /\ todo' = Updates
    /\ UNCHANGED <<libvars, prog, purging, code, Update, clean, Past>>

\* KD_Download of a slot: the file the server has, if it is newer, provided
\* there is a wc24dl.vff to put it in.  What is not a file of the title's is
\* not modelled; its configuration is not served.
Fetch(i) ==
    /\ vff
    /\ ent[i].url.name \in Files \ {"config"} /\ rec[i].last < served
    /\ file' = [file EXCEPT ![ent[i].url.name] = served]
    /\ rec' = [rec EXCEPT ![i].last = served]

\* KD_Download of each of the title's entries at every start, for entry_bitmask
\* is 0xf whatever was created; it may fail.  changelogmail, bit 4, is passed
\* over unless it was just created: it is mail and no file of the title's, and
\* passing over changes no more than a download that brings nothing.
DownloadEntry ==
    /\ Idle /\ phase = "download" /\ todo # <<>>
    /\ \/ Works /\ \E i \in FindEntry(TitleId, {Wanted(Head(todo))}) : Fetch(i)
       \/ (Works \/ Fails) /\ UNCHANGED <<file, rec>>
    /\ todo' = Tail(todo)
    /\ Watch
    /\ UNCHANGED <<ent, cbk, cfg, init, ram, job, cfgleft, ret, hurt, torn, prog, phase,
                   purging, code, installed, served, vff, booted, dol, Past>>

\* In standby KD downloads what is in the list.
Background ==
    /\ prog = "none"
    /\ \E i \in Slot : Live(i) /\ Fetch(i)
    /\ UNCHANGED <<ent, cbk, cfg, init, fd, ram, job, cfgleft, ret, faults, hurt, torn, prog,
                   phase, purging, todo, code, installed, served, vff, booted, dol, clean, Past>>

\* A new version on the server, which nothing notices elsewhere.
Publish ==
    /\ served < MaxVer /\ phase \in {"off", "download"}
    /\ served' = served + 1
    /\ UNCHANGED <<libvars, prog, phase, purging, todo, code, dol, installed, Data, clean, Past>>

\* The configuration names at least the version that runs.
KnownVersion == IF file["config"] < installed THEN installed ELSE file["config"]
\* Mutant: the version found is not written to the configuration.
UnwrittenPlan ==
    IF KnownVersion < file["verinfo"]
    THEN <<"rminst", "rmver", "boot">> ELSE <<"rminst", "rmver">>
\* What is to be done with an installer and a version file.
UpdatePlan ==
    IF KnownVersion < file["verinfo"]
    THEN <<"conf", "rminst", "rmver", "boot">> ELSE <<"rminst", "rmver">>

\* There is no update without both files, nor when wc24dl.vff is not mounted
\* again.  What the title was started to boot was in its arguments all along.
CheckUpdate ==
    /\ Idle /\ phase = "download" /\ todo = <<>>
    /\ \/ /\ file["installer"] # 0 /\ file["verinfo"] # 0
          /\ file' = [file EXCEPT !["config"] = KnownVersion]
          /\ todo' = UpdatePlan
          /\ phase' = "update"
       \/ phase' = "args" /\ UNCHANGED <<file, todo>>
    /\ code' \in Codes
    /\ UNCHANGED <<libvars, prog, purging, dol, installed, served, vff, booted, clean, Past>>

\* The steps of the update in their order.
UpdateStep ==
    /\ phase = "update" /\ todo # <<>> /\ Head(todo) # "boot"
    /\ CASE Head(todo) = "conf" ->
              file' = [file EXCEPT !["config"] = file["verinfo"]]
         [] Head(todo) = "rminst" -> file' = [file EXCEPT !["installer"] = 0]
         [] Head(todo) = "rmver" -> file' = [file EXCEPT !["verinfo"] = 0]
    /\ dol' = IF Head(todo) = "rminst"
              THEN [runs |-> file["installer"], for |-> file["verinfo"]] ELSE dol
    /\ todo' = Tail(todo)
    /\ UNCHANGED <<libvars, prog, phase, purging, code, installed, served, vff, booted, clean,
                   Past>>

NoUpdate ==
    /\ phase = "update" /\ todo = <<>>
    /\ phase' = "args"
    /\ UNCHANGED <<libvars, prog, purging, todo, code, Update, clean, Past>>

\* ProcessArgs with the installer in memory.  The kind of program to boot is
\* taken from launchcode before that is set to 1 for it, so the installer runs
\* only if the title was started to boot homebrew anyway.
BootInstaller ==
    /\ phase = "update" /\ todo = <<"boot">>
    /\ code # "nothing"
    /\ booted' = dol.for /\ installed' = dol.runs
    /\ phase' = "end" /\ todo' = <<>>
    /\ UNCHANGED <<libvars, prog, purging, code, dol, served, vff, file, clean, Past>>
DropInstaller ==
    /\ phase = "update" /\ todo = <<"boot">>
    /\ code = "nothing"
    /\ phase' = "end" /\ todo' = <<>>
    /\ UNCHANGED <<libvars, prog, purging, code, Update, clean, Past>>

\* ProcessArgs: a program to be downloaded by KD gets an entry of its own.
BootArgs ==
    /\ Idle /\ phase = "args"
    /\ IF code = "http"
       THEN /\ CreateRecord(NoId, [name |-> OneShot, base |-> Base[1]], TitleId)
            /\ phase' = "fetch"
       ELSE phase' = "end" /\ UNCHANGED <<job, ret, fd, faults>>
    /\ Watch
    /\ UNCHANGED <<Theirs, prog, purging, todo, code, Update, Past>>

\* The entry is deleted whether KD_Download failed or not.
\* Mutant: it stays when the download failed.
ForgottenEntry ==
    /\ Idle /\ phase = "fetch"
    /\ \/ ret = "ok" /\ DeleteRecord(job.at)
       \/ UNCHANGED job
    /\ phase' = "end"
    /\ UNCHANGED <<Theirs, fd, faults, ret, prog, purging, todo, code, Update, clean, Past>>
EndOneShot ==
    /\ Idle /\ phase = "fetch"
    /\ IF ret = "ok" THEN DeleteRecord(job.at) ELSE UNCHANGED job
    /\ phase' = "end"
    /\ UNCHANGED <<Theirs, fd, faults, ret, prog, purging, todo, code, Update, clean, Past>>

-----------------------------------------------------------------------------

Program ==
    \/ Write \/ Purge \/ CheckEntry \/ CreateEntry \/ EntryCreated \/ EntriesChecked
    \/ DownloadEntry \/ CheckUpdate \/ UpdateStep \/ NoUpdate \/ BootInstaller
    \/ DropInstaller \/ BootArgs \/ EndOneShot \/ End

Next ==
    \/ Program
    \/ StartApp \/ StartBoot \/ StartInstaller \/ Install
    \/ AppInstall \/ AppDelete \/ AppRestore \/ AppFlag \/ AppQuit
    \/ Background \/ Publish \/ Crash

Spec == Init /\ [][Next]_vars
\* A program goes on with the call or the loop it is in.  Nothing is said of
\* the user, of KD and of the power.
FairSpec == Spec /\ WF_vars(Write \/ Purge)

-----------------------------------------------------------------------------
(* Properties *)

\* A record and the entry of its number name the same title, except where a
\* call is between its two writes or was cut there: no order of calls, of
\* other programs either, spreads the damage to another slot.
TablesAgree ==
    \A i \in Slot : rec[i].ID # ent[i].ID =>
        i \in hurt \/ (i = job.at /\ Len(job.left) = 1)

\* Every entry carries the number of its slot.  wc24boottitle reads entries
\* back by that number and wc24emu writes them back by it.
IndexIsSlot == \A i \in Slot : ent[i].index = i

\* Both, over values of their types.
SlotsAgree == TypeOK /\ TablesAgree /\ IndexIsSlot

\* A program changes a slot, unless it was left half written, only if it was
\* called for that owner: the one the slot is created or deleted for, any one
\* when a backup is restored.  The slots reserved for mail are not given out.
MayChange(i) ==
    \/ ~job.strict
    \/ job.rec.ID # NoId /\ OwnerOf(ent[i]) = OwnerOf(job.ent)
    \/ job.rec.ID = NoId /\ phase = "purge" /\ ent[i].ID = purging
    \/ job.rec.ID = NoId /\ phase = "recreate" /\ ent[i].ID = TitleId
                         /\ ent[i].url.name = Head(todo)
    \/ job.rec.ID = NoId /\ phase = "end" /\ ent[i].ID = TitleId
                         /\ ent[i].url.name = OneShot
OthersKept ==
    [][\A i \in Slot :
        (rec[i].ID # rec'[i].ID \/ ent[i] # ent'[i]) =>
            /\ Live(i) /\ i \notin hurt => MayChange(i)
            /\ i < Reserved => rec[i].ID # NoId \/ ent[i].ID # NoId]_vars

\* The title's entries are never doubled: two slots for one URL come from
\* calls without an ID, or from a backup.
NoDoubles ==
    \A i, j \in Slot :
        i # j /\ ent[i].ID # NoId /\ OwnerOf(ent[i]) = OwnerOf(ent[j]) =>
            ent[i].url.name = OneShot \/ ent[i].ID = AppId \/ restored

\* After a run over whole slots without a fault, each of the title's entries
\* is there for the URL of this version.
AllThere ==
    phase = "download" /\ clean =>
        \A k \in DOMAIN Updates : \E i \in Slot :
            Live(i) /\ OwnerOf(ent[i]) = [ID |-> TitleId, url |-> Wanted(Updates[k])]

\* README: the entry of a program booted over HTTP is deleted.  Only a fault
\* leaves one behind.
OneShotGone ==
    prog = "none" /\ faults = 0 => \A i \in Slot : ent[i].url.name # OneShot

\* Whatever order the programs run in, each entry is there once, and no longer
\* than it should.
EntriesThere == NoDoubles /\ AllThere /\ OneShotGone

\* One failing read never costs the configuration: zeros get into the files
\* only after both could not be read at once.
NotLost == "zero" \in {cbk, cfg} => blind

\* WC24_Init refuses configuration files that differ.  They do only while an
\* update is under way or after one was cut short.
ConfigsAgree == cbk = cfg \/ cfgleft = 1 \/ torn

\* No fault but those two costs the configuration or locks the programs out.
ConfigKept == NotLost /\ ConfigsAgree

\* As long as the title's data are not deleted, the installer is booted for
\* newer versions only, although its entries, and with them the times of what
\* was fetched, may be deleted and made again: the title never wakes the Wii to
\* install the same update again and again.  With the data goes the
\* configuration; then the update installed last may be installed once more.
NoUpdateLoop == [][BootInstaller => dol.for > booted]_vars

\* "Delete all records": the loop ends once the accesses work again.  It does
\* not if nwc24dl.bin could not be opened, or if WC24_Init had failed.
PurgeEnds == [](phase = "purge" => <>(phase # "purge" \/ fd = "bad" \/ ~init))
=============================================================================
