# Verification of wmb-asm

wmb-asm is a collection of C programs around the Nintendo DS and Wii. This
directory holds TLA+ models of the parts of it that keep state, TLC
configurations that check them on small instances, and TLAPS proofs of what
matters most for every instance. `PROJECT.json` is the machine-readable index:
components, runs, the source lines of each definition, hazards, findings and
theorems.

## 1. Inventory

| part | source | state it keeps | what is hard |
|---|---|---|---|
| metadata store | `wiinandfuse/source/main.c:261-482`, `fs_hmac.c` | superclusters on the NAND; `SFFS`, `supercluster`, `sffs_version`, `round_robin*`, `write_enable` | a kill between page writes, restarts with other options, wrap-around of index and version |
| file system | `wiinandfuse/source/main.c:484-1322` | `SFFS.files`, `SFFS.cluster_table`, `used_fds`, `fd_array`, data clusters and their HMACs | copies of node fields in open files, sentinels, full tables, partial failure, operation order |
| WMB assembly | `wmb_asm/source/wmb.c`, `asm.c` | the beacon fragments, header, RSA frame, packets and positions of a multiboot transfer; the capture backtracking | lost, repeated and reordered packets, several games in a capture, a last packet of another size |
| Download Station | `wmb_asm/source/station.c` | `dlstation_stage`, `DLClients`, menu, packet counters, `saved_data` | games sent interleaved, ids that change owner, resets that keep part of the state |
| dispatcher and captures | `wmb_asm/source/asm.c`, the loop in `main.c` | one `Nds_data` per plugin, `unused_packets.bin`, `handledIDs`, `foundIDs` | the frames of a capture are gone through again and again, with plugins left in any stage |
| second stage dump | `wmb_asm/source/secondstagedump.c` | `current_seq`, output | reuse without a reset |
| wmb_asm front end | `wmb_asm/source/{main,utils,pcap}.c` | options, plugins, capture handle | I/O |
| libyellhttp | `libyellhttp/source/yellhttp.c` | a context kept from call to call: status, length, authentication, redirection; the downloads | connections lost anywhere, retries and redirections by recursion, answers without a length, a cache keyed by file times |
| libwc24 core and mail | `libwc24/libwc24/source/{wc24,wc24mail,nandutil}.c` | the two tables of `nwc24dl.bin`, the mail configuration and its backup, one descriptor | a slot is two writes, errors taken for slot numbers, power losses |
| libwc24 tools | `wc24boottitle`, its installer, `wc24app` | the entries a title keeps for its own update, version files, a launch code | programs in any order over one list, partial failure of every step |
| libwc24 VFF | `libwc24/libwc24/source/{vff,diskio,ff}.c` | volumes, their descriptors and devices, the table of open files, FatFs's object | mount and unmount in any order, file objects that outlive a volume, closes that fail |
| other tools of libwc24 | `wc24emu`, `vffmount`, `nandinftool` | menus | I/O |
| geckonand | `wiinandfuse/geckonand` | command loop on the console | framing of requests; the program at the other end is not in the repository |
| ninchdl-listext, converters | `ninchdl-listext`, `binconv`, ... | none to speak of | formatting |

How they interact: FUSE calls the `fs_*` handlers of wiinandfuse, each of which
ends in `update_sffs()`, which writes the whole of `SFFS` into the next
supercluster. `nand_write_sector` writes page by page; nothing ties the pages
together except the HMAC in the spare area of the last two. With `-u` the same
calls go over a serial line to geckonand. wmb_asm reads captures frame by
frame and hands each one to the plugins (`wmb.c`, `station.c`,
`secondstagedump.c`) until one of them takes it; `asm.c` assembles the program
when a plugin says so, writes the frames nobody took to `unused_packets.bin`, and
at the end of a capture gives the frames to the plugins again until a pass over
them assembles nothing. libyellhttp is called by applications of the Wii, one call at a time,
and calls them back for users and passwords. libwc24 works on files that IOS,
KD (the part of it that downloads) and all titles share: the list `nwc24dl.bin`, the mail
configuration, and VFF files, FAT images with a FatFs of the library's own.

What makes each part correct:

* metadata store: an update that returned is on the NAND; a kill at any point
  leaves something to mount; what is mounted after verification is something
  that was written as a whole; an update is what the next mount selects;
* file system: no two files share a cluster, nothing leaks, what was written is
  read back and verifies, the tree stays a tree, open files stay open;
* WMB assembly: a program is assembled only when every packet has arrived, each
  at its place, whatever the order; every game of a capture is assembled;
* Download Station: packets of one game only are put together, where there is
  room for them; a program is complete when it is written, and written once;
* captures: a game whose frames a capture has is written, once, from frames of
  its own; nothing is left over for the next capture; the passes end;
* HTTP: success means a whole page; what is not fetched again has not changed;
  a call ends, and leaves no connection open that it got;
* download list: the damage of a failure stays in the slot that was being
  written; no slot of anybody else is touched; the configuration survives;
* wc24boottitle: its entries are there once after a good run; no update is
  installed twice as long as nobody deletes the title's data;
* VFF: volumes and open files are accounted for, and a file object never reaches
  another NAND file.

## 2. Modules

| module | models | checked by | proved in |
|---|---|---|---|
| `Sffs` | metadata store | `MCSffs` | `SffsProof` |
| `NandFs` | file system over one `SFFS` in memory | `MCNandFs` | `NandFsProof` |
| `Download` | what the capture of a transfer promises (abstract) | through `WmbData` | |
| `WmbData` | WMB assembly of one transfer, from its header on; implements `Download` | `MCWmbData` | `WmbDataProof` |
| `Sums` | a loop that adds up a table, and what the proofs need to know of it and of numbers | through `WmbData` and `Station` | itself |
| `Station` | Download Station plugin over a capture of one station | `MCStation` | `StationProof` |
| `Capture` | dispatcher, the passes over captures, the three plugins at the level of whole frames | `MCCapture` | |
| `YellHttp` | libyellhttp with a server and a network | `MCYellHttp` | `YellHttpProof` |
| `Wc24` | download list and mail configuration of libwc24 | through `Wc24Title` | |
| `Wc24Title` | wc24app, wc24boottitle and its installer over `Wc24` | `MCWc24Title` | `Wc24Proof` |
| `Vff` | VFF creation, volumes, open files | `MCVff` | `VffProof` |

### Sffs

`disk` is the array of superclusters; a supercluster has a header page (magic,
version), pages and a spare area with an HMAC. Page content is the number of the
call that wrote it. An HMAC is modelled by what it binds: the whole image and
the supercluster it is for (`fs_hmac_meta` hashes both), so that two HMACs are
equal exactly if their inputs are.

One action per step a kill can separate: `Mount` (the start of the program:
options, scan, load, HMAC check), `Demote` (the same start with `-r<sc>`),
`ChangeMetadata` (a file system operation followed by the part of `update_sffs`
that precedes the writes), `WritePage` and `WriteLastPage` (one `write()` each:
data pages in order, and the spare area of the last page but one before the last
page), `Unmount` and `Crash`. `gen` bounds the number of updates (`MaxGen`).
`hashed`, `done` and `careful` are history variables, read by properties only:
`careful` says that every session so far that could write ran with `-v` and without `-r<sc>`.

A supercluster that never held anything (`Blank`) has no magic. Versions are
`0 .. VerMod-1`, the 32 bits of the code; `lowver - 1` wraps.

The scan of `sffs_init` compares `sffs_cluster` with 0 to see whether something
has been found; `ClusterNo` keeps that, because with `-s` the first supercluster
is at cluster 0. With `-s` and `-u` nothing is written (`WriteEnable`), and with
`-s` the keys are not loaded, so no HMAC ever matches.

### NandFs

`files` and `fat` are the two tables of `SFFS`, with their indexes and
sentinels as they are: `first_child` and `first_cluster` share a field (`first`),
`0xffff` is `Nil`, `0xfffb` is `EOC`, `0xfffe` is `FREE`. Each `fs_*` operator is a whole
FUSE handler with the `nandfs_*` functions it calls; reads and writes go through
`fd_array`, whose entries are the copies the code takes at open. `handle` is the
kernel's side: what `fi->fh` was set to. `content` is a history variable: what
each file was written to hold.

Where the program indexes a table out of its bounds the model sets `wild` and
stops. Requests stay within a cluster: a handler called with more would loop
over the same steps.

Left out: permission bits (`fs_chmod`), the read-only handlers, the threads of
`fuse_main`, images without ECC data, and images whose node table was not
written by the Wii or by this program.

### Download and WmbData

`Download` says what a user of wmb_asm expects: when every packet of a transfer
has been seen, in any order and however often, the program is written, and it is
the program that was sent; nothing is written before.

`WmbData` is the plugin that has to do it. `WMBProcessHeader` computes from the
header how many packets to wait for (`LastSeq`). `WMBProcessData` is the whole
handler: the filter on 802.11 sequence numbers, the switch to 250-byte packets
for hosts with short headers and the table of sizes (`ProcessFrame`), the place of the packet,
the copy to `saved_data`, the marks `arm7s` and `arm7e`, the search for missing
packets and the assembly `HandlePacket` then starts (`Store`). `OtherFrame` is
any frame that is turned down after `Init()`. A byte is represented by its offset in
the program, so that a byte in a wrong place is seen. `saved_data` holds -1 where nothing
was copied (zero in the code). `stored` is a history variable.

The host is external: each binary is cut into packets of its own, the last of
which may be short. Nothing orders the frames of a capture; every frame may come at
any time, again or never.

The place of a packet is the sum of the sizes of those before it (`SumTo` of `Sums`), where one not
found yet counts as `pkt_size`. That is right only if the missing packets
have the size of packet 1 and packet 1 has been seen. `Steady` restricts captures
accordingly: `SizesKnown` (that condition) and `TailNotLast` (packets that `LastSeq` does not
count are not the last to be found). Runs with `Steady = FALSE`
have no restriction on the capture.

Left out: the stages before the header (beacons, authentication, RSA frame), the
dispatcher, `ResetAsm` and several games in one capture, which are in `Capture`; the
banner's conversion and the checksums of the program.

### Station

`Station` has the station and its clients as environment (`assoc`, `serving`) and
the plugin as it follows them. A station sends each packet of a game once for all
clients that download it, with the set of their ids (`Mask`); `serving` and `assoc`
change while packets are on their way, so the plugin's `DLClients` may lag behind.
Each `HandleDL_*` action is a frame and the whole handler for it;
`captured = FALSE` is a frame the capture missed. `HandleDL_MenuRequest` and
`HandleDL_PacketRequest` are the two branches of the function of the second name,
`HandleDL_MenuEnd` and `HandleDL_DataEnd` the branches for sequence number 0xffff;
the latter includes the assembly `HandlePacket` starts (`build_raw`) and the reset.

LZO is modelled by what the plugin relies on: data decompress to a game if they
are exactly its bytes in order (`Decompresses`). The plugin does not check the
result, so a program is written in any case; `roms` records whether it is the
one sent. A byte of `saved_data` is a game and an offset; its place
is a sum of sizes (`SumTo`), too.

`allocated` is what `malloc` was asked for at the header: `data_size` of the game
in that header, which leaves out the LZO header (`H`, 16 bytes) although that is copied to
the buffer too (`station.c:138`, `:923`, `:936`). The code checks no copy against it. A copy behind
the end of the allocation is undefined in C; `AfterCopy` lets the program go on with the
bytes in place, as with the slack of an allocator, or stop (`"CRASHED"`). The
buffer of the menu has `MenuBuffer` bytes (`:232`); the constants assume that a menu
with all its packets fits.

`heard` is a history variable, `TRUE` until the capture misses something the plugin
has no way to notice: an association or a deauthentication, a request, a request before
the menu is known, a menu packet or the order of menu packets, the last packet of
a game. Packets missed or out of order otherwise do not end it.

Left out: `WMBHosts`, which is written and never read; `HandleWMB_DataAck`, which
compares the flow with 10 and not 0x10 and so never acts; two stations in one
capture, which the plugin does not tell apart.

### Capture

One session of wmb_asm: one capture file after another, `HandlePacket` for every
frame, `CaptureAsmReset` at the end of a file. `at` and `return` are the place in
the program: `read` frames, then for each plugin in `turn` reset it, `replay`
`unused_packets.bin`, and do so again while `CaptureBacktrack` finds that
something was assembled. `data` has the structure of each plugin,
`module_nds_data` points to one of them. `session` fixes what was on the air; a capture
lacks up to `MaxLost` of its frames, any of them.

A frame is its kind, its game, a number and an 802.11 sequence number. The WMB plugin is here with
its stages from beacons to data (`WMBProcessBeacons` with the rounds of beacons
that announce several games, `WMBProcessAuth`, `WMBProcessRSA`,
`WMBProcessHeader`, `WMBProcessData`); positions of bytes are in `WmbData`. Of the plugin
of the stations only what matters to the dispatcher is: a menu frame and
the end of a download. The second stage dump takes the blocks in their order.

Left out: captures with AVS headers, whose frames lose another 64 bytes each time
they are gone through again; an `AssembleNds` that fails; plugins of the user.

### YellHttp

One action per step of `ExecRequest` between which the network or the server may
move: `Connect`, `Send`, `Headers` (all header callbacks of an answer at its empty
line), `Open` (the file the body goes to), `Receive` (one `recv`), `Finish`, and their
failures. A redirection or a retry is a
recursive call in the code; nothing happens after its return but the return,
so `Finish` goes back to `connect`. `ctx` is the context, kept from call to call with everything the
code forgets to reset: `http_status`, `content_length`, `redirecturl`, the
authentication. `files` are the downloads, with the URL, status, version and
length of what is in them and their time. `Serve` is the server, external: pages that moved,
are protected, change (`Change`), have no length, or speak HTTP 1.0. `Lose`
closes or resets the connection anywhere; `Kill` ends the program anywhere.

Left out: the MIME encoder, ranges, `YellHttp_SetHeaderCb`, the arithmetic of
digests, the limits of 1024 bytes of the buffers.

### Wc24 and Wc24Title

`Wc24` is the library: `rec` and `ent` are the two tables of `nwc24dl.bin`, `cbk` and
`cfg` the two configuration files. A call that changes a slot computes what to
write and puts it into `job`; `WriteSlot` is one write of it, which may fail, and
between two writes the power may go (`Crash`). What `FindEntry` and `FindEmptyEntry` return is taken for a slot number, errors
included, where the code does (`wc24.c:476`, `WrongSlot`).

`Wc24Title` are its callers, one program at a time: the questions of wc24app,
`wc24boottitle` from the check of its entries over the download and the
update to the boot, and the installer: it deletes the title and then, in a loop, all its slots.
`Background` is KD, external: it downloads in standby. `Publish` puts a
new version on the server.

`vff` is whether the title's `wc24dl.vff` exists, `file` what is in it: the two files of an
update and the configuration. `StartBoot` creates it if it has to, and may fail to create or
mount it; then the title goes on to its arguments. Since
`entry_bitmask` starts as `0xf` (`wc24boottitle.c:363`), the first four entries, those of the two files among them, are downloaded at
every start and not only when they were created; the fifth and two of the four are mail, none of `file`.
`DeleteTitle` is what becomes of the title when the installer deletes it: `ES_DeleteTitle`
takes the data directory with `wc24dl.vff`, hence the configuration, with it. An
error of ES goes unseen (`retval` is a `u32`), so any part of the title may be left.
`booted` is a history variable: the version installed last since those data were deleted.

Left out: friends and mail boxes, `wc24emu`, the trigger times of entries, the boot mails,
errors of writes to `wc24dl.vff` once it is mounted.

### Vff

Any application that calls `VFF_CreateVFF`, `VFF_Mount`, `VFF_Unmount` and the
devoptab operations, in any order, while other NAND files are opened and closed
and the power goes at any time. `VFF_MountRefused`, `VFF_MountOK` and
`VFF_MountWild` are the three ways through `VFF_Mount`; `Transfer` is read, write and
`ftruncate`, which differ in whether the file counts as written. `fs` is FatFs's object of
drive 0 with its id, by which `validate` tells file objects of another mount;
a path never names a drive, so every operation goes to drive 0. `fil` are newlib's
open files. `Own` are the files the application creates; the others are the system's and are there
from the start.

`ordered` and `single` say how the application has behaved: `ordered` that it
unmounted the volume mounted last, mounted no name twice and no more than
`Drives`; `single` that it had one volume at a time and left files alone without one (after
`VFF_Unmount` a file object left over does reach whatever file has got the descriptor, until
something is mounted again).
`created`, `lost` and `reached` are histories too. Where the program writes outside of its
tables or uses what it freed, `wild` is set and the program does nothing more.

Left out: clusters and directories inside a VFF, VFF files on an SD card,
directory iterators, conversions of names, times and sizes; heap blocks that no table
points to.

## 3. Runs

| run | instance | what it shows |
|---|---|---|
| `sffs_all` | 3 superclusters, 2 pages, 4 versions, 2 updates, every command line | a completed update is on the NAND; `-v` mounts no mixture; a demoted supercluster is not mounted; a survivor at every moment while sessions are careful |
| `fs_single` | 5 nodes, 8 clusters of 2 units, files up to 5 units, one handle | contents, HMACs, leaks, bounds |
| `fs_fat` | 6 nodes, 4 clusters, two handles, holes, full table, read errors | chains stay apart |
| `fs_tree` | 7 nodes, 3 directories, 6 paths | the tree stays a tree |
| `wmb_steady` | 23 hosts of up to 3 + 3 packets, with short headers too; steady captures, fairness | every byte at its place; `Download` is implemented: the right program, when complete, not before, and at last |
| `wmb_any` | 30 hosts, any capture | nothing copied behind `saved_data`, nothing assembled while a packet is missing, both for binaries that fill their packets |
| `station_all` | 2 clients, 2 ids, games of 3 and 2 packets, menu of 2 packets; any capture, fairness of data frames | the menu stays in its buffer, a download heard runs past its own by the LZO header at most; one game in the buffer; the first program is whole; no game twice; a download followed is written at last |
| `capture` | 12 sessions of one or two captures: one host, two hosts, a host with two games in rotation, a station, a second stage; any 2 frames missing | the log holds this capture's frames only; no program of two games; every game that can be is written, and once; the passes end |
| `http_all` | 2 calls over 18 sites of two URLs each, bodies of 1 to 5 units in buffers of 2, a clock of two values | success means a whole page; `If-Modified-Since` misses no change; users are all tried; redirections lead where they say; sockets are closed; calls end |
| `http_cache` | pages that moved | finding, section 5 |
| `wc24_all` | 4 slots, one reserved; wc24app's questions, HTTP boots, 2 versions, one fault | tables agree but for the slot cut short; nobody else's slot is touched; entries are there once; no update twice while the title's data stay; the deletion ends |
| `vff_all` | 2 VFF files, 2 volumes, 2 slots, 2 descriptors, one other NAND file | volumes are a stack; handles stay with their file; slots are accounted for |

The bounds. Three superclusters make a next, a previous and another one, so that
the wrap-around, an interrupted update of the oldest and ties between versions
all occur; two pages are the fewest that can be torn. Four versions make `lowver - 1` wrap and `LowInit` bind.
Two updates after the initial images allow a kill in the first and a recovery in
the second. For files, U = 2 has writes inside a cluster, filling one, and
crossing to the next; five units make a chain of three clusters and a size on
and off the boundary; two handles suffice for every race of two stale copies.

`Polite` runs state what the code needs its clients to do: no writes behind the
end of a file, `rmdir` only of empty directories, renames only to free names, and
`truncate` only within a cluster.

For `WmbData`, `P`, `Q` and `R` stand for 490, 250 and 102 bytes; 4, 2 and 1 keep
their order and give a short packet every size it can have relative to the
others. Up to three packets for each binary put a missing packet before, between and behind
found ones on both sides of the border.

For `Station`, two clients can swap ids and games, and share a game; two games of
different length can be downloaded one after the other and interleaved, and
each has a packet behind the header that is the last and shorter. In the longer one a packet can be
missing in the middle. With `H` = 1 the buffer of either is one byte short, and the longer game
reaches well behind the buffer of the shorter. `MenuBuffer` is no more than the menu needs.

For `Capture`, games have three beacons (first, middle, last: the code treats
these differently) and two data packets. Transfers before their beacons, two transfers in turn and
interleaved, the same game in two captures, and a station before and after a
host are there; with two frames missing a transfer may lack its header and the next one
its end.

For `YellHttp`, a body is shorter than, as long as or longer than two buffers,
and smaller or larger than the one before. Two calls are what a stale context or
a stale file needs; what they leave is the start of any third. For `Wc24Title`, two entries to keep and one to boot over HTTP, a list with room for all of them, one
that gets full and one that is full from the start, two versions, of which the second can be published before or after
the installer was booted for the first and the title's data deleted, and a fault at every access of every program.

For `Vff`, two volumes are the fewest that can be unmounted in the wrong order,
two file objects the fewest of which one outlives its volume while the other is
used. `MaxFsid` bounds the mounts by FatFs, `MaxLost` the closes that fail.
The ids of FatFs are 16 bits in the code and unbounded in the model: a file object that
outlives 65536 volumes is not considered.

`CHECK_DEADLOCK FALSE` stands where the model may stop: after `wild`, where
the chosen operations run out of names, clusters or calls, and where the fault
bound is used up. The capture run checks deadlock: its program ends in a step that repeats.

Fairness and liveness. `Download` promises that the program is written at last.
`WmbData` implements that under weak fairness of the header and of each data
frame: a host repeats both until its clients have them, and the user captures
until then. `Station` assumes the same of header, data and end frames of the games
that are downloaded; `Served` then says that a download followed is written,
unless the clients leave, the capture misses something or the copy behind the end of the buffer
stops the program. It assumes no fairness of requests. `YellHttp` assumes that the library runs
and that the server answers a request it got, or the connection is lost, which is what
blocking sockets give; nothing is assumed of the clock, of changes or of the user. `Wc24Title`
assumes that a program goes on with the call or the loop it is in. `Capture` is a program
that reads files: it goes on until it exits. The FUSE handlers run when
the kernel calls them and nothing in the program retries or waits; the page
writes of `update_sffs` follow each other without a wait, but the model has
to allow a kill between any two, and under it no update ever need finish. So
no liveness is claimed of them, nor of `Vff`, whose calls return.

## 4. Proofs

All theorems hold for every value of the constants allowed by the named
assumptions `SffsConstants`, `NandFsConstants`, `WmbDataConstants`, `StationConstants`
(one of which says that there is a longest game), `YellHttpConstants`, `Wc24Constants`,
`Wc24TitleConstants` and `VffConstants`, `EntriesKept` also of `Wc24Lists`. What a theorem assumes beyond them stands in its
statement.

Loops and walks are recursive functions, and what they compute is proved by the least
number for which it would be wrong (`LeastNumber` of `Sums`); the existence of
the function is proved the same way (`LoopExists`, and `Walk` in `NandFsProof`).

`SffsProof`

* `TypeCorrect`: `Spec => []TypeOK`. `TypeOK` is inductive.
* `UpdatesReachMedia`: `Spec => []UpdateOnMedia`. The invariant `UpdateInv` says
  what the supercluster under the pen holds while an update runs: the header
  after position 0, every page below `wpos`, the HMAC after `MacPos`. At `Idle`
  that is the whole image. Without it the claim is not inductive: it speaks of
  the end of an update only.
* `VerifiedMounts`: `Spec => VerifiedMountIsWhole`. `MacInv`: every HMAC on the
  NAND binds an image in `hashed`. A mount with `-v` compares the HMAC with the
  image loaded, so the image is one of them.
* `DemotionHolds`: `Spec => []DemotedIsNotMounted`. `DemoteInv` keeps, from the scan to the
  next one, that the version written is below all others of the NAND (`Below`),
  unless it wrapped around.
* `Survival`: `Spec => []SurvivorExists`, for every set of options: the property
  speaks of `careful` behaviours. `SurvivorInv` says
  that while the program runs with write access some supercluster other than
  the one the next or the running update writes is intact: the one mounted, or the one
  written last. It rests on `Next_sc(sc) # sc`, hence on at least two superclusters.

`NandFsProof`

* `TypesKept`: `Spec => []TypeOK`, for all operations and clients. A slot that outlives its
  file may be anywhere in the table, on freed clusters too, but only where links lead.
* `ChainsStayApart`: `Spec => []FatOK`, if the tables found on the NAND are consistent, for
  every set of operations without `truncate`, and with truncation within a cluster. The inductive
  invariant `FatInv` adds that the tables have their types. The copies in the
  slots need no invariant: `nandfs_write` uses a stale `cur_cluster` only to
  overwrite data and to extend a cluster whose table entry is `EOC`, which it
  reads from the table and not from the slot. The lemmas follow the helpers:
  `Allocate` (what `nandfs_allocatecluster` returns was free and is nobody's),
  `Extend` (linking a fresh cluster behind the last one), `FreeChain` (freeing a
  whole chain cuts no other), `ChangeNode`, `LinkChildFiles`, `UnlinkChildFiles`
  (operations on the tree keep first clusters).
* `NothingLeaks`: `Spec => []NoLeak`, if nothing leaks on the NAND found and one file is open at
  a time (`Alone`). `Sync`: the slot of the open file is its own and has the first cluster of the
  node, so that the cluster that is extended or put first is one of the file. A chain is the
  smallest set closed under links, and is used as one (`InHead`, `InClosed`, `InMinimal`): it
  grows at its end (`ChainGrows`), and the cluster allocated ahead is freed with the rest.
* `ContentsStay`: `Spec => [](rootok => \A n \in Files : Holds(n))`, with one file open at a time, `Polite`
  clients, and consistent files on the NAND (`InitWhole`).
  `rootok` ends when the cluster table is full and an allocation lands on the name of `files[0]`; from
  then on no file is found anyway. `Intact`: every file has all its clusters, the one allocated
  ahead included (`Whole`), they hold what was written (`Good`), and the
  NAND has room as the Wii leaves it (`Room`: the last cluster is not free, or `nandfs_allocatecluster`
  could return `-ENOSPC`, which the code takes for a number). No cluster has two places (`HopDistinct`),
  so a write changes one file in one place (`WrittenStored`), where the walk of `nandfs_seek` finds it
  (`StartCluster`, `FollowCluster`).
* `WrittenIsRead`: `Spec => [](rootok => ReadsBack)`. Clients that do not rename or chown (`NamesStay`) moreover
  find every cluster under the HMAC of its place; `Good` asks for HMACs under `NamesStay` only, since
  they bind name and owner and neither operation writes them anew.
* `SlotsNameFiles`: `Spec => []SlotsOpen`, for every client. A slot in use belongs to a file in use and to a
  handle that is open, whatever `used_fds &= ~1<<fh` did to the others. libfuse does not have an open file unlinked,
  so no write reaches a node that was removed and given out again as a directory. `TreeStays` rests on it.
* `TreeStays`: `Spec => []TreeOK`, for `Polite` clients and any number of open files, if the
  NAND found holds a tree (`TreeAt(InitFiles)`). `TreeOK` is not inductive: it speaks of what the walks find
  and not of how long they are, so a list could be a circle with every node in it. `TreeAt` says that parents
  and places can be given to the nodes in use such that each list counts the places of its
  directory up to its end (`Laid`), and that the names in it differ. A list is then shorter than the
  node table (by the pigeonhole principle), so the walks get to its end, `FirstOf` finds what
  `Laid` says (`ChildrenAre`), and a path resolves to a node of the tree. Creating, removing and
  renaming give new parents and places; writes, by `SlotsNameFiles`, change the `first` of files only.
* `BoundsHold`: `Spec => [](HasSpace => InBounds)`, under the hypotheses of `ContentsStay`. `HasSpace`: `rootok`, and
  a node and a cluster are left. So the tables are left only where the code looks for a
  node or a cluster and there is none. A chain cannot be a circle, since its first cluster
  is linked from nowhere and no other twice; with one place per cluster it ends within the table
  (`ChainEnds`), and `nandfs_unlink` with it. `Intact` gives reads and
  writes the cluster they ask for. The instance of the run is one with space.

`WmbDataProof`

* `NoneOutOfBounds`: `Spec => []InBounds`, for every capture of a binary that fills its packets. `Sorted`: a size
  is in the table only for a packet found, and is that packet's; `pkt_size` is that of packet 1, or unknown. So the
  sum in front of a packet is at most its true place (`PositionAtMost`).
* `NoneMissed`: `Spec => []MissedNone`. `Waited`: before the last packet there is nothing to assemble,
  after it `missed_packets` looks at all of them.
* `BytesPlaced` (`Spec => []PlacedRight`) and `PromiseKept` (every step is one of `Download` or a stutter), under
  `SteadyCaptures`: `Steady`, and no packet has 102 or 250 bytes by chance, sizes the plugin takes as the sign
  of a host with short headers. Under `Steady` the sum is the place (`PositionIsStart`), every
  packet stored is at it (`Placed`), and the program is written when the last one is in (`Phase`).
  That it is written at last is liveness and stays with the run.

`StationProof`

* `BuffersKept`: `Spec => []BuffersHold`, for every capture: types, and where copies end. Packets of the
  menu stay in its buffer, in any order and with any missing: each place before one is no larger than a
  packet (`MenuPlace`). A download that was heard ends with the game followed, that is `H` bytes behind
  what was allocated and no further: `Fitting` keeps that the buffer is the one of the game followed and
  that only its packets are in it, by `TakenIsFollowed`; `PlaceAtMost` says that the sum in front of a
  packet is at most its true place. Without `heard` there is no such bound, only that of the largest game (`Buffers`),
  which is what types need.
* `FirstWhole`: `Spec => []FirstIsWhole`. `FirstDownload` follows the first download of a capture that
  was heard: the counters start at zero, a packet stored is at its place (`InPlace`, with
  `PlaceIsStart`) and of the game followed, and `highest_contigous_seq` counts packets that are all there.
  With the reset this is lost, as section 5 says, hence the first.
* `OneGameFollowed`: `Spec => []OneGame`. The invariant relates plugin and station:
  `Associated` (ids are not shared, only associated clients download), `Known`
  (if all was heard, a slot holds only the client that has the id, and the game
  in it is the one the client downloads, or none), `Following` (a game is followed
  from the header on and there are no data before). `TakenIsFollowed` draws the
  conclusion: packets that `LookupClientsGameID` lets pass are of the game followed.
* `WrittenOnce`: `Spec => []OnlyOnce`, for every capture. `Handled`: `handledIDs` are
  the games written; with `Following` a game that is followed is not among them.

`YellHttpProof`, for any servers, pages, users and moves of the clock

* `TypesKept`: `Spec => []TypeOK`. `Told`, `Noted` and `Shape` say what an answer is like, what of it is in the
  context, and where in a call both hold; with them `TypeOK` is inductive. All others rest on these.
* `StoredWhole`: `Spec => []Complete`. `Written`: what was received and what is left are the body, and
  `content_len` counts the rest of it.
* `CacheTrusted`: `Spec => []CachedIsPage`. `PlainIsWhole`: the file of a page that neither moves nor is protected is a whole page
  unless it is being written. `Timely`: the time asked about is the file's.
* `RefusalsTrue`: `Spec => []NoFalseRefusal`. `Asked`: a user is in the context from the moment the callback gives it
  to the answer that refuses it, so that whoever was offered before was refused.
* `RedirectionsFollowed`: `Spec => []RedirectedAsTold`, from `Noted`: `redirecturl` is what the last answer says.
* `ConnectionsClosed`: `Spec => []SocketsClosed`, of calls that got a connection (a failed `connect`
  leaves its socket open, section 5). `EmptyUnconnected`: a call with an empty URL comes from a redirection, whose
  connection was closed before.

`VffProof`

* `VolumesKept`: `Spec => []VolumesStacked`. The property is inductive. `StackMount`
  and `StackUnmount` hold the argument: a mount takes a descriptor no volume has and
  a name no volume has; the name of the volume mounted last is found at its own slot
  and no lower one (`SlotOfLast`), because the names of a stack are distinct.
* `HandlesKept`: `Spec => []HandlesStayHome`. `HomeInv` adds that no file object has an
  id FatFs has not given out (`IdsGiven`), and that with one volume every valid file object was
  opened on it (`OneVolume`). A mount makes FatFs forget the volume, so the next file
  operation gets an id above those of all file objects left over. That drive 0 is the
  file the device was added for comes from the stack. Nothing is claimed of clients that use
  files after `VFF_Unmount` and before the next mount.
* `SlotsAreAccounted`: `Spec => []SlotsAccounted`. `SlotInv` says which file objects have
  slots, and that each has one only, with its path, as long as no close failed. The
  counts follow step by step; that `Min` picks a member of the set of free slots is
  `MinIsMember`, from the well-foundedness of `<`.

`Wc24Proof`, for download lists of any length, any titles, URLs, faults and versions

* `Held` says where each program is and what it holds there, so that a call runs
  to its end before the program goes on; the rest rests on it.
* `SlotsKept`: `Spec => []SlotsAgree`. `Parts` speaks of the slot a call is writing:
  both parts are for the same owner, once the first is written only the second is
  wrong, and after a failure that was passed over the slot is one of `hurt`.
* `NoneOverwritten`: `Spec => OthersKept`. `Called` says why that slot may be
  written; it stays so between the two writes. A slot of a program to boot
  is still the one created for it when it is deleted (`OneShotMade`), because the error of
  either write reaches the caller.
* `ConfigSurvives`: `Spec => []ConfigKept`. `Backed`: zeros in memory come from two
  failed reads, and the backup holds what the file proper is about to get.
* `UpdatesEnd`: `Spec => NoUpdateLoop`. `Announced`: the configuration names at least
  the version booted last, and no step to the boot of an installer comes before the
  one that writes its version. Where the title's data are deleted both go, and where
  deleting them fails neither does. It depends neither on the entries, which may be
  deleted and made again, nor on the installer's file, which is
  removed before the boot.
* `EntriesKept`: `Spec => []EntriesThere`, for lists and backups that at first hold no entry of a
  program to boot and none twice (`Wc24Lists`). `Lone`: a slot being written for an owner with an
  ID of its own is the only one for it, because the search before it looks at every slot
  (`NoneFound`). `Ready` and `Made`: in a clean run an entry is in a whole slot that the call under way
  leaves (`Secured`), or still to be looked for; a slot deleted for its URL is none of those. Clean runs see no
  damaged slot and no error number for a descriptor (`Accessible`). `OneShots`: the slot
  of a program to boot is the one the last call wrote, until it is zeros.

Only model-checked:

* liveness: `ImplementsDownload` beyond its steps, `Served`, `CallsEnd`, `PurgeEnds`, `Terminates`;
* `Capture`: its properties are of long sequences of steps
  in a fixed order over given sessions, where an invariant would have one clause for each place of the
  program in each session. `RomOfOneGame` and `EveryGameOnce` moreover depend on the sessions (`MCSessions`), and are not
  claimed of every order of frames.

## 5. Findings

`http_cache` states what `libyellhttp/README:6` says and finds the code doing
something else: the body of a redirection or of a refusal is stored under the name of the
download (`yellhttp.c:564`), and its time is sent as `If-Modified-Since` in the request that
follows (`:367`).

Differences and hazards without a run of their own; the conditions `Polite`,
`Steady`, `heard`, `careful`, `ordered` and `single`, and the antecedents of the properties,
stand for them in the runs.

* wiinandfuse: an update never raises the version, so the last one written is
  not always what is mounted next (`main.c:468`, README:16). `release` clears the
  slots below its own, `used_fds &= ~1<<fh` (`main.c:1258`). `truncate` across clusters does not
  relink the chain (`main.c:1183`, README:36). Without write access data clusters
  are still written (`main.c:662`, README:20). A rename leaves the old name in the
  data HMACs (`main.c:1041`, README:15, 29). A file of the Wii that ends with its last cluster has
  no cluster allocated ahead, and appending to it goes to cluster `0xfffb` (`main.c:639`, `:648`, `:696`); `InitWhole`
  leaves such files out. The emptiness test of `rmdir` looks
  at the parent (`main.c:758`).
* WMB assembly: a short last packet of the ARM7 binary is not waited for (`wmb.c:569`, `:782`); transfers in
  250-byte packets are counted by 490 (`wmb.c:566`).
* Download Station: `data_size` excludes the LZO header (`station.c:138`) and the buffer of a download has
  that size (`:923`), but the first packet is copied to its beginning with the LZO header (`:936`): the last
  packet ends 16 bytes behind the buffer. Where the capture missed a client's request, packets of a longer game pass as the
  followed one's and go further (`:993`). The reset leaves `high_seq` and `highest_contigous_seq` as they
  are, and the next download can be assembled with packets missing
  (`station.c:271`, `:136`, `:1013`); a program that does not decompress is written
  all the same (`:1040`).
* captures: "Successfully assembled all %d demos" is printed after `foundIDs` was
  cleared (`asm.c:1086`).
* download list: `WC24_CreateRecord` with ID 0 never finds the entry it is to
  replace (`wc24.c:458`, `:474`; `wc24.h:141`). `WC24Mail_WC24SendCreate` creates
  `wc24recv.mbx` (`wc24mail.c:155`).
* wc24boottitle: after a `WC24_CreateRecord` that fails it unmounts `wc24dl.vff` a second time
  (`wc24boottitle.c:431`, `:398`). A VFF cut short by a power loss is accepted as
  the existing one (`:381`). The installer keeps what ES and `WC24_Init` return in a `u32`
  (`wc24boottitleinstaller.c:193`), so none of its tests for errors is ever true and the slots are deleted even if the title was
  not. Deleting the title deletes the configuration that names the update
  installed last; it can then be installed once more.
* libyellhttp: after a `connect` that fails the socket stays open (`yellhttp.c:318-322`).
* VFF: every path goes to drive 0, so with two volumes the second one's files are
  those of the first (`vff.h:61`). `disk_ioctl` does not know `CTRL_SYNC`: closing a file that was written,
  `unlink` and `mkdir` report failure when they worked. `diskio.c:160` and `:224` compare
  the number of items of `fread` and `fwrite` with bytes, so VFF files on an SD card
  are never read. Files of 2 MB are FAT16 to
  FatFs, but a FAT12 is written (the README's first known bug). `O_CREAT` becomes `FA_CREATE_NEW`, and
  `_VFF_seek_r` ignores `dir`.

## 6. Plan

Done: all modules of section 2 and the proofs of section 4.

Open:

1. Proofs about `Capture`.
2. `NandThreads`: two FUSE threads on one NAND file descriptor, `lseek` and
   `write` as separate steps, with the shared globals. With threads none of
   the present claims about the file system is left, so it needs claims of its own first.
3. The clusters and directories inside a VFF, if FatFs is to be trusted less.

Not modelled: geckonand, whose command loop answers a program (`gecko.c` of the PC
side) that is not in the repository, and which is otherwise BootMii's MINI with fonts, a heap and
FatFs; the front end of wmb_asm, checksums and directory lists, input and output
without state; ninchdl-listext, a single pass over a list; the converters and
`ds/nzonehtmlhaxx`, one conversion each; `wc24emu`, `vffmount` and `nandinftool`. The
share of the repository in the models is therefore small by lines: fonts, heaps, three copies of FatFs,
MINI's drivers and cryptography are most of them.
