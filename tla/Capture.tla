------------------------------ MODULE Capture ------------------------------
(***************************************************************************)
(* wmb_asm over one capture file after another (main.c): HandlePacket for  *)
(* every frame read, CaptureAsmReset at the end of a file, which gives the *)
(* frames of the file to the plugins again (CaptureBacktrack), once in the *)
(* turn of every plugin.                                                   *)
(*                                                                         *)
(* All plugins have a structure Nds_data each; module_nds_data points to   *)
(* the one in use.  The WMB plugin is here up to the data stage, whose     *)
(* bytes are in WmbData; the plugin of the stations is what Station says   *)
(* of it: a menu makes games known, and the end of a download writes one   *)
(* that is not handled.  A frame is of use to one plugin only, so that     *)
(* currentPacketModule, the order in which they are asked, does not matter.*)
(***************************************************************************)
EXTENDS Integers, FiniteSets, Sequences

CONSTANTS
    Games,      \* transfers a host may offer
    Host,       \* Host[g]: the address of its host
    ID,         \* ID[g]: gameID in the beacons and headers
    NonAdvert,  \* NonAdvert[g]: non_advert in the beacons
    LastPart,   \* 8: a game's beacons are 0 .. LastPart
    LastPacket, \* a game's data are the packets 1 .. LastPacket
    Sessions,   \* sequences of captures, each a sequence of frames
    MaxLost     \* frames the captures of a session lack

Kinds == {"beacon", "auth", "rsa", "header", "data", "menu", "dl", "dump"}
Nothing == "nothing"
Frame == [kind : Kinds, game : Games, n : Nat, seq : Nat]

ASSUME CaptureConstants ==
    /\ Nothing \notin Games
    /\ ID \in [Games -> 0 .. 14] /\ NonAdvert \in [Games -> 0 .. 255]
    /\ LastPart \in Nat \ {0, 1} /\ LastPacket \in Nat \ {0}
    /\ MaxLost \in Nat
    /\ \A s \in Sessions : \A c \in DOMAIN s : \A i \in DOMAIN s[c] : s[c][i] \in Frame

Parts == 0 .. LastPart
Packets == 1 .. LastPacket
Modules == 1 .. 3
Stations == 1   \* DLSTATION, WMB and SecStageDump in packetModules
WMB == 2
SecStage == 3

VARIABLES
    session, cap, pos,   \* what is captured, the capture and the frames read of it
    lost,
    at, return,          \* the place in the program, and where CaptureBacktrack returns to
    turn,                \* i in CaptureAsmReset
    module_nds_data,
    data,                \* the structures, with the plugins' own variables
    log, funusedpkt,     \* unused_packets.bin, and whether it is open for writing
    save_unused_packets,
    rpos,                \* frames replayed
    prev_total,
    current_seq, dump,   \* SecStageDump: the block awaited, the file
    got,                 \* history: frames of this capture that were not lost
    roms, twice          \* history: what was written, and what twice in one capture

file == <<log, funusedpkt, save_unused_packets>>
written == <<roms, twice>>
secstage == <<current_seq, dump>>
reading == <<session, cap, pos, lost, got>>
handling == <<data, prev_total, secstage, written>>
vars == <<session, cap, pos, lost, got, at, return, turn, module_nds_data, data, file,
          rpos, prev_total, secstage, written>>

-----------------------------------------------------------------------------
(* Nds_data *)

Zero == [
    stage |-> "beacon", last_seq |-> 0,
    handledIDs |-> {}, foundIDs |-> {}, multipleIDs |-> FALSE,
    finished_first_assembly |-> FALSE,
    host |-> Nothing, gotID |-> FALSE, FirstBeaconID |-> 0, prev_nonadvert |-> 0,
    beacon_thing |-> 0, FoundAllBeacons |-> FALSE,
    beacon_data |-> [id \in 0 .. 14 |-> [p \in Parts |-> Nothing]],
    advert |-> [p \in Parts |-> Nothing], oldadvert |-> [p \in Parts |-> Nothing],
    rsa |-> Nothing, header |-> Nothing, gameID |-> 0,
    data_init |-> FALSE, saved_data |-> [k \in Packets |-> Nothing],
    trigger_assembly |-> FALSE]

\* Mutant: the plugin is not reset.
StageKept(n) == [Zero EXCEPT !.stage = n.stage, !.host = n.host, !.handledIDs = n.handledIDs,
                             !.finished_first_assembly = n.finished_first_assembly]

\* multipleIDs is kept in a variable that is not written back.
ResetAsm(n) ==
    IF n.finished_first_assembly
    THEN [Zero EXCEPT !.header = n.header, !.rsa = n.rsa, !.oldadvert = n.oldadvert,
                      !.handledIDs = n.handledIDs, !.finished_first_assembly = TRUE]
    ELSE Zero

GotAll(n) == n.foundIDs \subseteq n.handledIDs

-----------------------------------------------------------------------------
(* The WMB plugin *)

\* The tests of WMBProcessBeacons for a host with several games.
HeardBeacon(n, g, part) ==
    LET m == [n EXCEPT
            !.foundIDs = @ \cup {ID[g]},
            !.gotID = @ \/ part # LastPart,
            !.FirstBeaconID = IF ~n.gotID /\ part # LastPart THEN ID[g] ELSE @,
            !.prev_nonadvert = IF part \in 1 .. LastPart - 1 THEN NonAdvert[g] ELSE @,
            !.multipleIDs = @ \/ (part = 0 /\ n.prev_nonadvert # NonAdvert[g]),
            !.host = Host[g]]
        round == part = LastPart /\ m.multipleIDs /\ m.FirstBeaconID = ID[g]
    IN  IF ~round THEN m
        ELSE [m EXCEPT !.FoundAllBeacons = @ \/ m.beacon_thing = 1, !.beacon_thing = 1]

WMBBeaconGrab(n, g, part) ==
    LET m == [n EXCEPT !.beacon_data[ID[g]][part] = IF @ = Nothing THEN g ELSE @]
        complete == \A p \in Parts : m.beacon_data[ID[g]][p] # Nothing
        advert == m.beacon_data[m.FirstBeaconID]
    IN  IF m.multipleIDs
        THEN IF m.FoundAllBeacons THEN [m EXCEPT !.stage = "auth"] ELSE m
        ELSE IF ~complete THEN m
        ELSE IF m.finished_first_assembly /\ m.oldadvert[0] = advert[0] THEN ResetAsm(m)
        ELSE [m EXCEPT !.gameID = ID[g], !.advert = advert, !.oldadvert = advert,
                       !.stage = "auth"]

WMBProcessBeacons(n, f) == WMBBeaconGrab(HeardBeacon(n, f.game, f.n), f.game, f.n)

WMBProcessAuth(n, f) == [n EXCEPT !.stage = "rsa", !.gotID = FALSE]

\* Mutant: the signature is kept once there is one.
WMBProcessRSAOnce(n, f) ==
    [n EXCEPT !.rsa = IF @ = Nothing THEN f.game ELSE @, !.stage = "header"]

\* The frame does not say of which game it is.
WMBProcessRSA(n, f) ==
    IF n.finished_first_assembly /\ n.rsa = f.game THEN ResetAsm(n)
    ELSE [n EXCEPT !.rsa = f.game, !.stage = "header"]

\* Mutant: a game that is handled is taken again.
HeaderHandled(n, f) ==
    [n EXCEPT !.gameID = IF n.multipleIDs THEN ID[f.game] ELSE @,
              !.last_seq = f.seq, !.header = f.game, !.stage = "data"]

\* Packet 0; last_seq is not set in this stage.
WMBProcessHeader(n, f) ==
    LET id == ID[f.game]
        m == [n EXCEPT !.gameID = IF n.multipleIDs THEN id ELSE @]
    IN  IF m.multipleIDs /\ id \in m.handledIDs THEN [m EXCEPT !.stage = "auth"]
        ELSE IF m.finished_first_assembly /\ m.header = f.game THEN ResetAsm(m)
        ELSE [m EXCEPT !.last_seq = f.seq, !.header = f.game, !.stage = "data"]

\* Mutants: packets of any game are taken; the banner is that of the first game.
DataOfAny(n, f) ==
    [n EXCEPT !.saved_data[f.n] = f.game,
              !.advert = IF n.multipleIDs THEN n.beacon_data[n.gameID] ELSE @,
              !.trigger_assembly = \A k \in Packets \ {f.n} : n.saved_data[k] # Nothing]
DataAdvertOfFirst(n, f) ==
    LET whole == \A k \in Packets \ {f.n} : n.saved_data[k] # Nothing
    IN  IF n.multipleIDs /\ ID[f.game] # n.gameID THEN n
        ELSE [n EXCEPT !.saved_data[f.n] = f.game, !.trigger_assembly = whole,
                       !.advert = IF n.multipleIDs THEN n.beacon_data[n.FirstBeaconID] ELSE @]

\* Only the first frame in this stage has to follow the header.  A packet that
\* is there is not taken again before the last one (arm7e).
WMBProcessData(n, f) ==
    LET dropped == ~n.data_init /\ f.seq # n.last_seq + 1
        again == n.saved_data[f.n] # Nothing /\ n.saved_data[LastPacket] = Nothing
        whole == \A k \in Packets \ {f.n} : n.saved_data[k] # Nothing
    IN  IF dropped \/ again \/ (n.multipleIDs /\ ID[f.game] # n.gameID) THEN n
        ELSE [n EXCEPT
            !.last_seq = f.seq,
            !.saved_data[f.n] = f.game,
            !.advert = IF whole /\ n.multipleIDs THEN n.beacon_data[n.gameID] ELSE @,
            !.trigger_assembly = whole]

WMBHandle802_11(n, f) ==
    LET mine == Host[f.game] = n.host
        m == [n EXCEPT !.data_init = @ \/ n.stage = "data"]
    IN  CASE n.stage = "beacon" /\ f.kind = "beacon" -> WMBProcessBeacons(n, f)
          [] n.stage = "auth" /\ f.kind = "auth" /\ mine -> WMBProcessAuth(n, f)
          [] n.stage = "rsa" /\ f.kind = "rsa" /\ mine -> WMBProcessRSA(n, f)
          [] n.stage = "header" /\ f.kind = "header" /\ mine -> WMBProcessHeader(n, f)
          [] n.stage = "data" /\ f.kind = "data" /\ mine ->
                [WMBProcessData(n, f) EXCEPT !.data_init = TRUE]
          [] OTHER -> m

-----------------------------------------------------------------------------
(* The other plugins *)

\* The request and the end of the menu in one frame, and the last frame of a
\* download: a game that is handled is not followed.
StationHandle(n, f) ==
    IF f.kind = "menu"
    THEN LET ids == {ID[g] : g \in {h \in Games : Host[h] = Host[f.game]}}
         IN  [n EXCEPT !.foundIDs = ids, !.multipleIDs = TRUE]
    ELSE IF f.kind = "dl" /\ ID[f.game] \in n.foundIDs \ n.handledIDs
    THEN [n EXCEPT !.gameID = ID[f.game], !.header = f.game, !.rsa = f.game,
                   !.advert = [p \in Parts |-> f.game],
                   !.saved_data = [k \in Packets |-> f.game], !.trigger_assembly = TRUE]
    ELSE n

\* Mutant: a block behind missing ones is taken.
SecStageGap(f) ==
    IF f.kind = "dump" /\ f.n >= current_seq
    THEN current_seq' = f.n + 1 /\ dump' = Append(dump, f.game)
    ELSE UNCHANGED secstage

\* A block in its turn is appended to secstagedump.bin.
SecStageHandle(f) ==
    IF f.kind = "dump" /\ f.n = current_seq
    THEN current_seq' = f.n + 1 /\ dump' = Append(dump, f.game)
    ELSE UNCHANGED secstage

-----------------------------------------------------------------------------
(* asm.c *)

Handled(n, f, m) ==
    CASE m = Stations -> StationHandle(n, f)
      [] m = WMB -> WMBHandle802_11(n, f)
      [] OTHER -> n

Rom(n) == [game |-> n.header, rsa |-> n.rsa, advert |-> n.advert, data |-> n.saved_data]

\* AssembleNds, and what HandlePacket does after it.
Assembled(n) ==
    ResetAsm([n EXCEPT !.handledIDs = @ \cup {n.gameID},
                       !.finished_first_assembly = TRUE, !.oldadvert = n.advert])

\* Mutant: module_nds_data is left as it was.
OwnModule == module_nds_data

\* After its loop module_nds_data is at the last plugin's structure.
LastModule == SecStage

HandlePacket(f) ==
    LET after == [m \in Modules |-> Handled(data[m], f, m)]
        done == {m \in Modules : after[m].trigger_assembly}
        new == {Rom(after[m]) : m \in done}
    IN  /\ data' = [m \in Modules |-> IF m \in done THEN Assembled(after[m]) ELSE after[m]]
        /\ prev_total' = IF done = {} THEN prev_total ELSE 0
        /\ roms' = roms \cup {[cap |-> cap, rom |-> r] : r \in new}
        /\ twice' = twice \cup {r.game : r \in {q \in new : \E o \in roms :
                                       o.cap = cap /\ o.rom.game = q.game}}
        /\ module_nds_data' = LastModule
        /\ SecStageHandle(f)

FrameAt(e) == session[e[1]][e[2]]

\* ReadCaptureLoop, and a frame the capture lacks.
Read ==
    /\ at = "read" /\ pos < Len(session[cap])
    /\ HandlePacket(session[cap][pos + 1])
    /\ IF save_unused_packets THEN log' = Append(log, <<cap, pos + 1>>) /\ funusedpkt' = TRUE
                              ELSE UNCHANGED <<log, funusedpkt>>
    /\ pos' = pos + 1 /\ got' = got \cup {pos + 1}
    /\ UNCHANGED <<session, cap, lost, at, return, turn, save_unused_packets, rpos>>

Lose ==
    /\ at = "read" /\ pos < Len(session[cap]) /\ lost < MaxLost
    /\ lost' = lost + 1 /\ pos' = pos + 1
    /\ UNCHANGED <<session, cap, got, at, return, turn, module_nds_data, handling, file, rpos>>

-----------------------------------------------------------------------------
(* CaptureAsmReset: CaptureAsmResetA for every plugin *)

EndCapture ==
    /\ at = "read" /\ pos = Len(session[cap])
    /\ at' = "turn" /\ turn' = 1
    /\ UNCHANGED <<reading, return, module_nds_data, handling, file, rpos>>

Missing == funusedpkt /\ data[turn].multipleIDs /\ ~GotAll(data[turn])

\* The plugin's turn starts: if a host with several games has some that are not
\* handled, the frames are gone through before the usual pass.
Turn ==
    /\ at = "turn"
    /\ module_nds_data' = turn
    /\ at' = IF Missing THEN "backtrack" ELSE "last"
    /\ return' = IF Missing THEN "checked" ELSE return
    /\ funusedpkt' = (funusedpkt /\ ~Missing)
    /\ UNCHANGED <<reading, turn, handling, log, save_unused_packets, rpos>>

Total(m) == Cardinality(data[m].handledIDs)

CaptureBacktrack ==
    /\ at = "backtrack"
    /\ prev_total' = Total(module_nds_data)
    /\ save_unused_packets' = FALSE /\ funusedpkt' = FALSE
    /\ rpos' = 0 /\ at' = "replay"
    /\ UNCHANGED <<reading, return, turn, module_nds_data, data, log, secstage, written>>

Replay ==
    /\ at = "replay" /\ rpos < Len(log)
    /\ HandlePacket(FrameAt(log[rpos + 1]))
    /\ rpos' = rpos + 1
    /\ UNCHANGED <<reading, at, return, turn, file>>

\* CaptureBacktrack calls itself until the count has not changed.
Replayed ==
    /\ at = "replay" /\ rpos = Len(log)
    /\ save_unused_packets' = TRUE
    /\ at' = IF Total(module_nds_data) = prev_total THEN return ELSE "backtrack"
    /\ UNCHANGED <<reading, return, turn, module_nds_data, handling, log, funusedpkt, rpos>>

\* "If some binaries still weren't assembled, try again".
Checked ==
    /\ at = "checked"
    /\ IF GotAll(data[module_nds_data])
       THEN at' = "truncate" /\ UNCHANGED data
       ELSE /\ data' = [data EXCEPT ![module_nds_data] = ResetAsm(@)]
            /\ at' = "backtrack"
    /\ return' = "truncate"
    /\ UNCHANGED <<reading, turn, module_nds_data, file, prev_total, rpos, secstage, written>>

\* Mutant: the file is opened to append to it.
Appended ==
    /\ at \in {"truncate", "cleared"}
    /\ funusedpkt' = TRUE
    /\ at' = IF at = "truncate" THEN "last" ELSE "clear"
    /\ UNCHANGED <<reading, return, turn, module_nds_data, handling, log,
                   save_unused_packets, rpos>>

\* fopen of unused_packets.bin with "wb"
Truncate ==
    /\ at \in {"truncate", "cleared"}
    /\ log' = <<>> /\ funusedpkt' = TRUE
    /\ at' = IF at = "truncate" THEN "last" ELSE "clear"
    /\ UNCHANGED <<reading, return, turn, module_nds_data, handling, save_unused_packets, rpos>>

\* Mutant: no pass when the host has one game.
LastOfMany ==
    /\ at = "last"
    /\ at' = IF funusedpkt /\ data[module_nds_data].multipleIDs THEN "backtrack" ELSE "clear"
    /\ return' = "cleared" /\ funusedpkt' = FALSE
    /\ UNCHANGED <<reading, turn, module_nds_data, handling, log, save_unused_packets, rpos>>

\* The pass that every plugin gets.
Last ==
    /\ at = "last"
    /\ at' = IF funusedpkt THEN "backtrack" ELSE "clear"
    /\ return' = "cleared" /\ funusedpkt' = FALSE
    /\ UNCHANGED <<reading, turn, module_nds_data, handling, log, save_unused_packets, rpos>>

\* Mutant: handledIDs stay.
NotCleared(n) == n

\* found_beacon and FoundGameIDs, cleared too, do not outlive ResetAsm.
Cleared(n) == [n EXCEPT !.handledIDs = {}]

\* The rest of CaptureAsmResetA; after the last plugin the next capture is read.
Clear ==
    LET done == turn = SecStage
        end == cap = Len(session)
    IN  /\ at = "clear"
        /\ data' = [data EXCEPT ![module_nds_data] = ResetAsm(Cleared(@))]
        /\ turn' = IF done THEN 0 ELSE turn + 1
        /\ at' = IF ~done THEN "turn" ELSE IF end THEN "exit" ELSE "read"
        /\ cap' = IF done /\ ~end THEN cap + 1 ELSE cap
        /\ pos' = IF done THEN 0 ELSE pos
        /\ got' = IF done THEN {} ELSE got
        /\ UNCHANGED <<session, lost, return, module_nds_data, file, rpos, prev_total,
                       secstage, written>>

Exited == at = "exit" /\ UNCHANGED vars

-----------------------------------------------------------------------------

Init ==
    /\ session \in Sessions
    /\ cap = 1 /\ pos = 0 /\ lost = 0 /\ got = {}
    /\ at = "read" /\ return = "cleared" /\ turn = 0
    /\ module_nds_data = Stations
    /\ data = [m \in Modules |-> Zero]
    /\ log = <<>> /\ funusedpkt = FALSE /\ save_unused_packets = TRUE
    /\ rpos = 0 /\ prev_total = 0
    /\ current_seq = 0 /\ dump = <<>>
    /\ roms = {} /\ twice = {}

Next ==
    \/ Read \/ Lose \/ EndCapture
    \/ Turn \/ CaptureBacktrack \/ Replay \/ Replayed \/ Checked \/ Truncate
    \/ Last \/ Clear \/ Exited

Spec == Init /\ [][Next]_vars
FairSpec == Spec /\ WF_vars(Next)

-----------------------------------------------------------------------------
(* Properties *)

GamesWritten == {r.rom.game : r \in roms}
Frames(kind, g) ==
    {i \in got : session[cap][i].kind = kind /\ session[cap][i].game = g}
HostsOf(c) == {Host[session[c][i].game] : i \in DOMAIN session[c]}

TypeOK ==
    /\ session \in Sessions /\ cap \in DOMAIN session
    /\ pos \in 0 .. Len(session[cap]) /\ lost \in 0 .. MaxLost
    /\ module_nds_data \in Modules /\ turn \in 0 .. SecStage
    /\ funusedpkt \in BOOLEAN /\ save_unused_packets \in BOOLEAN
    /\ rpos \in 0 .. Len(log) \/ at # "replay"
    /\ current_seq = Len(dump)

\* What is gone through again are the frames of this capture, in their order,
\* each once: unused_packets.bin never holds a frame of the capture before.
OwnFrames ==
    \A i \in DOMAIN log : log[i][1] = cap /\ (i > 1 => log[i - 1][2] < log[i][2])

\* The binaries written are of the game of the header, whatever was lost.
DataOfGame == \A r \in roms : \A k \in Packets : r.rom.data[k] = r.rom.game

\* So is the signature, when nothing was lost.
RsaOfGame == lost = 0 => \A r \in roms : r.rom.rsa = r.rom.game

\* In captures of one host the banner has nothing of another game, and is whole
\* when nothing was lost.
AdvertOfGame ==
    \A r \in roms : Cardinality(HostsOf(r.cap)) = 1 =>
        \A p \in Parts : \/ r.rom.advert[p] = r.rom.game
                         \/ r.rom.advert[p] = Nothing /\ lost > 0

\* What is written is of one game.
RomOfOneGame == DataOfGame /\ RsaOfGame /\ AdvertOfGame

\* A capture of one host gives every game once, though its frames are handled
\* again and again.
Once == twice # {} => Cardinality(HostsOf(cap)) > 1

\* The host of one game: if the capture has all beacons and a transfer, in any
\* order of the two, the game is written when the plugin of the stations had its turn.
Backtracked ==
    \A g \in Games :
        /\ turn = WMB /\ HostsOf(cap) = {Host[g]} /\ ID[g] = 0 /\ NonAdvert[g] = 0
        /\ \A p \in Parts : \E i \in Frames("beacon", g) : session[cap][i].n = p
        /\ \A k \in {"auth", "rsa", "header"} : Frames(k, g) # {}
        /\ \A k \in Packets : \E i \in Frames("data", g) : session[cap][i].n = k
        => g \in GamesWritten

\* The host of several games: a game is written if since the transfer before it
\* three rounds of beacons of all games were captured, and then its frames.
\* Only beacons may be lost: a transfer that lacks a frame stops the ones behind.
Announced(g, h) ==
    LET start == {j \in got : j < h /\ session[cap][j].kind = "data"}
        since == {j \in got : j < h /\ \A k \in start : k < j}
    IN  /\ \A o \in Games, p \in Parts : Host[o] = Host[g] =>
              Cardinality({j \in since : session[cap][j].kind = "beacon" /\
                           session[cap][j].game = o /\ session[cap][j].n = p}) >= 3
        /\ \E a \in since, r \in since :
              /\ session[cap][a].kind = "auth" /\ session[cap][r].kind = "rsa" /\ a < r
              /\ session[cap][r].game = g
        /\ \A k \in Packets : \E j \in got :
              j > h /\ session[cap][j].kind = "data" /\ session[cap][j].game = g
              /\ session[cap][j].n = k
RoundsSuffice ==
    turn = WMB /\ (\A i \in DOMAIN session[cap] \ got : session[cap][i].kind = "beacon") =>
    \A g \in Games :
        (\E h \in Frames("header", g) : Announced(g, h)) => g \in GamesWritten

\* The passes write what the capture has, and write it once.
EveryGameOnce == Once /\ Backtracked /\ RoundsSuffice

\* The capture starts with what the plugin knows cleared.
FreshIDs == at = "read" /\ pos = 0 => data[WMB].handledIDs = {} /\ data[WMB].stage = "beacon"

\* Nothing of a capture reaches the next one.
FreshCapture == TypeOK /\ OwnFrames /\ FreshIDs

\* The passes over the frames end.
Terminates == <>(at = "exit")
=============================================================================
