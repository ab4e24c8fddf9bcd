------------------------------ MODULE Station ------------------------------
(***************************************************************************)
(* The Download Station plugin of wmb_asm (station.c), over a capture of   *)
(* one station.  The station keeps clients, each with an id, and sends     *)
(* every packet of a game once for all clients that asked for that game,   *)
(* with the set of their ids in it.  The plugin follows the associations   *)
(* and the requests to know which packets belong to which game.            *)
(*                                                                         *)
(* Frames can be missed by the capture, repeated and out of order.  The    *)
(* history variable heard stays TRUE as long as the capture has what the   *)
(* plugin cannot do without.                                               *)
(*                                                                         *)
(* The buffer of a download is too small for what is copied to it:         *)
(* data_size leaves out the LZO header, which the first packet begins      *)
(* with.  A copy behind its end is undefined: it stays within the slack of *)
(* the allocation, or the program is stopped, there or when it frees the   *)
(* buffer.  What else it may damage is not modelled.                       *)
(*                                                                         *)
(* WMBHosts is written and never read.  HandleWMB_DataAck compares the     *)
(* flow with 10 and not with 0x10, so no frame of a client passes it.      *)
(***************************************************************************)
EXTENDS Integers, FiniteSets, Sequences, Sums

CONSTANTS
    Macs,      \* clients
    Ids,       \* 1 .. 15: ids of clients, one slot in DLClients for each
    Games,     \* entries of the menu
    P,         \* bytes in a data packet
    Bytes,     \* Bytes[g]: compressed size of game g
    NMenu,     \* packets of the menu
    M, G,      \* bytes in a menu packet; 0x10, taken for one that is missing
    H,         \* 0x10: bytes of the LZO header
    MenuBuffer \* 30 * 1000: bytes allocated for the menu

None == -1
NoMac == "no mac"

ASSUME StationConstants ==
    /\ Ids \subseteq Nat \ {0} /\ Games \subseteq Nat
    /\ NoMac \notin Macs
    /\ P \in Nat \ {0} /\ NMenu \in Nat \ {0}
    /\ M \in Nat /\ G \in Nat /\ 0 < G /\ G < M
    /\ H \in Nat /\ H <= P /\ MenuBuffer \in Nat /\ NMenu * M <= MenuBuffer
    /\ Bytes \in [Games -> Nat \ {0}] /\ \A g \in Games : H < Bytes[g]
    /\ \E g \in Games : \A h \in Games : Bytes[h] <= Bytes[g]

VARIABLES
    \* the station
    assoc,       \* id of each client, 0 if it is not associated
    serving,     \* what it downloads
    \* the plugin
    dlstation_stage,
    DLClients,
    found_menu, menu_data, assembled_menu,
    gameIDs,     \* games the menu was found to list
    handledIDs,
    gameID,      \* the download followed
    data_sizes, saved_data,
    allocated,   \* bytes malloc gave for saved_data
    high_pos, high_seq, highest_contigous_seq,
    roms,        \* what was written: game, and whether it is the one sent
    heard        \* history

env == <<assoc, serving>>
menu == <<found_menu, menu_data, assembled_menu, gameIDs>>
download == <<data_sizes, saved_data, allocated, high_pos, high_seq, highest_contigous_seq>>
vars == <<env, dlstation_stage, DLClients, menu, handledIDs, gameID, download, roms, heard>>

-----------------------------------------------------------------------------
(* The station *)

Last(g) == (Bytes[g] + P - 1) \div P - 1
Size(g, seq) == IF seq = Last(g) THEN Bytes[g] - seq * P ELSE P
\* Byte i of a packet: which game it is of and where in it it belongs.
Piece(g, seq, i) == <<g, seq * P + i>>

\* Ids in the packets of game g.
Mask(g) == {assoc[m] : m \in {n \in Macs : serving[n] = g}}

MostBytes == CHOOSE n \in {Bytes[g] : g \in Games} : \A g \in Games : Bytes[g] <= n
Seqs == 0 .. (MostBytes + P - 1) \div P - 1
MenuBytes == 0 .. NMenu * M - 1

-----------------------------------------------------------------------------

NoClient == [mac |-> NoMac, gameID |-> None]

\* AsmPlug_Reset, and what ResetAsm clears of nds_data.
Reset ==
    /\ dlstation_stage' = "MENU_REQ"
    /\ DLClients' = [i \in Ids |-> NoClient]
    /\ found_menu' = {} /\ menu_data' = <<>>
    /\ assembled_menu' = FALSE /\ gameIDs' = {}
    /\ gameID' = 0
    /\ data_sizes' = [s \in Seqs |-> 0] /\ saved_data' = <<>> /\ allocated' = 0

\* The plugins are reset when they were loaded.
Init ==
    /\ assoc = [m \in Macs |-> 0] /\ serving = [m \in Macs |-> None]
    /\ dlstation_stage = "MENU_REQ"
    /\ DLClients = [i \in Ids |-> NoClient]
    /\ found_menu = {} /\ menu_data = <<>>
    /\ assembled_menu = FALSE /\ gameIDs = {}
    /\ handledIDs = {} /\ gameID = 0
    /\ data_sizes = [s \in Seqs |-> 0] /\ saved_data = <<>> /\ allocated = 0
    /\ high_pos = 0 /\ high_seq = 0 /\ highest_contigous_seq = 0
    /\ roms = <<>>
    /\ heard = TRUE

-----------------------------------------------------------------------------
(* Associations *)

AddClient(clients, mac, id) ==
    IF (\E i \in Ids : clients[i].mac = mac) \/ clients[id].mac # NoMac
    THEN clients
    ELSE [clients EXCEPT ![id] = [mac |-> mac, gameID |-> 0]]

RemoveClient(clients, id) == [clients EXCEPT ![id] = NoClient]

\* Slots of a client: one or none.
GetClient(mac) == {i \in Ids : DLClients[i].mac = mac}

HandleDL_AssocResponse(m, id, captured) ==
    /\ assoc[m] = 0 /\ \A n \in Macs : assoc[n] # id
    /\ assoc' = [assoc EXCEPT ![m] = id]
    /\ DLClients' = IF captured THEN AddClient(DLClients, m, id) ELSE DLClients
    /\ heard' = (heard /\ captured)
    /\ UNCHANGED <<serving, dlstation_stage, menu, handledIDs, gameID, download, roms>>

HandleDL_Deauth(m, captured) ==
    /\ assoc[m] # 0
    /\ assoc' = [assoc EXCEPT ![m] = 0]
    /\ serving' = [serving EXCEPT ![m] = None]
    /\ \/ ~captured /\ UNCHANGED DLClients
       \/ captured /\ GetClient(m) = {} /\ UNCHANGED DLClients
       \/ captured /\ \E i \in GetClient(m) : DLClients' = RemoveClient(DLClients, i)
    /\ heard' = (heard /\ captured)
    /\ UNCHANGED <<dlstation_stage, menu, handledIDs, gameID, download, roms>>

-----------------------------------------------------------------------------
(* Requests *)

HandleDL_MenuRequest(m) ==
    /\ assoc[m] # 0 /\ GetClient(m) # {}
    /\ dlstation_stage = "MENU_REQ"
    /\ dlstation_stage' = "MENU_DL"
    /\ UNCHANGED <<env, DLClients, menu, handledIDs, gameID, download, roms, heard>>

\* Mutant: games already written are followed again.
LookupGameIDAgain(g) == IF g \in gameIDs THEN g ELSE None
LookupGameID(g) == IF g \in gameIDs /\ g \notin handledIDs THEN g ELSE None

\* A client asks for game g.  Heard means that the plugin knows the client and
\* the menu.
HandleDL_PacketRequest(m, g, captured) ==
    /\ assoc[m] # 0
    /\ serving' = [serving EXCEPT ![m] = g]
    /\ heard' = (heard /\ captured /\ assembled_menu /\ GetClient(m) # {})
    /\ IF captured /\ assembled_menu /\ GetClient(m) # {}
       THEN \E i \in GetClient(m) :
            /\ DLClients' = [DLClients EXCEPT ![i].gameID = LookupGameID(g)]
            /\ IF dlstation_stage = "DL_REQ" /\ LookupGameID(g) # None
               THEN gameID' = LookupGameID(g) /\ dlstation_stage' = "HEADER"
               ELSE UNCHANGED <<gameID, dlstation_stage>>
       ELSE UNCHANGED <<DLClients, gameID, dlstation_stage>>
    /\ UNCHANGED <<assoc, menu, handledIDs, download, roms>>

-----------------------------------------------------------------------------
(* The menu *)

MenuPosition(seq) == SumTo([s \in 0 .. NMenu - 1 |-> IF s \in found_menu THEN M ELSE G], seq)

\* Packet seq of the menu.  It goes behind the packets found; one missing counts G.
HandleDL_MenuDownload(seq) ==
    /\ dlstation_stage = "MENU_DL" /\ ~assembled_menu
    /\ seq \notin found_menu
    /\ found_menu' = found_menu \cup {seq}
    /\ LET pos == MenuPosition(seq)
       IN  menu_data' = [b \in DOMAIN menu_data \cup (pos .. pos + M - 1) |->
                            IF b \in pos .. pos + M - 1 THEN seq * M + b - pos ELSE menu_data[b]]
    /\ heard' = (heard /\ 0 .. seq - 1 \subseteq found_menu)
    /\ UNCHANGED <<env, dlstation_stage, DLClients, assembled_menu, gameIDs, handledIDs,
                   gameID, download, roms>>

\* The packet behind the last.  The search for the end of the menu stops at the
\* first packet missing, so only packet 0 is required.  A menu that does not
\* decompress lists no game.
HandleDL_MenuEnd ==
    /\ dlstation_stage = "MENU_DL" /\ ~assembled_menu
    /\ 0 \in found_menu
    /\ gameIDs' = IF \A b \in MenuBytes : b \in DOMAIN menu_data /\ menu_data[b] = b
                  THEN Games ELSE {}
    /\ dlstation_stage' = "DL_REQ"
    /\ assembled_menu' = TRUE
    /\ heard' = (heard /\ found_menu = 0 .. NMenu - 1)
    /\ UNCHANGED <<env, DLClients, found_menu, menu_data, handledIDs, gameID, download, roms>>

-----------------------------------------------------------------------------
(* The download *)

\* Mutant: the packets of every game are taken.
LookupClientsGameIDAny(mask, game) == mask # {}
\* Whether packets with these ids are of this game.
LookupClientsGameID(mask, game) == \E i \in mask : DLClients[i].gameID = game

\* What a copy that ends at end leaves of the program, with n bytes allocated.
AfterCopy(end, n) == IF end <= n THEN {"DATA"} ELSE {"DATA", "CRASHED"}

HandleDL_Header(g) ==
    /\ dlstation_stage = "HEADER"
    /\ LookupClientsGameID(Mask(g), gameID)
    /\ allocated' = Bytes[g] - H
    /\ saved_data' = [b \in 0 .. Size(g, 0) - 1 |-> Piece(g, 0, b)]
    /\ data_sizes' = [s \in Seqs |-> IF s = 0 THEN Size(g, 0) ELSE 0]
    /\ high_pos' = Size(g, 0)
    /\ dlstation_stage' \in AfterCopy(Size(g, 0), allocated')
    /\ UNCHANGED <<env, DLClients, menu, handledIDs, gameID, high_seq,
                   highest_contigous_seq, roms, heard>>

Assumed == [s \in Seqs |-> IF data_sizes[s] = 0 THEN data_sizes[0] ELSE data_sizes[s]]

\* Mutant: one packet more is counted.
PositionBehind(seq) == data_sizes[0] + SumTo([i \in 0 .. seq - 1 |-> Assumed[i + 1]], seq)
\* Where packet seq goes.  pkt_size is the size of the header; the packets counted
\* are those from 2 to seq, as many as there are between the header and seq.
Position(seq) == data_sizes[0] + SumTo([i \in 0 .. seq - 2 |-> Assumed[i + 2]], seq - 1)

Contiguous(seq) == \A s \in 1 .. seq - 1 : data_sizes[s] # 0

\* The buffer with packet seq of game g copied to pos.
Copied(g, seq, pos) ==
    LET here == pos .. pos + Size(g, seq) - 1
    IN  [b \in DOMAIN saved_data \cup here |->
            IF b \in here THEN Piece(g, seq, b - pos) ELSE saved_data[b]]

HandleDL_Data(g, seq) ==
    /\ dlstation_stage = "DATA"
    /\ LookupClientsGameID(Mask(g), gameID)
    /\ IF data_sizes[seq] = 0
       THEN /\ saved_data' = Copied(g, seq, Position(seq))
            /\ data_sizes' = [data_sizes EXCEPT ![seq] = Size(g, seq)]
            /\ dlstation_stage' \in AfterCopy(Position(seq) + Size(g, seq), allocated)
       ELSE UNCHANGED <<saved_data, data_sizes, dlstation_stage>>
    /\ LET end == Position(seq) + data_sizes'[seq]
       IN  high_pos' = IF end > high_pos THEN end ELSE high_pos
    /\ high_seq' = IF seq > high_seq THEN seq ELSE high_seq
    /\ highest_contigous_seq' = IF seq > highest_contigous_seq /\ Contiguous(seq)
                                THEN seq ELSE highest_contigous_seq
    /\ UNCHANGED <<env, DLClients, menu, handledIDs, gameID, allocated, roms, heard>>

\* Whether the first n bytes of saved_data decompress to game g.
Decompresses(g, n) ==
    /\ n = Bytes[g]
    /\ \A b \in 0 .. n - 1 : b \in DOMAIN saved_data /\ saved_data[b] = <<g, b>>

\* Mutant: packets missing in the middle do not matter.
AllFoundAnyway == TRUE
\* Mutant: the comparison is strict.
AllFoundBeyond == high_seq < highest_contigous_seq
AllFound == high_seq = highest_contigous_seq

\* The packet behind the last.  The program is assembled, whether it decompressed
\* or not, and everything reset but the counters of the packets.
HandleDL_DataEnd(g) ==
    /\ dlstation_stage = "DATA"
    /\ LookupClientsGameID(Mask(g), gameID)
    /\ AllFound
    /\ roms' = Append(roms, [game |-> gameID, whole |-> Decompresses(gameID, high_pos)])
    /\ handledIDs' = handledIDs \cup {gameID}
    /\ heard' = (heard /\ data_sizes[Last(g)] # 0)
    /\ Reset
    /\ UNCHANGED <<env, high_pos, high_seq, highest_contigous_seq>>

-----------------------------------------------------------------------------

Associate == \E m \in Macs, id \in Ids, c \in BOOLEAN : HandleDL_AssocResponse(m, id, c)
Leave == \E m \in Macs, c \in BOOLEAN : HandleDL_Deauth(m, c)
RequestMenu == \E m \in Macs : HandleDL_MenuRequest(m)
Request == \E m \in Macs, g \in Games, c \in BOOLEAN : HandleDL_PacketRequest(m, g, c)
MenuPacket == \E seq \in 0 .. NMenu - 1 : HandleDL_MenuDownload(seq)
Data == \E g \in Games : \E seq \in 1 .. Last(g) : HandleDL_Data(g, seq)

Next ==
    /\ dlstation_stage # "CRASHED"
    /\ \/ Associate \/ Leave \/ RequestMenu \/ Request \/ MenuPacket \/ HandleDL_MenuEnd
       \/ \E g \in Games : HandleDL_Header(g)
       \/ Data
       \/ \E g \in Games : HandleDL_DataEnd(g)

\* The station repeats the packets of a game as long as a client wants it, and the
\* capture goes on until each was seen.
Fairness ==
    \A g \in Games :
        /\ WF_vars(HandleDL_Header(g))
        /\ \A seq \in 1 .. Last(g) : WF_vars(HandleDL_Data(g, seq))
        /\ WF_vars(HandleDL_DataEnd(g))

Spec == Init /\ [][Next]_vars
FairSpec == Spec /\ Fairness

-----------------------------------------------------------------------------
(* Properties *)

\* The types.  Packets of other games are in the buffer of a plugin that missed
\* something, so its bytes are those of the largest game.
TypeOK ==
    /\ assoc \in [Macs -> Ids \cup {0}] /\ serving \in [Macs -> Games \cup {None}]
    /\ dlstation_stage \in {"MENU_REQ", "MENU_DL", "DL_REQ", "HEADER", "DATA", "CRASHED"}
    /\ DLClients \in [Ids -> [mac : Macs \cup {NoMac}, gameID : Games \cup {None, 0}]]
    /\ found_menu \subseteq 0 .. NMenu - 1 /\ assembled_menu \in BOOLEAN
    /\ gameIDs \subseteq Games /\ handledIDs \subseteq Games
    /\ gameID \in Games \cup {0}
    /\ data_sizes \in [Seqs -> 0 .. P]
    /\ DOMAIN saved_data \subseteq 0 .. MostBytes - 1 /\ allocated \in 0 .. MostBytes
    /\ high_pos \in 0 .. MostBytes
    /\ high_seq \in Seqs /\ highest_contigous_seq \in Seqs
    /\ heard \in BOOLEAN

\* Packets of the menu, found in any order with any missing, are copied within the
\* buffer of the menu.  Those of a download whose capture was heard run past its
\* buffer by no more than the LZO header that data_size leaves out; without heard a
\* longer game may be copied to it.
CopiesFit ==
    /\ DOMAIN menu_data \subseteq 0 .. MenuBuffer - 1
    /\ heard => DOMAIN saved_data \subseteq 0 .. allocated + H - 1

\* Both: values of their types, and nothing copied where it must not be.
BuffersHold == TypeOK /\ CopiesFit

\* If the plugin heard who came, went and asked for what, the download buffer
\* never holds a packet of another game than the one followed, though the station
\* sends all games interleaved and clients change ids and games meanwhile.
OneGame == heard => \A b \in DOMAIN saved_data : saved_data[b][1] = gameID

\* The first program of a capture that was heard is the one sent: packets missing
\* in the middle are always waited for.
FirstIsWhole == heard /\ roms # <<>> => roms[1].whole

\* "We don't need to assemle the same demo twice": over all resets, no game is
\* written twice, and only games of the menu are.
OnlyOnce == \A i, j \in DOMAIN roms : i # j => roms[i].game # roms[j].game

\* A download that is followed ends with a program, unless its clients go or ask for
\* something else, the capture misses something, or the copy of the last bytes, behind
\* the end of the buffer, stopped wmb_asm.
Served ==
    dlstation_stage = "HEADER" /\ roms = <<>>
        ~> \/ roms # <<>> \/ ~heard \/ dlstation_stage = "CRASHED"
           \/ \A m \in Macs : serving[m] # gameID
=============================================================================
