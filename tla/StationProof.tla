---------------------------- MODULE StationProof ----------------------------
(***************************************************************************)
(* Proofs about the Download Station plugin, for any number of clients,    *)
(* ids and games of any size, and captures of any length.                  *)
(***************************************************************************)
EXTENDS Station, TLAPS

Client == [mac : Macs \cup {NoMac}, gameID : Games \cup {None, 0}]

\* The types the proofs need.
Types ==
    /\ assoc \in [Macs -> Ids \cup {0}] /\ serving \in [Macs -> Games \cup {None}]
    /\ DLClients \in [Ids -> Client]
    /\ gameIDs \subseteq Games /\ handledIDs \subseteq Games
    /\ gameID \in Games \cup {0}
    /\ roms \in Seq([game : Games, whole : BOOLEAN])
    /\ heard \in BOOLEAN

\* What the station keeps: no two clients share an id, and only clients it knows
\* download.
Associated ==
    /\ \A m, n \in Macs : m # n /\ assoc[m] # 0 => assoc[m] # assoc[n]
    /\ \A m \in Macs : serving[m] # None => assoc[m] # 0

\* A plugin that heard everything has no client in a slot that is not its own, and
\* believes of no client that it downloads another game than it does.
Known ==
    heard =>
        /\ \A i \in Ids, m \in Macs : DLClients[i].mac = m => assoc[m] = i
        /\ \A m \in Macs : serving[m] # None =>
               DLClients[assoc[m]].gameID \in {serving[m], None}

\* The game followed has not been written, and before its header there is no data.
Following ==
    /\ dlstation_stage \in {"HEADER", "DATA"} => gameID \in Games \ handledIDs
    /\ dlstation_stage \notin {"DATA", "CRASHED"} => saved_data = <<>>

\* handledIDs are the games written.
Handled == \A g \in Games : g \in handledIDs <=> \E i \in DOMAIN roms : roms[i].game = g

ClientInv == Types /\ Associated /\ Known
StationInv == ClientInv /\ Following /\ Handled /\ OnlyOnce /\ OneGame

-----------------------------------------------------------------------------
(* Operators *)

\* What is looked up is a game of the menu that was not written, or none.
LEMMA Lookup ==
    ASSUME Types, NEW g \in Games
    PROVE  /\ LookupGameID(g) \in {g, None}
           /\ LookupGameID(g) # None => LookupGameID(g) = g /\ g \in Games \ handledIDs
BY StationConstants DEF Types, LookupGameID, None

\* If the plugin heard everything, packets it takes are of the game it follows.
LEMMA TakenIsFollowed ==
    ASSUME ClientInv, heard, gameID \in Games, NEW g \in Games,
           LookupClientsGameID(Mask(g), gameID)
    PROVE  gameID = g
<1>1. PICK i \in Mask(g) : DLClients[i].gameID = gameID
    BY DEF LookupClientsGameID
<1>2. PICK m \in Macs : serving[m] = g /\ assoc[m] = i
    BY DEF Mask
<1>3. g # None /\ gameID # None
    BY StationConstants DEF None
<1>4. DLClients[assoc[m]].gameID \in {serving[m], None}
    BY <1>2, <1>3 DEF ClientInv, Known
<1> QED BY <1>1, <1>2, <1>3, <1>4

-----------------------------------------------------------------------------
(* The clients *)

\* A new client takes the slot of its id, which is free, and no other.
LEMMA AddClientKeeps ==
    ASSUME Types, NEW m \in Macs, NEW id \in Ids
    PROVE  /\ AddClient(DLClients, m, id) \in [Ids -> Client]
           /\ \A i \in Ids : \/ AddClient(DLClients, m, id)[i] = DLClients[i]
                             \/ (i = id /\ AddClient(DLClients, m, id)[i].mac = m)
BY DEF Types, Client, AddClient

LEMMA AssociateClients ==
    ASSUME ClientInv, NEW m \in Macs, NEW id \in Ids, NEW c \in BOOLEAN,
           HandleDL_AssocResponse(m, id, c)
    PROVE  ClientInv'
<1> USE DEF HandleDL_AssocResponse
<1>1. assoc[m] = 0 /\ \A n \in Macs : assoc[n] # id
    OBVIOUS
<1>2. /\ assoc' \in [Macs -> Ids \cup {0}] /\ assoc'[m] = id /\ id # 0
      /\ \A n \in Macs : n # m => assoc'[n] = assoc[n]
    BY StationConstants DEF ClientInv, Types
<1>3. /\ DLClients' \in [Ids -> Client]
      /\ \A i \in Ids : DLClients'[i] = DLClients[i] \/ (i = id /\ DLClients'[i].mac = m)
    BY AddClientKeeps DEF ClientInv, Types
<1>4. Types'
    BY <1>2, <1>3 DEF ClientInv, Types, menu
<1>5. Associated'
    BY <1>1, <1>2 DEF ClientInv, Types, Associated
<1>6. Known'
    <2> SUFFICES ASSUME heard' PROVE Known'
        BY DEF Known
    <2>1. heard
        BY DEF ClientInv, Types
    <2>2. ASSUME NEW i \in Ids, NEW n \in Macs, DLClients'[i].mac = n
          PROVE  assoc'[n] = i
        <3>1. CASE DLClients'[i] = DLClients[i]
            <4>1. assoc[n] = i
                BY <2>1, <2>2, <3>1 DEF ClientInv, Known
            <4> QED BY <1>1, <1>2, <4>1, StationConstants
        <3>2. CASE i = id /\ DLClients'[i].mac = m
            BY <1>2, <2>2, <3>2
        <3> QED BY <1>3, <3>1, <3>2
    <2>3. ASSUME NEW n \in Macs, serving'[n] # None
          PROVE  DLClients'[assoc'[n]].gameID \in {serving'[n], None}
        <3>1. serving[n] # None /\ n # m /\ assoc[n] # 0 /\ assoc[n] \in Ids /\ assoc[n] # id
            BY <1>1, <2>3 DEF ClientInv, Types, Associated
        <3> QED BY <1>2, <1>3, <2>1, <3>1 DEF ClientInv, Known
    <2> QED BY <2>2, <2>3 DEF Known
<1> QED BY <1>4, <1>5, <1>6 DEF ClientInv

LEMMA LeaveClients ==
    ASSUME ClientInv, NEW m \in Macs, NEW c \in BOOLEAN, HandleDL_Deauth(m, c)
    PROVE  ClientInv'
<1> USE DEF HandleDL_Deauth
<1>1. /\ assoc' = [assoc EXCEPT ![m] = 0] /\ serving' = [serving EXCEPT ![m] = None]
      /\ assoc' \in [Macs -> Ids \cup {0}] /\ serving' \in [Macs -> Games \cup {None}]
    BY DEF ClientInv, Types
<1>2. /\ DLClients' \in [Ids -> Client]
      /\ \A i \in Ids : DLClients'[i] = DLClients[i] \/ DLClients'[i] = NoClient
    BY DEF ClientInv, Types, Client, RemoveClient, NoClient, GetClient
<1>3. Types'
    BY <1>1, <1>2 DEF ClientInv, Types, menu
<1>4. Associated'
    BY <1>1, StationConstants DEF ClientInv, Types, Associated
<1>5. Known'
    <2> SUFFICES ASSUME heard' PROVE Known'
        BY DEF Known
    <2>1. heard /\ c
        BY DEF ClientInv, Types
    <2>2. ASSUME NEW i \in Ids, NEW n \in Macs, DLClients'[i].mac = n
          PROVE  assoc'[n] = i
        <3>1. n # NoMac
            BY StationConstants
        <3>2. DLClients'[i] = DLClients[i]
            BY <1>2, <2>2, <3>1 DEF NoClient
        <3>3. assoc[n] = i
            BY <2>1, <2>2, <3>2 DEF ClientInv, Known
        <3>4. n # m
            <4>1. SUFFICES ASSUME n = m PROVE FALSE
                OBVIOUS
            <4>2. i \in GetClient(m)
                BY <2>2, <3>2, <4>1 DEF GetClient
            <4>3. PICK j \in GetClient(m) : DLClients' = RemoveClient(DLClients, j)
                BY <2>1, <4>2
            <4>4. j = i
                BY <2>1, <4>3, <3>3, <4>1 DEF GetClient, ClientInv, Known
            <4>5. DLClients'[i] = NoClient
                BY <4>3, <4>4 DEF RemoveClient, ClientInv, Types
            <4> QED BY <2>2, <3>1, <4>5 DEF NoClient
        <3> QED BY <1>1, <3>3, <3>4 DEF ClientInv, Types
    <2>3. ASSUME NEW n \in Macs, serving'[n] # None
          PROVE  DLClients'[assoc'[n]].gameID \in {serving'[n], None}
        <3>1. serving'[n] = serving[n] /\ assoc'[n] = assoc[n] /\ assoc[n] \in Ids
            BY <1>1, <2>3 DEF ClientInv, Types, Associated
        <3>2. DLClients[assoc[n]].gameID \in {serving[n], None}
            BY <2>1, <2>3, <3>1 DEF ClientInv, Known
        <3> QED BY <1>2, <3>1, <3>2 DEF NoClient
    <2> QED BY <2>2, <2>3 DEF Known
<1> QED BY <1>3, <1>4, <1>5 DEF ClientInv

LEMMA RequestClients ==
    ASSUME ClientInv, NEW m \in Macs, NEW g \in Games, NEW c \in BOOLEAN,
           HandleDL_PacketRequest(m, g, c)
    PROVE  ClientInv'
<1> USE DEF HandleDL_PacketRequest
<1>1. /\ serving' = [serving EXCEPT ![m] = g] /\ assoc' = assoc /\ assoc[m] # 0
      /\ serving' \in [Macs -> Games \cup {None}]
    BY DEF ClientInv, Types
<1>2. LookupGameID(g) \in Games \cup {None} /\ LookupGameID(g) \in {g, None}
    BY Lookup DEF ClientInv
<1>3. /\ DLClients' \in [Ids -> Client]
      /\ \A i \in Ids : DLClients'[i].mac = DLClients[i].mac
      /\ \A i \in Ids \ GetClient(m) : DLClients'[i] = DLClients[i]
    <2>1. CASE UNCHANGED DLClients
        BY <2>1 DEF ClientInv, Types
    <2>2. ASSUME NEW j \in GetClient(m),
                 DLClients' = [DLClients EXCEPT ![j].gameID = LookupGameID(g)]
          PROVE  <1>3!:
        BY <1>2, <2>2 DEF ClientInv, Types, Client, GetClient
    <2> QED BY <2>1, <2>2
<1>4. gameID' \in Games \cup {0}
    BY <1>2, Lookup DEF ClientInv, Types
<1>5. Types'
    BY <1>1, <1>3, <1>4 DEF ClientInv, Types, menu
<1>6. Associated'
    BY <1>1 DEF ClientInv, Types, Associated
<1>7. Known'
    <2> SUFFICES ASSUME heard' PROVE Known'
        BY DEF Known
    <2>1. heard /\ c /\ assembled_menu /\ GetClient(m) # {}
        BY DEF ClientInv, Types
    <2>2. PICK j \in GetClient(m) : DLClients' = [DLClients EXCEPT ![j].gameID = LookupGameID(g)]
        BY <2>1
    <2>3. j \in Ids /\ DLClients[j].mac = m /\ assoc[m] = j
        BY <2>1 DEF GetClient, ClientInv, Known
    <2>4. ASSUME NEW i \in Ids, NEW n \in Macs, DLClients'[i].mac = n
          PROVE  assoc'[n] = i
        BY <1>1, <1>3, <2>1, <2>4 DEF ClientInv, Known
    <2>5. ASSUME NEW n \in Macs, serving'[n] # None
          PROVE  DLClients'[assoc'[n]].gameID \in {serving'[n], None}
        <3>1. CASE n = m
            BY <1>1, <1>2, <2>2, <2>3, <3>1 DEF ClientInv, Types, Client
        <3>2. CASE n # m
            <4>1. serving'[n] = serving[n] /\ assoc[n] \in Ids /\ assoc[n] # j
                BY <1>1, <2>3, <2>5, <3>2 DEF ClientInv, Types, Associated
            <4>2. DLClients'[assoc[n]] = DLClients[assoc[n]]
                BY <2>2, <4>1 DEF ClientInv, Types
            <4> QED BY <1>1, <2>1, <2>5, <4>1, <4>2 DEF ClientInv, Known
        <3> QED BY <3>1, <3>2
    <2> QED BY <2>4, <2>5 DEF Known
<1> QED BY <1>5, <1>6, <1>7 DEF ClientInv

\* The other frames change no client, except that the end of a program removes all.
LEMMA OthersKeepClients ==
    ASSUME ClientInv, UNCHANGED <<assoc, serving, DLClients, handledIDs, gameID, roms>>,
           gameIDs' \subseteq Games, heard' \in BOOLEAN, heard' => heard
    PROVE  ClientInv'
<1>1. Types'
    BY DEF ClientInv, Types
<1>2. Associated' /\ Known'
    BY DEF ClientInv, Associated, Known
<1> QED BY <1>1, <1>2 DEF ClientInv

LEMMA DataEndClients ==
    ASSUME ClientInv, Following, NEW g \in Games, HandleDL_DataEnd(g)
    PROVE  ClientInv'
<1> USE DEF HandleDL_DataEnd, Reset
<1>1. gameID \in Games
    BY DEF Following
<1>2. DLClients' = [i \in Ids |-> NoClient] /\ NoClient \in Client
    BY DEF NoClient, Client
<1>3. roms' \in Seq([game : Games, whole : BOOLEAN])
    <2>1. [game |-> gameID, whole |-> Decompresses(gameID, high_pos)]
              \in [game : Games, whole : BOOLEAN]
        BY <1>1 DEF Decompresses
    <2> QED BY <2>1 DEF ClientInv, Types
<1>4. Types'
    BY <1>1, <1>2, <1>3 DEF ClientInv, Types, env
<1>5. Associated'
    BY DEF ClientInv, Associated, env
<1>6. Known'
    <2>1. ASSUME NEW n \in Macs, serving'[n] # None
          PROVE  assoc'[n] \in Ids
        BY <2>1 DEF ClientInv, Types, Associated, env
    <2> QED BY <1>2, <2>1, StationConstants DEF Known, NoClient
<1> QED BY <1>4, <1>5, <1>6 DEF ClientInv

LEMMA StepClients ==
    ASSUME ClientInv, Following, [Next]_vars
    PROVE  ClientInv'
<1>1. CASE Associate
    BY <1>1, AssociateClients DEF Associate
<1>2. CASE Leave
    BY <1>2, LeaveClients DEF Leave
<1>3. CASE Request
    BY <1>3, RequestClients DEF Request
<1>4. CASE RequestMenu \/ MenuPacket
    <2>1. UNCHANGED <<assoc, serving, DLClients, handledIDs, gameID, roms, gameIDs>>
        BY <1>4 DEF RequestMenu, MenuPacket, HandleDL_MenuRequest, HandleDL_MenuDownload, env, menu
    <2>2. CASE RequestMenu
        BY <2>1, <2>2, OthersKeepClients DEF RequestMenu, HandleDL_MenuRequest, ClientInv, Types
    <2>3. CASE MenuPacket
        <3>1. PICK seq \in 0 .. NMenu - 1 : heard' = (heard /\ 0 .. seq - 1 \subseteq found_menu)
            BY <2>3 DEF MenuPacket, HandleDL_MenuDownload
        <3>2. heard' \in BOOLEAN /\ (heard' => heard)
            BY <3>1 DEF ClientInv, Types
        <3> QED BY <2>1, <3>2, OthersKeepClients DEF ClientInv, Types
    <2> QED BY <1>4, <2>2, <2>3
<1>5. CASE HandleDL_MenuEnd
    BY <1>5, OthersKeepClients DEF HandleDL_MenuEnd, ClientInv, Types, env
<1>6. CASE \/ \E g \in Games : HandleDL_Header(g)
           \/ Data
    <2>1. UNCHANGED <<assoc, serving, DLClients, handledIDs, gameID, roms, gameIDs, heard>>
        BY <1>6 DEF HandleDL_Header, Data, HandleDL_Data, env, menu
    <2> QED BY <2>1, OthersKeepClients DEF ClientInv, Types
<1>7. CASE \E g \in Games : HandleDL_DataEnd(g)
    BY <1>7, DataEndClients
<1>8. CASE UNCHANGED vars
    BY <1>8, OthersKeepClients DEF vars, ClientInv, Types, env, menu
<1> QED BY <1>1, <1>2, <1>3, <1>4, <1>5, <1>6, <1>7, <1>8 DEF Next

-----------------------------------------------------------------------------
(* The download *)

LEMMA RequestFollows ==
    ASSUME Types, Following, NEW m \in Macs, NEW g \in Games, NEW c \in BOOLEAN,
           HandleDL_PacketRequest(m, g, c)
    PROVE  /\ Following'
           /\ UNCHANGED gameID \/ saved_data' = <<>>
<1>1. UNCHANGED <<saved_data, handledIDs>>
    BY DEF HandleDL_PacketRequest, download
<1>2. CASE UNCHANGED <<gameID, dlstation_stage>>
    BY <1>1, <1>2 DEF Following
<1>3. CASE /\ dlstation_stage = "DL_REQ" /\ LookupGameID(g) # None
           /\ gameID' = LookupGameID(g) /\ dlstation_stage' = "HEADER"
    BY <1>1, <1>3, Lookup DEF Following
<1> QED BY <1>2, <1>3 DEF HandleDL_PacketRequest

LEMMA StepFollowing ==
    ASSUME Types, Following, [Next]_vars
    PROVE  Following'
<1>1. CASE Associate \/ Leave
    BY <1>1 DEF Associate, Leave, HandleDL_AssocResponse, HandleDL_Deauth, download, Following
<1>2. CASE Request
    BY <1>2, RequestFollows DEF Request
<1>3. CASE RequestMenu \/ MenuPacket \/ HandleDL_MenuEnd
    BY <1>3 DEF RequestMenu, MenuPacket, HandleDL_MenuRequest, HandleDL_MenuDownload,
                HandleDL_MenuEnd, download, Following
<1>4. CASE Data \/ \E g \in Games : HandleDL_Header(g)
    BY <1>4 DEF Data, HandleDL_Data, HandleDL_Header, AfterCopy, Following
<1>5. CASE \E g \in Games : HandleDL_DataEnd(g)
    BY <1>5 DEF HandleDL_DataEnd, Reset, Following
<1>6. CASE UNCHANGED vars
    BY <1>6 DEF vars, download, Following
<1> QED BY <1>1, <1>2, <1>3, <1>4, <1>5, <1>6 DEF Next

\* A program that is written was not written before.
LEMMA StepWritten ==
    ASSUME Types, Following, Handled, OnlyOnce, [Next]_vars
    PROVE  Handled' /\ OnlyOnce'
<1>1. CASE UNCHANGED <<roms, handledIDs>>
    BY <1>1 DEF Handled, OnlyOnce
<1>2. ASSUME NEW g \in Games, HandleDL_DataEnd(g)
      PROVE  Handled' /\ OnlyOnce'
    <2>1. gameID \in Games \ handledIDs
        BY <1>2 DEF HandleDL_DataEnd, Following
    <2>2. PICK rom : /\ rom = [game |-> gameID, whole |-> Decompresses(gameID, high_pos)]
                     /\ roms' = Append(roms, rom)
        BY <1>2 DEF HandleDL_DataEnd
    <2>3. rom.game = gameID /\ handledIDs' = handledIDs \cup {gameID}
        BY <1>2, <2>2 DEF HandleDL_DataEnd
    <2>4. /\ DOMAIN roms' = DOMAIN roms \cup {Len(roms) + 1} /\ Len(roms) + 1 \notin DOMAIN roms
          /\ \A i \in DOMAIN roms : roms'[i] = roms[i]
          /\ roms'[Len(roms) + 1] = rom
        <3>1. roms \in Seq([game : Games, whole : BOOLEAN])
            BY DEF Types
        <3>2. rom \in [game : Games, whole : BOOLEAN]
            BY <2>1, <2>2 DEF Decompresses
        <3> QED BY <2>2, <3>1, <3>2
    <2>5. \A i \in DOMAIN roms : roms[i].game # gameID
        BY <2>1 DEF Handled
    <2>6. Handled'
        BY <2>3, <2>4 DEF Handled
    <2>7. OnlyOnce'
        BY <2>3, <2>4, <2>5 DEF OnlyOnce
    <2> QED BY <2>6, <2>7
<1>3. CASE Associate \/ Leave \/ RequestMenu \/ Request \/ MenuPacket \/ HandleDL_MenuEnd
    BY <1>1, <1>3 DEF Associate, Leave, RequestMenu, Request, MenuPacket,
        HandleDL_AssocResponse, HandleDL_Deauth, HandleDL_MenuRequest,
        HandleDL_PacketRequest, HandleDL_MenuDownload, HandleDL_MenuEnd
<1>4. CASE Data \/ \E g \in Games : HandleDL_Header(g)
    BY <1>1, <1>4 DEF Data, HandleDL_Data, HandleDL_Header
<1>5. CASE UNCHANGED vars
    BY <1>1, <1>5 DEF vars
<1> QED BY <1>2, <1>3, <1>4, <1>5 DEF Next

LEMMA StepOneGame ==
    ASSUME ClientInv, Following, OneGame, [Next]_vars
    PROVE  OneGame'
<1> USE DEF OneGame
<1>1. CASE UNCHANGED <<saved_data, gameID>> /\ (heard' => heard)
    BY <1>1
<1>2. CASE saved_data' = <<>>
    BY <1>2
<1>3. CASE Associate \/ Leave \/ RequestMenu \/ MenuPacket \/ HandleDL_MenuEnd
    BY <1>1, <1>3 DEF Associate, Leave, RequestMenu, MenuPacket, HandleDL_AssocResponse,
        HandleDL_Deauth, HandleDL_MenuRequest, HandleDL_MenuDownload, HandleDL_MenuEnd, download
<1>4. CASE Request
    <2>1. PICK m \in Macs, g \in Games, c \in BOOLEAN : HandleDL_PacketRequest(m, g, c)
        BY <1>4 DEF Request
    <2>2. UNCHANGED gameID \/ saved_data' = <<>>
        BY <2>1, RequestFollows DEF ClientInv
    <2>3. UNCHANGED saved_data /\ (heard' => heard)
        BY <2>1 DEF HandleDL_PacketRequest, download
    <2> QED BY <1>1, <1>2, <2>2, <2>3
<1>5. ASSUME NEW g \in Games, HandleDL_Header(g), heard'
      PROVE  \A b \in DOMAIN saved_data' : saved_data'[b][1] = gameID'
    <2>1. heard /\ gameID \in Games /\ gameID' = gameID /\ LookupClientsGameID(Mask(g), gameID)
        BY <1>5 DEF HandleDL_Header, Following
    <2>2. gameID = g
        BY <2>1, TakenIsFollowed
    <2> QED BY <1>5, <2>1, <2>2 DEF HandleDL_Header, Piece
<1>6. ASSUME NEW g \in Games, NEW seq \in 1 .. Last(g), HandleDL_Data(g, seq), heard'
      PROVE  \A b \in DOMAIN saved_data' : saved_data'[b][1] = gameID'
    <2>1. heard /\ gameID \in Games /\ gameID' = gameID /\ LookupClientsGameID(Mask(g), gameID)
        BY <1>6 DEF HandleDL_Data, Following
    <2>2. gameID = g
        BY <2>1, TakenIsFollowed
    <2>3. CASE UNCHANGED saved_data
        BY <2>1, <2>3
    <2>4. CASE data_sizes[seq] = 0
        <3>1. saved_data' = Copied(g, seq, Position(seq))
            BY <1>6, <2>4 DEF HandleDL_Data
        <3>2. \A b \in DOMAIN Copied(g, seq, Position(seq)) :
                  Copied(g, seq, Position(seq))[b][1] = g
            BY <2>1, <2>2 DEF Copied, Piece
        <3> QED BY <2>1, <2>2, <3>1, <3>2
    <2> QED BY <1>6, <2>3, <2>4 DEF HandleDL_Data
<1>7. ASSUME NEW g \in Games, HandleDL_DataEnd(g)
      PROVE  OneGame'
    BY <1>2, <1>7 DEF HandleDL_DataEnd, Reset
<1>8. CASE UNCHANGED vars
    BY <1>1, <1>8 DEF vars, download
<1>9. CASE Data \/ \E g \in Games : HandleDL_Header(g)
    BY <1>5, <1>6, <1>9 DEF Data
<1> QED BY <1>3, <1>4, <1>7, <1>8, <1>9 DEF Next

-----------------------------------------------------------------------------

LEMMA InitStation == Init => StationInv
<1> SUFFICES ASSUME Init PROVE StationInv
    OBVIOUS
<1> USE DEF Init
<1>1. Types
    BY StationConstants DEF Types, Client, NoClient
<1>2. Associated
    BY DEF Associated
<1>3. Known
    BY StationConstants DEF Known, NoClient
<1>4. Following /\ Handled /\ OnlyOnce /\ OneGame
    BY DEF Following, Handled, OnlyOnce, OneGame
<1> QED BY <1>1, <1>2, <1>3, <1>4 DEF StationInv, ClientInv

\* StationInv is an inductive invariant.
LEMMA StationInvariant == Spec => []StationInv
<1>1. StationInv /\ [Next]_vars => StationInv'
    BY StepClients, StepFollowing, StepWritten, StepOneGame DEF StationInv, ClientInv
<1> QED BY InitStation, <1>1, PTL DEF Spec

\* If the plugin heard who came, went and asked for what, the packets it puts
\* together are of one game, however the station interleaves them and whoever
\* takes over an id.
THEOREM OneGameFollowed == Spec => []OneGame
<1>1. StationInv => OneGame
    BY DEF StationInv
<1> QED BY StationInvariant, <1>1, PTL

\* No game is written twice, over all resets and whatever the capture misses.
THEOREM WrittenOnce == Spec => []OnlyOnce
<1>1. StationInv => OnlyOnce
    BY DEF StationInv
<1> QED BY StationInvariant, <1>1, PTL

-----------------------------------------------------------------------------
(* Packets of a game *)

\* All packets of a game but the last one are full, and none is behind the largest
\* game.
LEMMA Packets ==
    ASSUME NEW g \in Games
    PROVE  /\ Last(g) \in Nat /\ Last(g) * P \in Int
           /\ Last(g) * P < Bytes[g] /\ Bytes[g] <= Last(g) * P + P
           /\ Bytes[g] \in Nat \ {0} /\ MostBytes \in Nat \ {0} /\ Bytes[g] <= MostBytes
           /\ 0 .. Last(g) \subseteq Seqs
<1>1. P \in Nat \ {0} /\ Bytes[g] \in Nat \ {0}
    BY StationConstants
<1> DEFINE IsMost(n) == n \in {Bytes[h] : h \in Games} /\ \A h \in Games : Bytes[h] <= n
<1>2. IsMost(MostBytes)
    <2>1. MostBytes = CHOOSE n : IsMost(n)
        BY DEF MostBytes
    <2>2. \E n : IsMost(n)
        BY StationConstants
    <2> QED  BY <2>1, <2>2
<1>3. MostBytes \in Nat \ {0} /\ Bytes[g] <= MostBytes
    BY <1>2, StationConstants
<1> DEFINE n == (Bytes[g] + P - 1) \div P
           m == (MostBytes + P - 1) \div P
<1>4. n \in Nat \ {0} /\ (n - 1) * P < Bytes[g] /\ Bytes[g] <= n * P
    BY <1>1, QuotientCovers
<1>5. m \in Nat \ {0} /\ MostBytes <= m * P
    BY <1>1, <1>3, QuotientCovers
<1>6. Last(g) = n - 1 /\ Seqs = 0 .. m - 1
    BY DEF Last, Seqs
<1> HIDE DEF n, m
<1>7. (n - 1) * P = n * P - P /\ n * P \in Int /\ (n - 1) * P \in Int
    <2>1. (n - 1) * P = n * P - P /\ n * P \in Int
        BY <1>1, <1>4, OneMore
    <2> DEFINE a == n * P
    <2>2. a \in Int /\ (n - 1) * P = a - P
        BY <2>1
    <2> HIDE DEF a
    <2>3. (n - 1) * P \in Int
        BY <1>1, <2>2
    <2> QED  BY <2>1, <2>3
<1>8. Last(g) \in Nat /\ Last(g) * P \in Int /\ Last(g) * P < Bytes[g]
      /\ Bytes[g] <= Last(g) * P + P
    <2> DEFINE a == n * P
               b == (n - 1) * P
    <2>1. a \in Int /\ b \in Int /\ b = a - P /\ b < Bytes[g] /\ Bytes[g] <= a
        BY <1>4, <1>7
    <2>2. Last(g) \in Nat /\ Last(g) * P = b
        BY <1>4, <1>6
    <2> HIDE DEF a, b
    <2> QED  BY <1>1, <2>1, <2>2
<1>9. n <= m
    <2> SUFFICES ASSUME m <= n - 1 PROVE FALSE
        BY <1>4, <1>5
    <2>1. m * P <= (n - 1) * P /\ m * P \in Int
        BY <1>1, <1>4, <1>5, MulMonotone
    <2> QED  BY <1>1, <1>3, <1>4, <1>5, <1>7, <2>1
<1> QED  BY <1>1, <1>3, <1>4, <1>5, <1>6, <1>8, <1>9

\* Where a packet begins and ends.
LEMMA PacketEnds ==
    ASSUME NEW g \in Games, NEW seq \in 0 .. Last(g)
    PROVE  /\ seq \in Seqs /\ seq \in Nat /\ P \in Nat \ {0} /\ seq * P \in Nat
           /\ Size(g, seq) \in 1 .. P
           /\ seq * P + Size(g, seq) <= Bytes[g]
           /\ seq # Last(g) => Size(g, seq) = P
           /\ seq = Last(g) => seq * P + Size(g, seq) = Bytes[g]
<1>1. P \in Nat \ {0}
    BY StationConstants
<1>2. /\ Last(g) \in Nat /\ Last(g) * P \in Int
      /\ Last(g) * P < Bytes[g] /\ Bytes[g] <= Last(g) * P + P
      /\ Bytes[g] \in Nat \ {0} /\ 0 .. Last(g) \subseteq Seqs
    BY Packets
<1>3. seq \in Nat /\ seq \in Seqs
    BY <1>2
<1>4. seq * P \in Nat
    BY <1>1, <1>3
<1>5. CASE seq = Last(g)
    <2> DEFINE a == seq * P
    <2>1. a \in Nat /\ a < Bytes[g] /\ Bytes[g] <= a + P /\ Size(g, seq) = Bytes[g] - a
        BY <1>2, <1>4, <1>5 DEF Size
    <2>2. seq * P = a
        OBVIOUS
    <2> HIDE DEF a
    <2> QED  BY <1>1, <1>2, <1>3, <1>5, <2>1, <2>2
<1>6. CASE seq # Last(g)
    <2>1. seq + 1 <= Last(g) /\ seq + 1 \in Int
        BY <1>2, <1>3, <1>6
    <2>2. (seq + 1) * P <= Last(g) * P /\ (seq + 1) * P \in Int
        BY <1>1, <1>2, <2>1, MulMonotone
    <2>3. (seq + 1) * P = seq * P + P
        BY <1>1, <1>3, OneMore
    <2>4. Size(g, seq) = P
        BY <1>6 DEF Size
    <2> DEFINE a == seq * P
               b == Last(g) * P
    <2>5. a \in Nat /\ b \in Int /\ a + P <= b /\ b < Bytes[g]
        BY <1>2, <1>4, <2>2, <2>3
    <2>6. seq * P = a
        OBVIOUS
    <2> HIDE DEF a, b
    <2> QED  BY <1>1, <1>2, <1>3, <1>6, <2>4, <2>5, <2>6
<1> QED  BY <1>5, <1>6

-----------------------------------------------------------------------------
(* The place of a packet *)

\* A packet found is no longer than its place in the largest game.
Sizes == /\ data_sizes \in [Seqs -> 0 .. P]
         /\ \A s \in Seqs : s * P + data_sizes[s] <= MostBytes

\* A packet goes no further back than its place.
LEMMA PlaceAtMost ==
    ASSUME data_sizes \in [Seqs -> 0 .. P], NEW g \in Games, NEW seq \in 1 .. Last(g)
    PROVE  Position(seq) \in 0 .. seq * P
<1>1. /\ P \in Nat \ {0} /\ seq \in Nat \ {0} /\ seq - 1 \in Nat
      /\ \A i \in 0 .. seq : i \in Seqs
    BY PacketEnds, Packets, StationConstants
<1> DEFINE sizes == [i \in 0 .. seq - 2 |-> Assumed[i + 2]]
<1>2. \A i \in 0 .. (seq - 1) - 1 : sizes[i] \in 0 .. P
    <2> SUFFICES ASSUME NEW i \in 0 .. (seq - 1) - 1 PROVE sizes[i] \in 0 .. P
        OBVIOUS
    <2>1. i \in 0 .. seq - 2 /\ i + 2 \in Seqs /\ 0 \in Seqs
        BY <1>1
    <2>2. sizes[i] = Assumed[i + 2]
        BY <2>1
    <2> QED  BY <2>1, <2>2 DEF Assumed
<1>3. Position(seq) = data_sizes[0] + SumTo(sizes, seq - 1)
    BY DEF Position
<1> HIDE DEF sizes
<1>4. SumTo(sizes, seq - 1) \in 0 .. (seq - 1) * P
    BY <1>1, <1>2, SumAtMost
<1>5. (seq - 1) * P = seq * P - P /\ seq * P \in Int
    BY <1>1, OneMore
<1>6. data_sizes[0] \in 0 .. P
    BY <1>1
<1> DEFINE a == seq * P
           b == (seq - 1) * P
<1>7. a \in Int /\ b = a - P /\ SumTo(sizes, seq - 1) \in 0 .. b
    BY <1>4, <1>5
<1> HIDE DEF a, b
<1>8. data_sizes[0] + SumTo(sizes, seq - 1) \in 0 .. a
    BY <1>1, <1>6, <1>7
<1> QED  BY <1>3, <1>8 DEF a

\* It goes to its place if the header was full and so are the packets before it.
LEMMA PlaceIsStart ==
    ASSUME data_sizes \in [Seqs -> 0 .. P], NEW g \in Games, NEW seq \in 1 .. Last(g),
           data_sizes[0] = P, data_sizes[seq] = 0,
           \A s \in 1 .. seq - 1 : data_sizes[s] \in {0, P}
    PROVE  Position(seq) = seq * P
<1>1. /\ P \in Nat \ {0} /\ seq \in Nat \ {0} /\ seq - 1 \in Nat
      /\ \A i \in 0 .. seq : i \in Seqs
    BY PacketEnds, Packets, StationConstants
<1> DEFINE sizes == [i \in 0 .. seq - 2 |-> Assumed[i + 2]]
           place == [i \in 0 .. seq - 1 |-> i * P]
<1>2. \A i \in 0 .. (seq - 1) - 1 : sizes[i] = P
    <2> SUFFICES ASSUME NEW i \in 0 .. (seq - 1) - 1 PROVE sizes[i] = P
        OBVIOUS
    <2>1. i \in 0 .. seq - 2 /\ i + 2 \in Seqs /\ (i + 2 \in 1 .. seq - 1 \/ i + 2 = seq)
        BY <1>1
    <2>2. sizes[i] = Assumed[i + 2]
        BY <2>1
    <2> QED  BY <1>1, <2>1, <2>2 DEF Assumed
<1>3. Position(seq) = data_sizes[0] + SumTo(sizes, seq - 1)
    BY DEF Position
<1>4. /\ place \in [0 .. seq - 1 -> Int] /\ place[0] = 0 /\ place[seq - 1] = (seq - 1) * P
      /\ \A i \in 0 .. (seq - 1) - 1 : place[i + 1] = place[i] + P
    <2>1. ASSUME NEW i \in 0 .. seq - 1 PROVE i * P \in Int
        BY <1>1
    <2>2. ASSUME NEW i \in 0 .. (seq - 1) - 1 PROVE place[i + 1] = place[i] + P
        <3>1. (i + 1) * P = i * P + P
            BY <1>1, OneMore
        <3>2. i \in 0 .. seq - 1 /\ i + 1 \in 0 .. seq - 1
            BY <1>1
        <3> QED  BY <3>1, <3>2
    <2>3. 0 * P = 0 /\ 0 \in 0 .. seq - 1 /\ seq - 1 \in 0 .. seq - 1
        BY <1>1
    <2> QED  BY <2>1, <2>2, <2>3
<1> HIDE DEF sizes, place
<1>5. SumTo(sizes, seq - 1) = place[seq - 1]
    <2>1. \A i \in 0 .. (seq - 1) - 1 : sizes[i] \in Int /\ place[i + 1] = place[i] + sizes[i]
        BY <1>1, <1>2, <1>4
    <2>2. seq - 1 \in Nat
        BY <1>1
    <2>3. place \in [0 .. seq - 1 -> Int] /\ place[0] = 0
        BY <1>4
    <2> QED  BY <2>1, <2>2, <2>3, SumIs
<1>6. (seq - 1) * P = seq * P - P /\ seq * P \in Int
    BY <1>1, OneMore
<1> QED  BY <1>1, <1>3, <1>4, <1>5, <1>6

\* The packets of the menu, found or missing, end before the menu does.
LEMMA MenuPlace ==
    ASSUME found_menu \subseteq 0 .. NMenu - 1, NEW seq \in 0 .. NMenu - 1
    PROVE  MenuPosition(seq) \in 0 .. seq * M
<1>1. M \in Nat /\ G \in 0 .. M /\ NMenu \in Nat \ {0} /\ seq \in Nat
    BY StationConstants
<1> DEFINE sizes == [s \in 0 .. NMenu - 1 |-> IF s \in found_menu THEN M ELSE G]
<1>2. \A i \in 0 .. seq - 1 : sizes[i] \in 0 .. M
    BY <1>1
<1>3. MenuPosition(seq) = SumTo(sizes, seq)
    BY DEF MenuPosition
<1> HIDE DEF sizes
<1> QED  BY <1>1, <1>2, <1>3, SumAtMost

-----------------------------------------------------------------------------
(* Buffers and counters *)

Stages == {"MENU_REQ", "MENU_DL", "DL_REQ", "HEADER", "DATA", "CRASHED"}

\* What BuffersHold says of the menu and the download, whatever was heard.
Buffers ==
    /\ dlstation_stage \in Stages
    /\ found_menu \subseteq 0 .. NMenu - 1 /\ assembled_menu \in BOOLEAN
    /\ DOMAIN menu_data \subseteq 0 .. MenuBuffer - 1
    /\ Sizes
    /\ DOMAIN saved_data \subseteq 0 .. MostBytes - 1 /\ allocated \in 0 .. MostBytes
    /\ high_pos \in 0 .. MostBytes
    /\ high_seq \in Seqs /\ highest_contigous_seq \in Seqs

\* What leaves menu and download alone.
LEMMA OthersKeepBuffers ==
    ASSUME Buffers, UNCHANGED <<found_menu, assembled_menu, menu_data, download>>,
           dlstation_stage' \in Stages
    PROVE  Buffers'
BY DEF Buffers, Stages, Sizes, Seqs, MostBytes, download

\* There is a game, so the first packet has a number and the end of the largest
\* game is behind all packets.
LEMMA SeqsType ==
    /\ MostBytes \in Nat \ {0} /\ P \in Nat \ {0} /\ 0 \in Seqs
    /\ \A s \in Seqs : s \in Nat /\ s * P \in Nat /\ s * P <= MostBytes
    /\ \A s \in Seqs : 0 .. s \subseteq Seqs
<1>1. PICK g \in Games : \A h \in Games : Bytes[h] <= Bytes[g]
    BY StationConstants
<1>2. MostBytes = Bytes[g]
    <2>1. MostBytes \in {Bytes[h] : h \in Games} /\ \A h \in Games : Bytes[h] <= MostBytes
        <3> DEFINE IsMost(n) == n \in {Bytes[h] : h \in Games} /\ \A h \in Games : Bytes[h] <= n
        <3>1. MostBytes = CHOOSE n : IsMost(n)
            BY DEF MostBytes
        <3>2. IsMost(Bytes[g])
            BY <1>1
        <3> QED  BY <3>1, <3>2
    <2>2. \A h \in Games : Bytes[h] \in Nat
        BY StationConstants
    <2> QED  BY <1>1, <2>1, <2>2
<1>3. Seqs = 0 .. Last(g)
    BY <1>2 DEF Seqs, Last
<1>4. MostBytes \in Nat \ {0} /\ Last(g) \in Nat
    BY Packets
<1>5. \A s \in Seqs : s \in Nat /\ s * P \in Nat /\ s * P <= MostBytes
    <2> SUFFICES ASSUME NEW s \in Seqs PROVE s \in Nat /\ s * P \in Nat /\ s * P <= MostBytes
        OBVIOUS
    <2>1. /\ s \in Nat /\ s * P \in Nat /\ Size(g, s) \in 1 .. P /\ P \in Nat
          /\ s * P + Size(g, s) <= Bytes[g]
        BY <1>3, PacketEnds
    <2> DEFINE a == s * P
    <2>2. a \in Nat /\ a + Size(g, s) <= MostBytes
        BY <1>2, <2>1
    <2> HIDE DEF a
    <2>3. a <= MostBytes
        BY <1>4, <2>1, <2>2
    <2> QED  BY <2>1, <2>3 DEF a
<1>6. \A s \in Seqs : 0 .. s \subseteq Seqs
    BY <1>3, <1>4
<1> QED  BY <1>3, <1>4, <1>5, <1>6, StationConstants

\* A menu packet goes to its place or before it, and ends before the menu does.
LEMMA MenuBuffers ==
    ASSUME Buffers, NEW seq \in 0 .. NMenu - 1, HandleDL_MenuDownload(seq)
    PROVE  Buffers'
<1> USE DEF HandleDL_MenuDownload
<1> DEFINE pos == MenuPosition(seq)
<1>1. pos \in 0 .. seq * M
    BY MenuPlace DEF Buffers
<1>2. DOMAIN menu_data' = DOMAIN menu_data \cup (pos .. pos + M - 1)
    OBVIOUS
<1> HIDE DEF pos
<1>3. pos .. pos + M - 1 \subseteq 0 .. MenuBuffer - 1
    <2>1. M \in Nat /\ NMenu \in Nat \ {0} /\ seq \in Nat /\ seq + 1 <= NMenu
          /\ MenuBuffer \in Nat /\ NMenu * M <= MenuBuffer
        BY StationConstants
    <2>2. (seq + 1) * M <= NMenu * M /\ NMenu * M \in Int
        BY <2>1, MulMonotone
    <2>3. (seq + 1) * M = seq * M + M /\ seq * M \in Nat
        BY <2>1, OneMore
    <2> DEFINE a == seq * M
               e == NMenu * M
    <2>4. a \in Nat /\ e \in Int /\ a + M <= e /\ e <= MenuBuffer /\ pos \in 0 .. a
        BY <1>1, <2>1, <2>2, <2>3
    <2> HIDE DEF a, e
    <2> QED  BY <2>1, <2>4
<1>4. DOMAIN menu_data' \subseteq 0 .. MenuBuffer - 1
    BY <1>2, <1>3 DEF Buffers
<1>5. found_menu' \subseteq 0 .. NMenu - 1
    BY DEF Buffers
<1> QED  BY <1>4, <1>5 DEF Buffers, Sizes, Seqs, MostBytes, download

\* The header is no longer than a packet or the game.
LEMMA HeaderBuffers ==
    ASSUME Buffers, NEW g \in Games, HandleDL_Header(g)
    PROVE  Buffers'
<1> USE DEF HandleDL_Header
<1>1. /\ Size(g, 0) \in 1 .. P /\ 0 * P + Size(g, 0) <= Bytes[g]
      /\ Bytes[g] <= MostBytes /\ Bytes[g] \in Nat
    <2>1. 0 \in 0 .. Last(g)
        BY Packets
    <2> QED  BY <2>1, Packets, PacketEnds
<1>2. Size(g, 0) \in 1 .. MostBytes /\ Size(g, 0) \in 1 .. P
    <2>1. 0 * P = 0 /\ MostBytes \in Nat /\ P \in Nat
        BY SeqsType
    <2> QED  BY <1>1, <2>1
<1>3. DOMAIN saved_data' \subseteq 0 .. MostBytes - 1
    BY <1>2, SeqsType
<1>4. Sizes'
    <2>1. data_sizes' = [s \in Seqs |-> IF s = 0 THEN Size(g, 0) ELSE 0]
        OBVIOUS
    <2>2. data_sizes' \in [Seqs -> 0 .. P]
        BY <1>2, <2>1, SeqsType
    <2>3. ASSUME NEW s \in Seqs PROVE s * P + data_sizes'[s] <= MostBytes
        BY <1>2, <2>1, SeqsType
    <2> QED  BY <2>2, <2>3 DEF Sizes, Seqs, MostBytes
<1>5. high_pos' \in 0 .. MostBytes
    BY <1>2, SeqsType
<1>6. allocated' \in 0 .. MostBytes
    <2>1. allocated' = Bytes[g] - H /\ H \in Nat /\ H < Bytes[g] /\ MostBytes \in Nat
        BY SeqsType, StationConstants
    <2> QED  BY <1>1, <2>1
<1>7. dlstation_stage' \in Stages
    BY DEF AfterCopy, Stages
<1> QED  BY <1>3, <1>4, <1>5, <1>6, <1>7 DEF Buffers, Seqs, MostBytes, menu

\* A packet, put where those before it end, ends before the largest game does.
LEMMA DataBuffers ==
    ASSUME Buffers, NEW g \in Games, NEW seq \in 1 .. Last(g), HandleDL_Data(g, seq)
    PROVE  Buffers'
<1> USE DEF HandleDL_Data
<1> DEFINE pos == Position(seq)
           place == seq * P
<1>1. /\ seq \in 0 .. Last(g) /\ seq \in Seqs /\ place \in Nat /\ Size(g, seq) \in 1 .. P
      /\ place + Size(g, seq) <= MostBytes /\ P \in Nat /\ MostBytes \in Nat
    <2>1. seq \in 0 .. Last(g)
        BY Packets
    <2>2. /\ seq \in Seqs /\ place \in Nat /\ Size(g, seq) \in 1 .. P
          /\ place + Size(g, seq) <= Bytes[g]
        BY <2>1, PacketEnds
    <2>3. Bytes[g] <= MostBytes /\ Bytes[g] \in Nat /\ MostBytes \in Nat /\ P \in Nat
        BY Packets, StationConstants
    <2> QED  BY <2>1, <2>2, <2>3
<1>2. pos \in 0 .. place
    BY PlaceAtMost DEF Buffers, Sizes
<1>3. /\ data_sizes' \in [Seqs -> 0 .. P] /\ place + data_sizes'[seq] <= MostBytes
      /\ \A s \in Seqs \ {seq} : data_sizes'[s] = data_sizes[s]
    <2>1. CASE UNCHANGED data_sizes
        BY <1>1, <2>1 DEF Buffers, Sizes
    <2>2. CASE data_sizes' = [data_sizes EXCEPT ![seq] = Size(g, seq)]
        BY <1>1, <2>2 DEF Buffers, Sizes
    <2> QED  BY <2>1, <2>2
<1>4. Sizes'
    <2>1. \A s \in Seqs : s * P + data_sizes'[s] <= MostBytes
        BY <1>3 DEF Buffers, Sizes
    <2> QED  BY <1>3, <2>1 DEF Sizes, Seqs, MostBytes
<1>5. DOMAIN saved_data' \subseteq 0 .. MostBytes - 1
    <2>1. CASE UNCHANGED saved_data
        BY <2>1 DEF Buffers
    <2>2. CASE saved_data' = Copied(g, seq, pos)
        <3>1. DOMAIN saved_data' = DOMAIN saved_data \cup pos .. pos + Size(g, seq) - 1
            BY <2>2 DEF Copied
        <3> HIDE DEF pos, place
        <3>2. pos .. pos + Size(g, seq) - 1 \subseteq 0 .. MostBytes - 1
            BY <1>1, <1>2
        <3> QED  BY <3>1, <3>2 DEF Buffers
    <2> QED  BY <2>1, <2>2
<1>6. high_pos' \in 0 .. MostBytes
    <2>1. high_pos' = IF pos + data_sizes'[seq] > high_pos THEN pos + data_sizes'[seq] ELSE high_pos
        OBVIOUS
    <2> HIDE DEF pos, place
    <2>2. pos + data_sizes'[seq] \in 0 .. MostBytes
        BY <1>1, <1>2, <1>3
    <2> QED  BY <2>1, <2>2 DEF Buffers
<1>7. high_seq' \in Seqs /\ highest_contigous_seq' \in Seqs
    BY <1>1 DEF Buffers
<1>8. dlstation_stage' \in Stages
    BY DEF AfterCopy, Buffers, Stages
<1> QED  BY <1>4, <1>5, <1>6, <1>7, <1>8 DEF Buffers, Seqs, MostBytes, menu

LEMMA ResetBuffers ==
    ASSUME Buffers, Reset, UNCHANGED <<high_pos, high_seq, highest_contigous_seq>>
    PROVE  Buffers'
<1> USE DEF Reset
<1>1. Sizes'
    <2>1. data_sizes' = [s \in Seqs |-> 0]
        OBVIOUS
    <2>2. /\ data_sizes' \in [Seqs -> 0 .. P]
          /\ \A s \in Seqs : s * P + data_sizes'[s] <= MostBytes
        BY <2>1, SeqsType
    <2> QED  BY <2>2 DEF Sizes, Seqs, MostBytes
<1>2. DOMAIN menu_data' = {} /\ DOMAIN saved_data' = {}
    OBVIOUS
<1>3. allocated' \in 0 .. MostBytes
    BY SeqsType
<1> QED  BY <1>1, <1>2, <1>3 DEF Buffers, Stages, Seqs, MostBytes

LEMMA StepBuffers ==
    ASSUME Buffers, [Next]_vars
    PROVE  Buffers'
<1>1. CASE Associate \/ Leave \/ RequestMenu
    BY <1>1, OthersKeepBuffers DEF Associate, Leave, RequestMenu, HandleDL_AssocResponse,
        HandleDL_Deauth, HandleDL_MenuRequest, menu, Buffers, Stages
<1>2. CASE Request
    <2>1. PICK m \in Macs, g \in Games, c \in BOOLEAN : HandleDL_PacketRequest(m, g, c)
        BY <1>2 DEF Request
    <2>2. dlstation_stage' \in {dlstation_stage, "HEADER"} /\ UNCHANGED <<menu, download>>
        BY <2>1 DEF HandleDL_PacketRequest
    <2> QED  BY <2>2, OthersKeepBuffers DEF menu, Buffers, Stages
<1>3. CASE MenuPacket
    BY <1>3, MenuBuffers DEF MenuPacket
<1>4. CASE HandleDL_MenuEnd
    BY <1>4 DEF HandleDL_MenuEnd, Buffers, Stages, Sizes, Seqs, MostBytes, download
<1>5. CASE \E g \in Games : HandleDL_Header(g)
    BY <1>5, HeaderBuffers
<1>6. CASE Data
    BY <1>6, DataBuffers DEF Data
<1>7. CASE \E g \in Games : HandleDL_DataEnd(g)
    BY <1>7, ResetBuffers DEF HandleDL_DataEnd
<1>8. CASE UNCHANGED vars
    BY <1>8, OthersKeepBuffers DEF vars, menu, Buffers
<1> QED  BY <1>1, <1>2, <1>3, <1>4, <1>5, <1>6, <1>7, <1>8 DEF Next

LEMMA InitBuffers == Init => Buffers
<1> SUFFICES ASSUME Init PROVE Buffers
    OBVIOUS
<1>1. Sizes
    <2>1. data_sizes = [s \in Seqs |-> 0]
        BY DEF Init
    <2> QED  BY <2>1, SeqsType DEF Sizes
<1>2. high_pos \in 0 .. MostBytes /\ high_seq \in Seqs /\ highest_contigous_seq \in Seqs
    BY SeqsType DEF Init
<1>3. DOMAIN saved_data = {} /\ DOMAIN menu_data = {} /\ allocated \in 0 .. MostBytes
    BY SeqsType DEF Init
<1> QED  BY <1>1, <1>2, <1>3 DEF Init, Buffers, Stages

\* If the plugin heard everything, the buffer is the one of the game followed, and its
\* packets are the only ones in it.
Fitting ==
    heard /\ dlstation_stage \in {"DATA", "CRASHED"} =>
        /\ gameID \in Games /\ allocated = Bytes[gameID] - H
        /\ DOMAIN saved_data \subseteq 0 .. Bytes[gameID] - 1

LEMMA HeaderFits ==
    ASSUME ClientInv, Following, NEW g \in Games, HandleDL_Header(g)
    PROVE  Fitting'
<1> USE DEF HandleDL_Header
<1> SUFFICES ASSUME heard' PROVE Fitting'
    BY DEF Fitting
<1>1. gameID' = g
    <2>1. heard /\ gameID \in Games
        BY DEF Following
    <2> QED  BY <2>1, TakenIsFollowed
<1>2. Size(g, 0) \in Int /\ Size(g, 0) <= Bytes[g] /\ Bytes[g] \in Nat
    <2>1. 0 \in 0 .. Last(g) /\ 0 * P = 0
        BY Packets, StationConstants
    <2>2. Size(g, 0) \in 1 .. P /\ 0 + Size(g, 0) <= Bytes[g] /\ P \in Nat
        BY <2>1, PacketEnds
    <2> QED  BY <2>2, Packets
<1>3. DOMAIN saved_data' \subseteq 0 .. Bytes[g] - 1
    BY <1>2
<1> QED  BY <1>1, <1>3 DEF Fitting

\* A packet goes to its place in the game or before it, so it ends before the game does.
LEMMA DataFits ==
    ASSUME ClientInv, Following, Buffers, Fitting,
           NEW g \in Games, NEW seq \in 1 .. Last(g), HandleDL_Data(g, seq)
    PROVE  Fitting'
<1> USE DEF HandleDL_Data
<1> SUFFICES ASSUME heard' PROVE Fitting'
    BY DEF Fitting
<1>1. heard /\ gameID = g /\ gameID' = g
    <2>1. gameID \in Games
        BY DEF Following
    <2> QED  BY <2>1, TakenIsFollowed
<1>2. allocated' = Bytes[g] - H /\ DOMAIN saved_data \subseteq 0 .. Bytes[g] - 1
    BY <1>1 DEF Fitting
<1> DEFINE pos == Position(seq)
           place == seq * P
<1>3. /\ place \in Nat /\ Size(g, seq) \in 1 .. P /\ P \in Nat
      /\ place + Size(g, seq) <= Bytes[g] /\ Bytes[g] \in Nat
    <2>1. seq \in 0 .. Last(g)
        BY Packets
    <2> QED  BY <2>1, Packets, PacketEnds
<1>4. pos \in 0 .. place
    BY PlaceAtMost DEF Buffers, Sizes
<1>5. DOMAIN saved_data' \subseteq 0 .. Bytes[g] - 1
    <2>1. CASE UNCHANGED saved_data
        BY <1>2, <2>1
    <2>2. CASE saved_data' = Copied(g, seq, pos)
        <3>1. DOMAIN saved_data' = DOMAIN saved_data \cup pos .. pos + Size(g, seq) - 1
            BY <2>2 DEF Copied
        <3> HIDE DEF pos, place
        <3>2. pos .. pos + Size(g, seq) - 1 \subseteq 0 .. Bytes[g] - 1
            BY <1>3, <1>4
        <3> QED  BY <1>2, <3>1, <3>2
    <2> QED  BY <2>1, <2>2
<1> QED  BY <1>1, <1>2, <1>5 DEF Fitting

LEMMA StepFitting ==
    ASSUME ClientInv, Following, Buffers, Fitting, [Next]_vars
    PROVE  Fitting'
<1>1. CASE /\ UNCHANGED <<saved_data, allocated>> /\ (heard' => heard)
           /\ dlstation_stage' \in {"DATA", "CRASHED"} => UNCHANGED <<dlstation_stage, gameID>>
    BY <1>1 DEF Fitting
<1>2. CASE Associate \/ Leave \/ RequestMenu
    BY <1>1, <1>2 DEF Associate, Leave, RequestMenu, HandleDL_AssocResponse,
        HandleDL_Deauth, HandleDL_MenuRequest, download
<1>3. CASE Request
    BY <1>1, <1>3 DEF Request, HandleDL_PacketRequest, download
<1>4. CASE MenuPacket \/ HandleDL_MenuEnd
    BY <1>1, <1>4 DEF MenuPacket, HandleDL_MenuDownload, HandleDL_MenuEnd, download
<1>5. CASE \E g \in Games : HandleDL_Header(g)
    BY <1>5, HeaderFits
<1>6. CASE Data
    BY <1>6, DataFits DEF Data
<1>7. CASE \E g \in Games : HandleDL_DataEnd(g)
    BY <1>7 DEF HandleDL_DataEnd, Reset, Fitting
<1>8. CASE UNCHANGED vars
    BY <1>1, <1>8 DEF vars, download
<1> QED  BY <1>2, <1>3, <1>4, <1>5, <1>6, <1>7, <1>8 DEF Next

\* The packets of the menu stay within its buffer, whatever the capture misses and in
\* whatever order they come.  Those of a download that was heard end with the game,
\* which is the LZO header longer than the buffer allocated for it.
THEOREM BuffersKept == Spec => []BuffersHold
<1>1. Types /\ Buffers /\ Following /\ Fitting => BuffersHold
    <2> SUFFICES ASSUME Types, Buffers, Following, Fitting PROVE BuffersHold
        OBVIOUS
    <2>1. TypeOK
        BY DEF Types, Buffers, Stages, Sizes, TypeOK, Client
    <2>2. ASSUME heard PROVE DOMAIN saved_data \subseteq 0 .. allocated + H - 1
        <3>1. CASE dlstation_stage \in {"DATA", "CRASHED"}
            <4>1. gameID \in Games /\ allocated = Bytes[gameID] - H
                  /\ DOMAIN saved_data \subseteq 0 .. Bytes[gameID] - 1
                BY <2>2, <3>1 DEF Fitting
            <4>2. Bytes[gameID] \in Nat /\ H \in Nat
                BY <4>1, StationConstants
            <4> QED  BY <4>1, <4>2
        <3>2. CASE dlstation_stage \notin {"DATA", "CRASHED"}
            BY <3>2 DEF Following
        <3> QED  BY <3>1, <3>2
    <2> QED  BY <2>1, <2>2 DEF BuffersHold, CopiesFit, Buffers
<1>2. Buffers /\ [Next]_vars => Buffers'
    BY StepBuffers
<1>3. StationInv => ClientInv /\ Types /\ Following
    BY DEF StationInv, ClientInv
<1>4. StationInv /\ Buffers /\ Fitting /\ [Next]_vars => Fitting'
    BY <1>3, StepFitting
<1>5. Init => Fitting
    BY DEF Init, Fitting
<1> QED  BY InitBuffers, StationInvariant, <1>1, <1>2, <1>3, <1>4, <1>5, PTL DEF Spec

-----------------------------------------------------------------------------
(* The first program *)

\* Before the first download the counters are those of Init.
Counters ==
    roms = <<>> /\ dlstation_stage \notin {"DATA", "CRASHED"} =>
        high_seq = 0 /\ highest_contigous_seq = 0

\* The header is there; what is in the buffer is in its place; packets found are
\* whole and no later than seq; those up to contiguous are found; and pos is the end
\* of the game if its last packet is found.
InPlace(g, sizes, buffer, pos, seq, contiguous) ==
    /\ sizes[0] = Size(g, 0)
    /\ \A b \in DOMAIN buffer : buffer[b] = <<g, b>>
    /\ \A s \in Seqs : sizes[s] # 0 =>
           /\ s \in 0 .. Last(g) /\ sizes[s] = Size(g, s)
           /\ s <= seq
           /\ \A i \in 0 .. Size(g, s) - 1 : s * P + i \in DOMAIN buffer
    /\ \A s \in 1 .. contiguous : sizes[s] # 0
    /\ pos <= Bytes[g]
    /\ sizes[Last(g)] # 0 => pos = Bytes[g]

\* So it is while the first game is downloaded by a plugin that heard everything.
FirstDownload ==
    heard /\ roms = <<>> /\ dlstation_stage = "DATA" =>
        InPlace(gameID, data_sizes, saved_data, high_pos, high_seq, highest_contigous_seq)

\* FirstDownload after a step.
LEMMA FirstDownloadNext ==
    FirstDownload' <=>
        (heard' /\ roms' = <<>> /\ dlstation_stage' = "DATA" =>
             InPlace(gameID', data_sizes', saved_data', high_pos', high_seq',
                     highest_contigous_seq'))
BY Zenon DEF FirstDownload, InPlace, Size, Last, Seqs, MostBytes

LEMMA StepCounters ==
    ASSUME Counters, [Next]_vars
    PROVE  Counters'
<1> USE DEF Counters
<1>1. CASE Associate \/ Leave \/ RequestMenu
    BY <1>1 DEF Associate, Leave, RequestMenu, HandleDL_AssocResponse,
        HandleDL_Deauth, HandleDL_MenuRequest, download
<1>2. CASE Request
    BY <1>2 DEF Request, HandleDL_PacketRequest, download
<1>3. CASE MenuPacket \/ HandleDL_MenuEnd
    BY <1>3 DEF MenuPacket, HandleDL_MenuDownload, HandleDL_MenuEnd, download
<1>4. CASE Data \/ \E g \in Games : HandleDL_Header(g)
    BY <1>4 DEF Data, HandleDL_Data, HandleDL_Header, AfterCopy
<1>5. CASE \E g \in Games : HandleDL_DataEnd(g)
    <2>1. PICK rom : roms' = Append(roms, rom)
        BY <1>5 DEF HandleDL_DataEnd
    <2>2. roms' # <<>>
        BY <2>1
    <2> QED  BY <2>2
<1>6. CASE UNCHANGED vars
    BY <1>6 DEF vars, download
<1> QED  BY <1>1, <1>2, <1>3, <1>4, <1>5, <1>6 DEF Next

\* The header is the first packet of the game, alone in the buffer.
LEMMA HeaderFirst ==
    ASSUME ClientInv, Following, Buffers, Counters, NEW g \in Games, HandleDL_Header(g)
    PROVE  FirstDownload'
<1> USE DEF HandleDL_Header
<1> SUFFICES ASSUME heard', roms' = <<>>, dlstation_stage' = "DATA"
             PROVE  FirstDownload'
    BY DEF FirstDownload
<1>1. heard /\ roms = <<>> /\ gameID' = g
    <2>1. gameID \in Games
        BY DEF Following
    <2> QED  BY <2>1, TakenIsFollowed
<1> DEFINE n == Size(g, 0)
<1>2. /\ n \in 1 .. P /\ n <= Bytes[g] /\ (0 = Last(g) => n = Bytes[g])
      /\ P \in Nat /\ Bytes[g] \in Nat /\ Last(g) \in Nat /\ Last(g) \in Seqs
    <2>1. 0 \in 0 .. Last(g) /\ Last(g) \in 0 .. Last(g)
        BY Packets
    <2>2. 0 * P = 0
        BY StationConstants
    <2>3. n \in 1 .. P /\ 0 + n <= Bytes[g] /\ (0 = Last(g) => 0 + n = Bytes[g])
        BY <2>1, <2>2, PacketEnds
    <2> QED  BY <2>1, <2>3, Packets, StationConstants
<1>3. \A b \in DOMAIN saved_data' : saved_data'[b] = <<g, b>>
    <2> SUFFICES ASSUME NEW b \in 0 .. n - 1 PROVE Piece(g, 0, b) = <<g, b>>
        OBVIOUS
    <2>1. 0 * P + b = b
        BY <1>2
    <2> QED  BY <2>1 DEF Piece
<1>4. data_sizes' = [s \in Seqs |-> IF s = 0 THEN n ELSE 0] /\ 0 \in Seqs
    BY SeqsType
<1>5. high_seq' = 0 /\ highest_contigous_seq' = 0 /\ high_pos' = n
    BY <1>1 DEF Counters
<1>6. DOMAIN saved_data' = 0 .. n - 1
    OBVIOUS
<1> HIDE DEF n
<1>7. ASSUME NEW s \in Seqs, data_sizes'[s] # 0
      PROVE  /\ s \in 0 .. Last(g) /\ data_sizes'[s] = n /\ s = 0
             /\ s <= high_seq'
             /\ \A i \in 0 .. n - 1 : s * P + i \in DOMAIN saved_data'
    <2>1. s = 0
        BY <1>4, <1>7
    <2>2. 0 * P = 0
        BY <1>2
    <2> QED  BY <1>2, <1>4, <1>5, <1>6, <2>1, <2>2
<1>8. data_sizes'[Last(g)] # 0 => high_pos' = Bytes[g]
    BY <1>2, <1>4, <1>5
<1>9. data_sizes'[0] = Size(g, 0) /\ \A s \in Seqs : data_sizes'[s] # 0 =>
          /\ s \in 0 .. Last(g) /\ data_sizes'[s] = Size(g, s)
          /\ s <= high_seq'
          /\ \A i \in 0 .. Size(g, s) - 1 : s * P + i \in DOMAIN saved_data'
    BY <1>4, <1>7 DEF n
<1>10. \A s \in 1 .. highest_contigous_seq' : data_sizes'[s] # 0
    BY <1>5
<1>11. high_pos' <= Bytes[g]
    BY <1>2, <1>5
<1>12. InPlace(g, data_sizes', saved_data', high_pos', high_seq', highest_contigous_seq')
    BY <1>3, <1>8, <1>9, <1>10, <1>11 DEF InPlace
<1> QED  BY <1>1, <1>12, FirstDownloadNext

\* A packet found for the first time goes to its place, as those missing before it are
\* full like the header; one found again moves nothing.
LEMMA DataFirst ==
    ASSUME ClientInv, Following, Buffers, FirstDownload,
           NEW g \in Games, NEW seq \in 1 .. Last(g), HandleDL_Data(g, seq)
    PROVE  FirstDownload'
<1> USE DEF HandleDL_Data
<1> SUFFICES ASSUME heard', roms' = <<>>, dlstation_stage' = "DATA"
             PROVE  FirstDownload'
    BY DEF FirstDownload
<1>1. heard /\ roms = <<>> /\ gameID = g /\ gameID' = g
    <2>1. gameID \in Games
        BY DEF Following
    <2> QED  BY <2>1, TakenIsFollowed
<1>2. InPlace(g, data_sizes, saved_data, high_pos, high_seq, highest_contigous_seq)
    BY <1>1 DEF FirstDownload
<1> DEFINE n == Size(g, seq)
           place == seq * P
           pos == Position(seq)
<1>3. /\ seq \in Seqs /\ seq \in Nat \ {0} /\ place \in Nat /\ n \in 1 .. P
      /\ P \in Nat \ {0} /\ place + n <= Bytes[g]
      /\ (seq = Last(g) => place + n = Bytes[g])
      /\ Last(g) \in Nat /\ Bytes[g] \in Nat
    <2>1. seq \in 0 .. Last(g) /\ seq \in Nat \ {0}
        BY Packets
    <2> QED  BY <2>1, Packets, PacketEnds
<1>4. data_sizes \in [Seqs -> 0 .. P] /\ high_seq \in Nat /\ highest_contigous_seq \in Nat
      /\ high_pos \in Nat
    BY SeqsType DEF Buffers, Sizes
<1>5. pos \in 0 .. place
    BY <1>4, PlaceAtMost
<1>6. \A s \in Seqs : data_sizes[s] # 0 =>
          /\ s \in 0 .. Last(g) /\ data_sizes[s] = Size(g, s) /\ s <= high_seq
          /\ \A i \in 0 .. Size(g, s) - 1 : s * P + i \in DOMAIN saved_data
    BY <1>2, Zenon DEF InPlace
<1>7. ASSUME data_sizes[seq] = 0 PROVE pos = place
    <2>1. ASSUME NEW s \in 0 .. seq - 1 PROVE s \in Seqs /\ Size(g, s) = P
        <3>1. s \in 0 .. Last(g) /\ s # Last(g)
            BY <1>3
        <3> QED  BY <3>1, PacketEnds
    <2>2. data_sizes[0] = P
        <3>1. data_sizes[0] = Size(g, 0)
            BY <1>2 DEF InPlace
        <3> QED  BY <1>3, <2>1, <3>1
    <2>3. ASSUME NEW s \in 1 .. seq - 1 PROVE data_sizes[s] \in {0, P}
        BY <1>3, <1>6, <2>1
    <2> QED  BY <1>4, <1>7, <2>2, <2>3, PlaceIsStart
<1>8. /\ data_sizes' \in [Seqs -> Int] /\ data_sizes'[seq] = n
      /\ \A s \in Seqs \ {seq} : data_sizes'[s] = data_sizes[s]
    <2>1. CASE data_sizes[seq] = 0
        BY <1>3, <1>4, <2>1
    <2>2. CASE data_sizes[seq] # 0
        BY <1>3, <1>4, <1>6, <2>2
    <2> QED  BY <2>1, <2>2
<1>9. /\ \A b \in DOMAIN saved_data' : saved_data'[b] = <<g, b>>
      /\ DOMAIN saved_data \subseteq DOMAIN saved_data'
      /\ \A i \in 0 .. n - 1 : place + i \in DOMAIN saved_data'
    <2>1. \A b \in DOMAIN saved_data : saved_data[b] = <<g, b>>
        BY <1>2 DEF InPlace
    <2>2. CASE data_sizes[seq] = 0
        <3>1. saved_data' = Copied(g, seq, pos) /\ pos = place
            BY <1>7, <2>2
        <3> DEFINE here == place .. place + n - 1
        <3>2. saved_data' = [b \in DOMAIN saved_data \cup here |->
                                IF b \in here THEN Piece(g, seq, b - place) ELSE saved_data[b]]
            <4>1. saved_data' = Copied(g, seq, place)
                BY <3>1
            <4> QED  BY <4>1 DEF Copied
        <3>3. ASSUME NEW b \in here PROVE Piece(g, seq, b - place) = <<g, b>>
            <4>1. Piece(g, seq, b - place) = <<g, place + (b - place)>>
                BY DEF Piece
            <4> HIDE DEF place
            <4>2. place + (b - place) = b
                BY <1>3
            <4> QED  BY <4>1, <4>2
        <3> HIDE DEF place, n
        <3>4. \A i \in 0 .. n - 1 : place + i \in here
            BY <1>3
        <3> HIDE DEF here
        <3> QED  BY <2>1, <3>2, <3>3, <3>4
    <2>3. CASE data_sizes[seq] # 0
        BY <1>3, <1>6, <2>1, <2>3
    <2> QED  BY <2>2, <2>3
<1>10. high_seq' \in Nat /\ seq <= high_seq' /\ high_seq <= high_seq'
    BY <1>3, <1>4
<1>11. ASSUME NEW s \in Seqs, data_sizes'[s] # 0
       PROVE  /\ s \in 0 .. Last(g) /\ data_sizes'[s] = Size(g, s) /\ s <= high_seq'
              /\ \A i \in 0 .. Size(g, s) - 1 : s * P + i \in DOMAIN saved_data'
    <2>1. CASE s = seq
        BY <1>3, <1>8, <1>9, <1>10, <2>1
    <2>2. CASE s # seq
        <3>1. data_sizes'[s] = data_sizes[s] /\ data_sizes[s] # 0 /\ s \in Nat
            BY <1>8, <1>11, <2>2, SeqsType
        <3>2. s \in 0 .. Last(g) /\ data_sizes[s] = Size(g, s) /\ s <= high_seq
            BY <1>6, <3>1, Zenon
        <3>3. \A i \in 0 .. Size(g, s) - 1 : s * P + i \in DOMAIN saved_data'
            BY <1>6, <1>9, <3>1, Zenon
        <3>4. s <= high_seq'
            BY <1>4, <1>10, <3>1, <3>2
        <3> QED  BY <3>1, <3>2, <3>3, <3>4
    <2> QED  BY <2>1, <2>2
<1>12. \A s \in 1 .. highest_contigous_seq' : data_sizes'[s] # 0
    <2>1. \A s \in Seqs : data_sizes[s] # 0 => data_sizes'[s] # 0
        BY <1>3, <1>8
    <2>2. CASE UNCHANGED highest_contigous_seq
        <3>1. \A s \in 1 .. highest_contigous_seq : s \in Seqs /\ data_sizes[s] # 0
            <4>1. \A s \in 1 .. highest_contigous_seq : s \in Seqs
                BY <1>4, SeqsType DEF Buffers
            <4> QED  BY <1>2, <4>1 DEF InPlace
        <3> QED  BY <2>1, <2>2, <3>1
    <2>3. CASE highest_contigous_seq' = seq /\ Contiguous(seq)
        <3> SUFFICES ASSUME NEW s \in 1 .. seq PROVE data_sizes'[s] # 0
            BY <2>3
        <3>1. s = seq \/ s \in 1 .. seq - 1
            BY <1>3
        <3>2. CASE s = seq
            BY <1>3, <1>8, <3>2
        <3>3. CASE s \in 1 .. seq - 1
            <4>1. s \in Seqs
                BY <1>3, <3>3, SeqsType
            <4> QED  BY <2>1, <2>3, <3>3, <4>1 DEF Contiguous
        <3> QED  BY <3>1, <3>2, <3>3
    <2> QED  BY <2>2, <2>3
<1>13. /\ high_pos' <= Bytes[g]
       /\ data_sizes'[Last(g)] # 0 => high_pos' = Bytes[g]
    <2>1. high_pos' = IF pos + n > high_pos THEN pos + n ELSE high_pos
        BY <1>8
    <2>2. high_pos <= Bytes[g] /\ (data_sizes[Last(g)] # 0 => high_pos = Bytes[g])
        BY <1>2 DEF InPlace
    <2>3. Last(g) \in Seqs
        BY Packets
    <2> HIDE DEF pos, place, n
    <2>4. CASE data_sizes[Last(g)] # 0
        BY <1>3, <1>4, <1>5, <2>1, <2>2, <2>4
    <2>5. CASE data_sizes[Last(g)] = 0 /\ seq = Last(g)
        BY <1>3, <1>4, <1>7, <2>1, <2>2, <2>5
    <2>6. CASE data_sizes[Last(g)] = 0 /\ seq # Last(g)
        BY <1>3, <1>4, <1>5, <1>8, <2>1, <2>2, <2>3, <2>6
    <2> QED  BY <2>4, <2>5, <2>6
<1>14. data_sizes'[0] = Size(g, 0)
    <2>1. data_sizes[0] = Size(g, 0) /\ 0 \in Seqs \ {seq}
        BY <1>2, <1>3, SeqsType DEF InPlace
    <2> QED  BY <1>8, <2>1
<1>15. InPlace(g, data_sizes', saved_data', high_pos', high_seq', highest_contigous_seq')
    BY <1>9, <1>11, <1>12, <1>13, <1>14, Zenon DEF InPlace
<1> QED  BY <1>1, <1>15, FirstDownloadNext

LEMMA StepFirstDownload ==
    ASSUME ClientInv, Following, Buffers, Counters, FirstDownload, [Next]_vars
    PROVE  FirstDownload'
<1>1. CASE /\ UNCHANGED <<download, roms>> /\ (heard' => heard)
           /\ dlstation_stage' = "DATA" => UNCHANGED <<dlstation_stage, gameID>>
    <2>1. UNCHANGED <<data_sizes, saved_data, high_pos, high_seq, highest_contigous_seq>>
        BY <1>1 DEF download
    <2> QED  BY <1>1, <2>1, FirstDownloadNext DEF FirstDownload
<1>2. CASE Associate \/ Leave \/ RequestMenu
    BY <1>1, <1>2 DEF Associate, Leave, RequestMenu, HandleDL_AssocResponse,
        HandleDL_Deauth, HandleDL_MenuRequest
<1>3. CASE Request
    BY <1>1, <1>3 DEF Request, HandleDL_PacketRequest
<1>4. CASE MenuPacket \/ HandleDL_MenuEnd
    BY <1>1, <1>4 DEF MenuPacket, HandleDL_MenuDownload, HandleDL_MenuEnd
<1>5. CASE \E g \in Games : HandleDL_Header(g)
    BY <1>5, HeaderFirst
<1>6. CASE Data
    BY <1>6, DataFirst DEF Data
<1>7. CASE \E g \in Games : HandleDL_DataEnd(g)
    BY <1>7 DEF HandleDL_DataEnd, Reset, FirstDownload
<1>8. CASE UNCHANGED vars
    BY <1>1, <1>8 DEF vars
<1> QED  BY <1>2, <1>3, <1>4, <1>5, <1>6, <1>7, <1>8 DEF Next

\* When a first program is put together no packet of it is missing: its last packet
\* was seen, so high_seq is its number, and all up to highest_contigous_seq are found.
LEMMA FirstEnd ==
    ASSUME ClientInv, Following, Buffers, FirstDownload, NEW g \in Games,
           HandleDL_DataEnd(g), heard', roms = <<>>
    PROVE  Decompresses(gameID, high_pos)
<1> USE DEF HandleDL_DataEnd
<1>1. heard /\ gameID = g /\ data_sizes[Last(g)] # 0
    <2>1. heard /\ gameID \in Games
        BY DEF Following, ClientInv, Types
    <2> QED  BY <2>1, TakenIsFollowed
<1>2. InPlace(g, data_sizes, saved_data, high_pos, high_seq, highest_contigous_seq)
    BY <1>1 DEF FirstDownload
<1>3. \A s \in Seqs : data_sizes[s] # 0 =>
          /\ s \in 0 .. Last(g) /\ data_sizes[s] = Size(g, s) /\ s <= high_seq
          /\ \A i \in 0 .. Size(g, s) - 1 : s * P + i \in DOMAIN saved_data
    BY <1>2, Zenon DEF InPlace
<1>4. Last(g) \in Nat /\ Last(g) \in Seqs /\ P \in Nat \ {0} /\ Bytes[g] \in Nat
      /\ 0 .. Last(g) \subseteq Seqs
    BY Packets, StationConstants
<1>5. highest_contigous_seq \in Nat /\ Last(g) <= highest_contigous_seq
    <2>1. Last(g) <= high_seq
        BY <1>1, <1>3, <1>4
    <2> QED  BY <2>1, SeqsType DEF AllFound, Buffers
<1>6. ASSUME NEW s \in 0 .. Last(g) PROVE data_sizes[s] # 0
    <2>1. CASE s = 0
        <3>1. data_sizes[0] = Size(g, 0) /\ Size(g, 0) \in 1 .. P
            BY <1>2, <2>1, PacketEnds DEF InPlace
        <3> QED  BY <1>4, <2>1, <3>1
    <2>2. CASE s # 0
        <3>1. s \in 1 .. highest_contigous_seq
            BY <1>4, <1>5, <2>2
        <3> QED  BY <1>2, <3>1 DEF InPlace
    <2> QED  BY <2>1, <2>2
<1>7. high_pos = Bytes[g]
    BY <1>1, <1>2 DEF InPlace
<1>8. ASSUME NEW b \in 0 .. Bytes[g] - 1
      PROVE  b \in DOMAIN saved_data /\ saved_data[b] = <<g, b>>
    <2> DEFINE s == b \div P
               i == b % P
    <2>1. s \in Nat /\ i \in 0 .. P - 1 /\ b = s * P + i /\ s * P \in Nat
        <3>1. b \in Nat
            BY <1>4
        <3> QED  BY <1>4, <3>1
    <2> HIDE DEF s, i
    <2>2. s \in 0 .. Last(g)
        <3> SUFFICES ASSUME Last(g) + 1 <= s PROVE FALSE
            BY <1>4, <2>1
        <3>1. (Last(g) + 1) * P <= s * P /\ (Last(g) + 1) * P \in Int
            BY <1>4, <2>1, MulMonotone
        <3>2. (Last(g) + 1) * P = Last(g) * P + P /\ Last(g) * P \in Int
            <4>1. Last(g) \in Int /\ P \in Int
                BY <1>4
            <4> QED  BY <4>1, OneMore
        <3>3. Bytes[g] <= Last(g) * P + P
            BY Packets
        <3> DEFINE x == s * P
                   y == Last(g) * P
        <3>4. x \in Nat /\ y \in Int /\ y + P <= x /\ Bytes[g] <= y + P /\ b = x + i
            BY <2>1, <3>1, <3>2, <3>3
        <3> HIDE DEF x, y
        <3> QED  BY <1>4, <2>1, <3>4
    <2>3. i \in 0 .. Size(g, s) - 1
        <3>1. /\ Size(g, s) \in 1 .. P /\ (s # Last(g) => Size(g, s) = P)
              /\ (s = Last(g) => s * P + Size(g, s) = Bytes[g])
            BY <2>2, PacketEnds
        <3> DEFINE x == s * P
        <3>2. /\ x \in Nat /\ b = x + i
              /\ (s = Last(g) => x + Size(g, s) = Bytes[g])
            BY <2>1, <3>1
        <3> HIDE DEF x
        <3> QED  BY <1>4, <2>1, <3>1, <3>2
    <2>4. s * P + i \in DOMAIN saved_data
        BY <1>3, <1>4, <1>6, <2>2, <2>3
    <2>5. b \in DOMAIN saved_data
        BY <2>1, <2>4
    <2> QED  BY <1>2, <2>5 DEF InPlace
<1> QED  BY <1>1, <1>7, <1>8 DEF Decompresses

\* Later programs do not change the first, and what was not heard stays unheard.
LEMMA StepFirstIsWhole ==
    ASSUME ClientInv, Following, Buffers, FirstDownload, FirstIsWhole, [Next]_vars
    PROVE  FirstIsWhole'
<1> USE DEF FirstIsWhole
<1>1. CASE UNCHANGED roms /\ (heard' => heard)
    BY <1>1
<1>2. CASE Associate \/ Leave \/ RequestMenu \/ Request
    BY <1>1, <1>2 DEF Associate, Leave, RequestMenu, Request, HandleDL_AssocResponse,
        HandleDL_Deauth, HandleDL_MenuRequest, HandleDL_PacketRequest
<1>3. CASE MenuPacket \/ HandleDL_MenuEnd
    BY <1>1, <1>3 DEF MenuPacket, HandleDL_MenuDownload, HandleDL_MenuEnd
<1>4. CASE Data \/ \E g \in Games : HandleDL_Header(g)
    BY <1>1, <1>4 DEF Data, HandleDL_Data, HandleDL_Header
<1>5. ASSUME NEW g \in Games, HandleDL_DataEnd(g), heard'
      PROVE  roms'[1].whole
    <2>1. PICK rom : /\ rom = [game |-> gameID, whole |-> Decompresses(gameID, high_pos)]
                     /\ roms' = Append(roms, rom)
        BY <1>5 DEF HandleDL_DataEnd
    <2>2. heard /\ roms \in Seq([game : Games, whole : BOOLEAN])
        BY <1>5 DEF HandleDL_DataEnd, ClientInv, Types
    <2>3. CASE roms = <<>>
        <3>1. Decompresses(gameID, high_pos)
            BY <1>5, <2>3, FirstEnd
        <3>2. rom.whole
            BY <2>1, <3>1, Zenon
        <3>3. roms'[1] = rom
            BY <2>1, <2>3
        <3> QED  BY <3>2, <3>3
    <2>4. CASE roms # <<>>
        <3>1. roms[1].whole
            BY <2>2, <2>4
        <3>2. roms'[1] = roms[1]
            BY <2>1, <2>2, <2>4
        <3> QED  BY <3>1, <3>2
    <2> QED  BY <2>3, <2>4
<1>6. CASE UNCHANGED vars
    BY <1>1, <1>6 DEF vars
<1> QED  BY <1>2, <1>3, <1>4, <1>5, <1>6 DEF Next

FirstInv == Buffers /\ Counters /\ FirstDownload /\ FirstIsWhole

LEMMA InitFirst == Init => FirstInv
<1> SUFFICES ASSUME Init PROVE FirstInv
    OBVIOUS
<1>1. Counters /\ FirstDownload /\ FirstIsWhole
    BY DEF Init, Counters, FirstDownload, FirstIsWhole
<1> QED  BY <1>1, InitBuffers DEF FirstInv

\* The first program of a capture that was heard is the one sent: with packets missed,
\* repeated and out of order, for games and packets of any size.
THEOREM FirstWhole == Spec => []FirstIsWhole
<1>1. StationInv /\ FirstInv /\ [Next]_vars => FirstInv'
    BY StepBuffers, StepCounters, StepFirstDownload, StepFirstIsWhole DEF StationInv, FirstInv
<1>2. FirstInv => FirstIsWhole
    BY DEF FirstInv
<1> QED  BY InitFirst, StationInvariant, <1>1, <1>2, PTL DEF Spec
=============================================================================
