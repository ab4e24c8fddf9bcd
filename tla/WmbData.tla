------------------------------ MODULE WmbData ------------------------------
(***************************************************************************)
(* The WMB plugin of wmb_asm from the header frame of a transfer on:       *)
(* WMBProcessHeader, WMBProcessData and the assembly HandlePacket starts   *)
(* when the plugin sets trigger_assembly.  The frames come from a capture: *)
(* any of them may be missing, repeated or out of order.                   *)
(*                                                                         *)
(* A byte of the program is represented by its offset in it; the ARM7      *)
(* binary follows the ARM9 binary, as it does in saved_data.               *)
(***************************************************************************)
EXTENDS Integers, FiniteSets, Sums

CONSTANTS
    P,      \* 490: bytes in a data packet
    Q,      \* 250: the same for hosts with short headers
    R,      \* 102: what such a header lacks, sent as packet 1
    Hosts,  \* transfers: sizes of the binaries, and whether the header is short
    Steady  \* captures keep to SizesKnown and TailNotLast

ASSUME WmbDataConstants ==
    /\ R \in Nat \ {0} /\ Q \in Nat /\ P \in Nat
    /\ R < Q /\ Q < P
    /\ Hosts \subseteq [arm9 : Nat \ {0}, arm7 : Nat \ {0}, short : BOOLEAN]
    /\ Steady \in BOOLEAN

VARIABLES
    host,         \* the transfer; its sizes are in the header
    stage,        \* wmb_stage: "header" or "data", and "assembled" at the end
    data_init,
    last_seq,     \* last_seq is not zero
    pkt_size,
    data_sizes, saved_data,
    arm7s, arm7e, arm7e_seq,
    stored,       \* history: packets copied to saved_data
    rom,          \* the program written
    wild          \* a buffer was indexed out of range

vars == <<host, stage, data_init, last_seq, pkt_size, data_sizes, saved_data,
          arm7s, arm7e, arm7e_seq, stored, rom, wild>>

-----------------------------------------------------------------------------
(* The host: each binary is cut into packets of its own, the last of which *)
(* may be shorter.                                                          *)

Blocks(bytes, size) == (bytes + size - 1) \div size
BlockOf(h) == IF h.short THEN Q ELSE P
Packets9(h) == Blocks(h.arm9, BlockOf(h))
Packets(h) == 1 .. Packets9(h) + Blocks(h.arm7, BlockOf(h))
Total(h) == h.arm9 + h.arm7

Start(h, k) ==
    IF k <= Packets9(h) THEN (k - 1) * BlockOf(h)
                        ELSE h.arm9 + (k - Packets9(h) - 1) * BlockOf(h)
Size(h, k) ==
    LET end == IF k <= Packets9(h) THEN h.arm9 ELSE Total(h)
        rest == end - Start(h, k)
    IN  IF rest < BlockOf(h) THEN rest ELSE BlockOf(h)

\* Packet k has the sequence number k, one more behind the rest of a short
\* header (packet 0 here).
Frames(h) ==
    {[pkt |-> k, seq |-> IF h.short THEN k + 1 ELSE k, size |-> Size(h, k),
      start |-> Start(h, k)] : k \in Packets(h)}
    \cup {[pkt |-> 0, seq |-> 1, size |-> R, start |-> 0] : x \in {y \in {0} : h.short}}

Bytes(h) == 0 .. Total(h) - 1
Seqs(h) == 0 .. Cardinality(Packets(h))

NoRom == [arm9 |-> <<>>, arm7 |-> <<>>]
\* The program as it was sent: the two binaries.
Program(h) == [arm9 |-> [b \in 0 .. h.arm9 - 1 |-> b],
               arm7 |-> [b \in 0 .. h.arm7 - 1 |-> h.arm9 + b]]

-----------------------------------------------------------------------------

Init ==
    /\ host \in Hosts
    /\ stage = "header"
    /\ data_init = FALSE /\ last_seq = FALSE
    /\ pkt_size = 0
    /\ data_sizes = [i \in Seqs(host) |-> 0]
    /\ saved_data = [b \in Bytes(host) |-> -1]
    /\ arm7s = 0 /\ arm7e = 0 /\ arm7e_seq = 0
    /\ stored = {}
    /\ rom = NoRom
    /\ wild = FALSE

\* Mutant: the short last packet of the ARM9 binary is not counted.
LastSeqFloor(h) == h.arm9 \div P + h.arm7 \div P
\* arm7e_seq as WMBProcessHeader computes it from the sizes in the header.
LastSeq(h) == Blocks(h.arm9, P) + h.arm7 \div P

\* The header of a transfer that was not assembled before.  The 802.11
\* sequence number of the frame may be zero.
WMBProcessHeader(fh_zero) ==
    /\ stage = "header"
    /\ stage' = "data"
    /\ last_seq' = ~fh_zero
    /\ arm7e_seq' = LastSeq(host)
    /\ UNCHANGED <<host, data_init, pkt_size, data_sizes, saved_data, arm7s, arm7e,
                   stored, rom, wild>>

-----------------------------------------------------------------------------
(* WMBProcessData *)

\* Mutant: missing packets take no room.
PositionOfFound(sizes, seq, pkt) == SumTo(sizes, seq - 1)
\* The room packets take: a whole packet for each one missing.
Taken(sizes, pkt) == [i \in DOMAIN sizes |-> IF sizes[i] = 0 THEN pkt ELSE sizes[i]]
\* Mutant: the packet itself is counted.
PositionBehind(sizes, seq, pkt) == SumTo(Taken(sizes, pkt), seq)
\* Where packet seq goes: behind those before it.
Position(sizes, seq, pkt) == SumTo(Taken(sizes, pkt), seq - 1)

\* Mutant: arm7s is where the packet ends.
ClippedNever(pos, bound) == pos
Clipped(pos, bound) == IF pos > bound THEN bound ELSE pos

\* What AssembleNds writes of saved_data.
AssembleNds(saved, s, e) ==
    [arm9 |-> [b \in 0 .. s - 1 |-> saved[b]],
     arm7 |-> [b \in 0 .. e - s - 1 |-> saved[s + b]]]

\* The packet is copied to saved_data; if none is missing the program is
\* assembled and the plugin reset.
Store(f, seq, sizes, pkt) ==
    LET pos   == Position(sizes, seq, pkt)
        end   == pos + f.size
        found9 == end >= host.arm9 /\ arm7s = 0
        cur   == IF found9 THEN Clipped(end, host.arm9) ELSE end
        found7 == cur >= Total(host) /\ arm7e = 0
    IN  /\ data_sizes' = [sizes EXCEPT ![seq - 1] = f.size]
        /\ saved_data' = [b \in Bytes(host) |->
                            IF b \in pos .. end - 1 THEN f.start + b - pos ELSE saved_data[b]]
        /\ stored' = stored \cup {f.pkt}
        /\ wild' = (end > Total(host))
        /\ arm7s' = IF found9 THEN cur ELSE arm7s
        /\ arm7e_seq' = IF found7 THEN seq - 1 ELSE arm7e_seq
        /\ IF arm7e_seq' # 0 /\ \A i \in 0 .. arm7e_seq' - 1 : data_sizes'[i] # 0
           THEN /\ arm7e' = Total(host)
                /\ rom' = AssembleNds(saved_data', arm7s', arm7e')
                /\ stage' = "assembled"
           ELSE /\ arm7e' = IF found7 THEN Total(host) ELSE arm7e
                /\ UNCHANGED <<rom, stage>>

\* A data frame behind the sequence number filter.  A frame of R bytes is
\* taken to be the rest of a short header, wherever it comes.
ProcessFrame(f) ==
    LET short == IF f.size = R THEN Q ELSE pkt_size
        seq   == IF short = Q THEN f.seq - 1 ELSE f.seq
        pkt   == IF seq = 1 THEN f.size ELSE short
        sizes == IF f.size = R THEN [data_sizes EXCEPT ![seq - 1] = 1] ELSE data_sizes
        kept  == <<saved_data, arm7s, arm7e, arm7e_seq, stored, rom, stage>>
    IN  \/ /\ seq = 0 /\ f.size = R
           /\ pkt_size' = short
           /\ UNCHANGED <<data_sizes, wild>> /\ UNCHANGED kept
        \/ /\ seq = 0 /\ f.size # R
           /\ wild' = TRUE
           /\ UNCHANGED <<pkt_size, data_sizes>> /\ UNCHANGED kept
        \/ /\ seq # 0
           /\ pkt_size' = pkt
           /\ IF sizes[seq - 1] # 0 /\ arm7e = 0
              THEN /\ data_sizes' = sizes
                   /\ UNCHANGED wild /\ UNCHANGED kept
              ELSE Store(f, seq, sizes, pkt)

\* The packets before f that are still missing are as large as packet 1, which
\* has been found, so that the place computed for f is the right one.  The rest
\* of a short header comes before everything else.
SizesKnown(f) ==
    LET sizes == {Size(host, k) : k \in {j \in Packets(host) : j < f.pkt} \ stored}
    IN  /\ 1 \in stored \/ f.pkt <= 1
        /\ sizes \subseteq {Size(host, 1)}
        /\ host.short /\ f.pkt # 0 => pkt_size = Q

\* The packets the header makes the plugin wait for are not complete before the
\* others are.
TailNotLast(f) ==
    LET found  == stored \cup {f.pkt}
        waited == (host.arm9 + P - 1) \div P + host.arm7 \div P
    IN  1 .. waited \subseteq found => Packets(host) \subseteq found

\* 802.11 sequence numbers of a frame: zero, two above last_seq, or another.
FhSeq == {"zero", "next", "other"}

\* A data frame of the host.  Only while data_init was not set before the frame
\* is its 802.11 sequence number compared.
WMBProcessData(f, fh_seq) ==
    /\ stage = "data" /\ ~wild
    /\ Steady => SizesKnown(f) /\ TailNotLast(f)
    /\ data_init' = TRUE
    /\ UNCHANGED host
    /\ IF last_seq /\ fh_seq # "next" /\ ~data_init
       THEN UNCHANGED <<stage, last_seq, pkt_size, data_sizes, saved_data, arm7s, arm7e,
                        arm7e_seq, stored, rom, wild>>
       ELSE /\ last_seq' = (fh_seq # "zero")
            /\ ProcessFrame(f)

\* Any other frame, a repeated header among them: only Init() runs.
OtherFrame ==
    /\ stage = "data" /\ ~wild
    /\ data_init' = TRUE
    /\ UNCHANGED <<host, stage, last_seq, pkt_size, data_sizes, saved_data, arm7s, arm7e,
                   arm7e_seq, stored, rom, wild>>

Next ==
    \/ \E zero \in BOOLEAN : WMBProcessHeader(zero)
    \/ \E f \in Frames(host), fh_seq \in FhSeq : WMBProcessData(f, fh_seq)
    \/ OtherFrame

\* The host repeats the header and every data packet until its clients have
\* them, and the capture goes on until each has been seen.
HostFrames == UNION {Frames(h) : h \in Hosts}
Fairness ==
    /\ WF_vars(\E zero \in BOOLEAN : WMBProcessHeader(zero))
    /\ \A f \in HostFrames :
          WF_vars(f \in Frames(host) /\ \E fh_seq \in FhSeq : WMBProcessData(f, fh_seq))

Spec == Init /\ [][Next]_vars
FairSpec == Spec /\ Fairness

-----------------------------------------------------------------------------
(* Properties *)

\* The buffers and marks stay what the assembly takes them to be: arm7s is the
\* end of the ARM9 binary or not known yet, arm7e the end of both.
TypeOK ==
    /\ host \in Hosts
    /\ stage \in {"header", "data", "assembled"}
    /\ data_init \in BOOLEAN /\ last_seq \in BOOLEAN /\ wild \in BOOLEAN
    /\ pkt_size \in 0 .. P
    /\ data_sizes \in [Seqs(host) -> 0 .. P]
    /\ saved_data \in [Bytes(host) -> Bytes(host) \cup {-1}]
    /\ arm7s \in {0, host.arm9}
    /\ arm7e \in {0, Total(host)}
    /\ arm7e_seq \in Seqs(host)
    /\ stored \subseteq Packets(host)

\* No frame looks like one of a host with a short header.
Plain(h) ==
    /\ ~h.short
    /\ Size(h, 1) # Q
    /\ \A k \in Packets(h) : Size(h, k) # R

\* In whatever order a capture has the packets, none is copied to a place outside
\* saved_data, if the ARM9 binary fills its packets.
InBounds == Plain(host) /\ host.arm9 % P = 0 => ~wild

\* From a steady capture no byte of saved_data ever holds anything but the byte
\* of the program that belongs there: hosts with short headers included, the
\* sizes found so far and pkt_size give every packet its place.
PlacedRight == TypeOK /\ \A b \in Bytes(host) : saved_data[b] \in {-1, b}

\* "If we missed any packets, don't begin assembly": whatever the order, the
\* program is only written when every packet has been found, if the ARM7
\* binary fills its packets.
MissedNone == Plain(host) /\ host.arm7 % P = 0 /\ rom # NoRom => stored = Packets(host)

\* From a steady capture the program is written when every packet has been
\* found, not before, and is byte for byte the one sent, whatever was
\* missing, repeated or out of order; and it is written at last if the host
\* goes on repeating.
Promise == INSTANCE Download WITH seen <- stored, Parts <- Packets
ImplementsDownload == Promise!Spec
=============================================================================
