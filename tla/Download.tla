------------------------------ MODULE Download ------------------------------
(***************************************************************************)
(* What a user of wmb_asm expects of the capture of one transfer: once     *)
(* every part of it has been captured, in any order and however often, the *)
(* program is written, and it is the program that was sent.  Nothing is    *)
(* written before.                                                         *)
(***************************************************************************)

CONSTANTS
    Hosts,       \* transfers
    Parts(_),    \* the packets of a transfer
    Program(_),  \* the program a transfer carries
    NoRom        \* nothing written yet

VARIABLES host, seen, rom

vars == <<host, seen, rom>>

Init == host \in Hosts /\ seen = {} /\ rom = NoRom

\* A part is captured that was missing so far.
Capture(k) ==
    /\ rom = NoRom
    /\ k \in Parts(host) \ seen
    /\ seen' = seen \cup {k}
    /\ rom' = IF seen' = Parts(host) THEN Program(host) ELSE NoRom
    /\ UNCHANGED host

Next == \E k \in Parts(host) : Capture(k)

Spec == Init /\ [][Next]_vars /\ WF_vars(Next)
=============================================================================
