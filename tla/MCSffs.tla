------------------------------- MODULE MCSffs -------------------------------
(* Small instances of Sffs for TLC. *)
EXTENDS Sffs

\* Every way to start the program on a full image (-v says nothing with -h),
\* and a -s and a -u start.
MCAllOptions ==
    {o \in OptionRecords :
        /\ o.dev # "image" => o.suclus = -2 /\ o.round_robin = -1 /\ ~o.h
        /\ o.h => ~o.v /\ o.round_robin = -1
        /\ o.round_robin # -1 => o.suclus = -2}
=============================================================================
