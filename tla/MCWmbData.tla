----------------------------- MODULE MCWmbData -----------------------------
(* Small instances of WmbData for TLC. *)
EXTENDS WmbData

Host(arm9, arm7) == [arm9 |-> arm9, arm7 |-> arm7, short |-> FALSE]
ShortHost(arm9, arm7) == [arm9 |-> arm9, arm7 |-> arm7, short |-> TRUE]

\* Binaries that fill their packets and binaries that do not, of one packet and
\* of several, and hosts with short headers.
SteadyHosts == {Host(a, b) : a \in {4, 8, 10}, b \in {4, 6, 7, 8, 11}}
               \cup {Host(3, b) : b \in {4, 8}}
               \cup {ShortHost(a, b) : a \in {6, 8}, b \in {2, 4, 6}}

\* The same sizes and more for captures in any order.
AnyHosts == {Host(a, b) : a \in {3, 4, 7, 8, 10, 12}, b \in {4, 7, 8, 11, 12}}
=============================================================================
