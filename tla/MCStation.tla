----------------------------- MODULE MCStation -----------------------------
(* Small instances of Station for TLC. *)
EXTENDS Station

\* Two packets behind the header for one game and one for the other, the last
\* ones shorter.
TwoSizes == [g \in Games |-> IF g = 0 THEN 5 ELSE 3]
=============================================================================
