------------------------------- MODULE MCVff -------------------------------
(* Small instances of Vff for TLC. *)
EXTENDS Vff, TLC

CONSTANTS dl, mbx, wc24dl, wc24recv

MCNameOf == dl :> wc24dl @@ mbx :> wc24recv
Symmetry == Permutations(Fds) \cup Permutations(Addresses) \cup Permutations(Paths)
=============================================================================
