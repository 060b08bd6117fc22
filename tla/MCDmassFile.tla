----------------------------- MODULE MCDmassFile -----------------------------
(***************************************************************************)
(* Instances of DmassFile for TLC: blocks of two bytes, a file of up to    *)
(* two blocks and one byte.                                                *)
(***************************************************************************)
EXTENDS DmassFile, TLC

Symmetry == Permutations(Fd) \cup Permutations(Vnode)

=============================================================================
