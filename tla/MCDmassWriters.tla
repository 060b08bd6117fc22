---------------------------- MODULE MCDmassWriters ----------------------------
(***************************************************************************)
(* Instances of DmassWriters for TLC: three callers on two vnodes, blocks  *)
(* of two bytes, a file that grows twice.                                  *)
(***************************************************************************)
EXTENDS DmassWriters, TLC

Symmetry == Permutations(Block) \cup Permutations(Vnode) \cup Permutations(Thread)

=============================================================================
