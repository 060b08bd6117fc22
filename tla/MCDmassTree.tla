----------------------------- MODULE MCDmassTree -----------------------------
(***************************************************************************)
(* Instances of DmassTree for TLC.  Cells, vnodes and file objects are     *)
(* interchangeable; the paths are two names in the root and one directory  *)
(* below it.                                                               *)
(***************************************************************************)
EXTENDS DmassTree, TLC

CONSTANTS md, a, b

MCName == {md, a, b}
MCPath == {<<md, a>>, <<md, b>>, <<md, a, b>>}
MCDeepPath == MCPath \cup {<<md, b, a>>}

Symmetry == Permutations(Entry) \cup Permutations(Vnode) \cup Permutations(File)

=============================================================================
