--------------------------- MODULE DmassTree_proofs ---------------------------
(***************************************************************************)
(* What holds of the tree of the RAM file system for any number of cells,  *)
(* vnodes and file objects.                                                *)
(*                                                                         *)
(* The inductive invariant IInv leaves the shape of the lists out: the     *)
(* counter of an entry, the control objects on it and the pointers between *)
(* entries and vnodes depend on which entry a handler picks, not on how it *)
(* found it.  The second invariant, TreeInv, is about the shape: some set  *)
(* of allocated entries is closed under the links, and at most one link    *)
(* leads to each of its entries.  That the walks of the lists, of a path   *)
(* and of the tree stay in that set is shown by induction on their length. *)
(*                                                                         *)
(* The action properties compare the tree before and after a step.  For    *)
(* them the bounded walks are shown to be exact: a list and the tree are   *)
(* the least sets that hold their start and are closed under the links     *)
(* (WalksRight), so that one side is within the other as soon as it is     *)
(* within a set closed under the links of that side.                       *)
(***************************************************************************)
EXTENDS DmassTree, FiniteSetTheorems, TLAPS

IInv == TypeOK /\ ReferCountsObjects /\ ObjectsOwned /\ BackPointerFresh

-----------------------------------------------------------------------------
(* Lemmas *)

\* The base name of a path is a name.
LEMMA LeafType ==
    ASSUME NEW path \in Path
    PROVE  Leaf(path) \in Name
  BY DmassAssumption DEF Leaf

\* The names of the results.
LEMMA RetType == "OK" \in Ret /\ "ERR" \in Ret
  BY DEF Ret

\* A handler that stores nothing keeps the invariant, whatever it returns.
LEMMA QuietStep ==
    ASSUME IInv, UNCHANGED <<treeVars, ctlVars, nodeVars>>,
           panicked' \in BOOLEAN, ret' \in Ret
    PROVE  IInv'
  BY DEF IInv, TypeOK, ReferCountsObjects, ObjectsOwned, BackPointerFresh,
         treeVars, ctlVars, nodeVars

LEMMA RefuseStep ==
    ASSUME IInv, Refuse
    PROVE  IInv'
  BY QuietStep, RetType DEF Refuse, Return

LEMMA PanicStep ==
    ASSUME IInv, Panic
    PROVE  IInv'
  <1>1. ret \in Ret
    BY DEF IInv, TypeOK
  <1> QED
    BY <1>1, QuietStep DEF Panic

LEMMA StutterStep ==
    ASSUME IInv, UNCHANGED vars
    PROVE  IInv'
  <1>1. ret \in Ret /\ panicked \in BOOLEAN
    BY DEF IInv, TypeOK
  <1> QED
    BY <1>1, QuietStep DEF vars, treeVars, ctlVars, nodeVars

\* Unlinking keeps the links in their type.
LEMMA UnlinkType ==
    ASSUME TypeOK, NEW p \in Entry, NEW e \in Entry
    PROVE  /\ NextAfterUnlink(p, e) \in [Entry -> EntryOrNull]
           /\ NextDirAfterUnlink(p, e) \in [Entry -> EntryOrNull]
  BY DEF TypeOK, NextAfterUnlink, NextDirAfterUnlink, EntryOrNull

-----------------------------------------------------------------------------
(* The handlers of the tree *)

\* A fresh cell with no object on it, bound to a fresh vnode or to none.
LEMMA CreateStep ==
    ASSUME IInv, NEW e \in Entry, NEW p \in EntryOrNull, NEW m \in Mode,
           NEW n \in Name, CreateInfo(e, p, m, n),
           pTree' \in EntryOrNull, UNCHANGED <<current, fnode>>,
           panicked' \in BOOLEAN, ret' \in Ret,
           \/ \E v \in Vnode : NewVnode(v) /\ BindVnode(e, v)
           \/ /\ pNode' = [pNode EXCEPT ![e] = NULL]
              /\ UNCHANGED <<dev_info, used, dead>>
    PROVE  IInv'
  <1> USE DEF IInv
  <1>1. TypeOK'
    <2>1. /\ live' \subseteq Entry
          /\ mode' \in [Entry -> Mode]
          /\ name' \in [Entry -> Name \cup {NULL}]
          /\ next' \in [Entry -> EntryOrNull]
          /\ next_dir' \in [Entry -> EntryOrNull]
          /\ pDmassFsX' \in [Entry -> SUBSET File]
          /\ refer' \in [Entry -> Nat]
      BY DEF TypeOK, CreateInfo, EntryOrNull
    <2>2. /\ pNode' \in [Entry -> VnodeOrNull]
          /\ dev_info' \in [Vnode -> EntryOrNull]
          /\ used' \subseteq Vnode
          /\ dead' \subseteq used'
      BY DEF TypeOK, BindVnode, EntryOrNull, VnodeOrNull
    <2> QED
      BY <2>1, <2>2 DEF TypeOK
  <1>2. ReferCountsObjects'
    BY FS_EmptySet DEF TypeOK, ReferCountsObjects, CreateInfo
  <1>3. ObjectsOwned'
    BY DEF TypeOK, ObjectsOwned, CreateInfo, BindVnode, NewVnode
  <1>4. BackPointerFresh'
    BY DmassAssumption
       DEF TypeOK, BackPointerFresh, CreateInfo, BindVnode, NewVnode
  <1> QED
    BY <1>1, <1>2, <1>3, <1>4

LEMMA SetRootStep ==
    ASSUME IInv, NEW e \in Entry, NEW v \in Vnode, vfs_set_root(e, v)
    PROVE  IInv'
  <1>1. CASE Refuse
    BY <1>1, RefuseStep
  <1>2. CASE /\ NewVnode(v)
             /\ CreateInfo(e, NULL, "dir", RootName)
             /\ pTree' = e
             /\ BindVnode(e, v)
             /\ UNCHANGED <<current, fnode>>
             /\ Return("OK")
    BY <1>2, CreateStep, RetType, DmassAssumption
       DEF Return, Mode, EntryOrNull
  <1> QED
    BY <1>1, <1>2 DEF vfs_set_root

LEMMA LinkNewEntryStep ==
    ASSUME IInv, NEW d \in Entry, NEW m \in Mode, NEW n \in Name,
           LinkNewEntry(d, m, n)
    PROVE  IInv'
  <1>1. CASE Refuse
    BY <1>1, RefuseStep
  <1>2. CASE ~Refuse
    <2>1. PICK e \in Entry :
             /\ CreateInfo(e, d, m, n)
             /\ \/ \E v \in Vnode : NewVnode(v) /\ BindVnode(e, v) /\ Return("OK")
                \/ /\ pNode' = [pNode EXCEPT ![e] = NULL]
                   /\ UNCHANGED <<dev_info, used, dead>>
                   /\ Return("ERR")
      BY <1>2 DEF LinkNewEntry
    <2>2. UNCHANGED <<pTree, current, fnode>>
      BY <1>2 DEF LinkNewEntry
    <2>3. pTree' \in EntryOrNull
      BY <2>2 DEF IInv, TypeOK
    <2>4. panicked' \in BOOLEAN /\ ret' \in Ret
      BY <2>1, RetType DEF Return
    <2> QED
      BY <2>1, <2>2, <2>3, <2>4, CreateStep DEF EntryOrNull
  <1> QED
    BY <1>1, <1>2

LEMMA MakeEntryStep ==
    ASSUME IInv, NEW d \in Entry, NEW m \in Mode, NEW path \in Path,
           MakeEntry(d, m, path)
    PROVE  IInv'
  BY RefuseStep, PanicStep, LinkNewEntryStep, LeafType DEF MakeEntry

\* The vnode a handler is given for a directory leads to an entry.
LEMMA DirVnodeType ==
    ASSUME IInv, NEW dv \in Vnode, NEW path \in Path, DirVnode(dv, path)
    PROVE  dev_info[dv] \in Entry
  BY DEF IInv, TypeOK, DirVnode, EntryOrNull

LEMMA CreateMkdirStep ==
    ASSUME IInv, NEW dv \in Vnode, NEW path \in Path,
           vop_create(dv, path) \/ vop_mkdir(dv, path)
    PROVE  IInv'
  <1>1. dev_info[dv] \in Entry
    BY DirVnodeType DEF vop_create, vop_mkdir
  <1>2. CASE vop_create(dv, path)
    BY <1>1, <1>2, MakeEntryStep DEF vop_create, Mode
  <1>3. CASE vop_mkdir(dv, path)
    BY <1>1, <1>3, MakeEntryStep, RefuseStep DEF vop_mkdir, Mode
  <1> QED
    BY <1>2, <1>3

\* An entry that goes has no object on it, so no open file loses its entry;
\* its back pointer no longer matters.
LEMMA UnlinkAndDeleteStep ==
    ASSUME IInv, NEW e \in Entry, NEW d \in Entry, UnlinkAndDelete(e, d)
    PROVE  IInv'
  <1>1. CASE Refuse
    BY <1>1, RefuseStep
  <1>2. CASE /\ next' = NextAfterUnlink(d, e)
             /\ next_dir' = NextDirAfterUnlink(d, e)
             /\ delete_dmass_info(e)
             /\ UNCHANGED <<pTree, mode, ctlVars, pNode, dev_info, used>>
    <2>1. /\ next' \in [Entry -> EntryOrNull]
          /\ next_dir' \in [Entry -> EntryOrNull]
      BY <1>2, UnlinkType DEF IInv
    <2>2. /\ live' \subseteq live
          /\ name' \in [Entry -> Name \cup {NULL}]
          /\ dead' \subseteq used
          /\ panicked' \in BOOLEAN
          /\ ret' \in Ret
      BY <1>2, RetType DEF IInv, TypeOK, delete_dmass_info, Return
    <2>3. TypeOK'
      BY <1>2, <2>1, <2>2 DEF IInv, TypeOK, ctlVars
    <2>4. ReferCountsObjects' /\ ObjectsOwned'
      BY <1>2 DEF IInv, ReferCountsObjects, ObjectsOwned, ctlVars
    <2>5. BackPointerFresh'
      BY <1>2, <2>2 DEF IInv, BackPointerFresh
    <2> QED
      BY <2>3, <2>4, <2>5 DEF IInv
  <1> QED
    BY <1>1, <1>2 DEF UnlinkAndDelete

LEMMA RemoveStep ==
    ASSUME IInv, NEW dv \in Vnode, NEW path \in Path,
           vop_remove(dv, path) \/ vop_rmdir(dv, path)
    PROVE  IInv'
  <1>1. dev_info[dv] \in Entry
    BY DirVnodeType DEF vop_remove, vop_rmdir
  <1> QED
    BY <1>1, UnlinkAndDeleteStep, RefuseStep, PanicStep
       DEF vop_remove, vop_rmdir

\* The vnode bound by a move or by a lookup is fresh, so nothing pointed at it.
LEMMA BindStep ==
    ASSUME IInv, NEW e \in Entry, NEW v \in Vnode, NewVnode(v), BindVnode(e, v)
    PROVE  /\ pNode' \in [Entry -> VnodeOrNull]
           /\ dev_info' \in [Vnode -> EntryOrNull]
           /\ used' \subseteq Vnode
           /\ dead' \subseteq used'
           /\ UNCHANGED <<pDmassFsX, fnode>> => ObjectsOwned'
           /\ live' = live => BackPointerFresh'
  <1>1. /\ pNode' \in [Entry -> VnodeOrNull]
        /\ dev_info' \in [Vnode -> EntryOrNull]
        /\ used' \subseteq Vnode
        /\ dead' \subseteq used'
    BY DEF IInv, TypeOK, BindVnode, EntryOrNull, VnodeOrNull
  <1>2. ASSUME UNCHANGED <<pDmassFsX, fnode>>
        PROVE  ObjectsOwned'
    BY <1>2 DEF IInv, TypeOK, ObjectsOwned, BindVnode, NewVnode
  <1>3. ASSUME live' = live
        PROVE  BackPointerFresh'
    BY <1>3 DEF IInv, TypeOK, BackPointerFresh, BindVnode, NewVnode
  <1> QED
    BY <1>1, <1>2, <1>3

LEMMA MoveEntryStep ==
    ASSUME IInv, NEW e \in Entry, NEW d \in Entry, NEW nd \in Entry,
           NEW n \in Name, MoveEntry(e, d, nd, n)
    PROVE  IInv'
  <1>1. CASE Refuse
    BY <1>1, RefuseStep
  <1>2. CASE Panic
    BY <1>2, PanicStep
  <1>3. CASE ~Refuse /\ ~Panic
    <2> DEFINE heads == NextDirAfterUnlink(d, e)
               nexts == NextAfterUnlink(d, e)
    <2>1. PICK v \in Vnode :
             /\ NewVnode(v)
             /\ next' = [nexts EXCEPT ![e] = heads[nd]]
             /\ next_dir' = [heads EXCEPT ![nd] = e]
             /\ \E nm \in {n, NULL} : name' = [name EXCEPT ![e] = nm]
             /\ BindVnode(e, v)
             /\ UNCHANGED <<pTree, live, mode, ctlVars>>
             /\ Return("OK")
      BY <1>3 DEF MoveEntry
    <2>2. /\ nexts \in [Entry -> EntryOrNull]
          /\ heads \in [Entry -> EntryOrNull]
      BY UnlinkType DEF IInv
    <2> HIDE DEF heads, nexts
    <2>3. /\ next' \in [Entry -> EntryOrNull]
          /\ next_dir' \in [Entry -> EntryOrNull]
          /\ name' \in [Entry -> Name \cup {NULL}]
      BY <2>1, <2>2 DEF IInv, TypeOK, EntryOrNull
    <2>4. /\ pNode' \in [Entry -> VnodeOrNull]
          /\ dev_info' \in [Vnode -> EntryOrNull]
          /\ used' \subseteq Vnode
          /\ dead' \subseteq used'
          /\ ObjectsOwned'
          /\ BackPointerFresh'
      BY <2>1, BindStep DEF ctlVars
    <2>5. TypeOK'
      BY <2>1, <2>3, <2>4, RetType DEF IInv, TypeOK, ctlVars, Return
    <2>6. ReferCountsObjects'
      BY <2>1 DEF IInv, ReferCountsObjects, ctlVars
    <2> QED
      BY <2>4, <2>5, <2>6 DEF IInv
  <1> QED
    BY <1>1, <1>2, <1>3

LEMMA RenameStep ==
    ASSUME IInv, NEW dv \in Vnode, NEW ndv \in Vnode, NEW path \in Path,
           NEW newPath \in Path, vop_rename(dv, path, ndv, newPath)
    PROVE  IInv'
  <1>1. dev_info[dv] \in Entry /\ dev_info[ndv] \in Entry
    BY DirVnodeType DEF vop_rename
  <1> QED
    BY <1>1, MoveEntryStep, RefuseStep, PanicStep, LeafType DEF vop_rename

LEMMA LookupStep ==
    ASSUME IInv, NEW path \in Path, NEW v \in Vnode, vop_part_init(path, v)
    PROVE  IInv'
  <1>1. CASE Refuse
    BY <1>1, RefuseStep
  <1>2. CASE Panic
    BY <1>2, PanicStep
  <1>3. CASE \E e \in Entry :
                /\ NewVnode(v)
                /\ BindVnode(e, v)
                /\ UNCHANGED <<treeVars, ctlVars>>
                /\ Return("OK")
    <2>1. PICK e \in Entry : NewVnode(v) /\ BindVnode(e, v)
      BY <1>3
    <2>2. /\ pNode' \in [Entry -> VnodeOrNull]
          /\ dev_info' \in [Vnode -> EntryOrNull]
          /\ used' \subseteq Vnode
          /\ dead' \subseteq used'
          /\ ObjectsOwned'
          /\ BackPointerFresh'
      BY <1>3, <2>1, BindStep DEF treeVars, ctlVars
    <2>3. TypeOK' /\ ReferCountsObjects'
      BY <1>3, <2>2, RetType
         DEF IInv, TypeOK, ReferCountsObjects, treeVars, ctlVars, Return
    <2> QED
      BY <2>2, <2>3 DEF IInv
  <1> QED
    BY <1>1, <1>2, <1>3 DEF vop_part_init

-----------------------------------------------------------------------------
(* The handlers of file objects and vnodes *)

\* The control objects of an entry are finitely many.
LEMMA ObjectsFinite ==
    ASSUME TypeOK, NEW e \in Entry
    PROVE  /\ IsFiniteSet(pDmassFsX[e])
           /\ Cardinality(pDmassFsX[e]) \in Nat
  <1>1. pDmassFsX[e] \in SUBSET File
    BY DEF TypeOK
  <1>2. IsFiniteSet(File)
    BY DmassAssumption
  <1> QED
    BY <1>1, <1>2, FS_Subset, FS_CardinalityType

\* A file object that is not open has no control object yet, so the counter
\* grows by one and by one object.
LEMMA OpenStep ==
    ASSUME IInv, NEW v \in Vnode, NEW f \in File, NEW c \in EntryOrNull,
           Opens(v, f), OpenObject(v, f, c)
    PROVE  IInv'
  <1>1. CASE Refuse
    BY <1>1, RefuseStep
  <1>2. CASE /\ dev_info[v] # NULL
             /\ create_dmass_ctl_data(dev_info[v], f)
             /\ current' = [current EXCEPT ![f] = c]
             /\ fnode' = [fnode EXCEPT ![f] = v]
             /\ UNCHANGED <<treeVars, nodeVars>>
             /\ Return("OK")
    <2> DEFINE e == dev_info[v]
    <2>1. e \in Entry /\ f \notin pDmassFsX[e]
      BY <1>2 DEF IInv, TypeOK, ObjectsOwned, Opens, EntryOrNull
    <2>2. Cardinality(pDmassFsX[e] \cup {f}) = refer[e] + 1
      <3>1. IsFiniteSet(pDmassFsX[e])
        BY <2>1, ObjectsFinite DEF IInv
      <3>2. Cardinality(pDmassFsX[e] \cup {f}) = Cardinality(pDmassFsX[e]) + 1
        BY <2>1, <3>1, FS_AddElement
      <3> QED
        BY <2>1, <3>2 DEF IInv, ReferCountsObjects
    <2>3. TypeOK'
      <3>1. /\ pDmassFsX' \in [Entry -> SUBSET File]
            /\ refer' \in [Entry -> Nat]
            /\ current' \in [File -> EntryOrNull]
            /\ fnode' \in [File -> VnodeOrNull]
        BY <1>2, <2>1 DEF IInv, TypeOK, create_dmass_ctl_data, VnodeOrNull
      <3>2. panicked' \in BOOLEAN /\ ret' \in Ret
        BY <1>2, RetType DEF Return
      <3> QED
        BY <1>2, <3>1, <3>2 DEF IInv, TypeOK, treeVars, nodeVars
    <2>4. ReferCountsObjects'
      BY <1>2, <2>1, <2>2
         DEF IInv, TypeOK, ReferCountsObjects, create_dmass_ctl_data
    <2>5. ObjectsOwned'
      BY <1>2, <2>1, DmassAssumption
         DEF IInv, TypeOK, ObjectsOwned, create_dmass_ctl_data, nodeVars, Opens
    <2>6. BackPointerFresh'
      BY <1>2 DEF IInv, BackPointerFresh, treeVars, nodeVars
    <2> QED
      BY <2>3, <2>4, <2>5, <2>6 DEF IInv
  <1> QED
    BY <1>1, <1>2 DEF OpenObject

LEMMA OpenHandlersStep ==
    ASSUME IInv, NEW v \in Vnode, NEW f \in File,
           vop_open(v, f) \/ vop_dopen(v, f)
    PROVE  IInv'
  <1>1. NULL \in EntryOrNull
    BY DEF EntryOrNull
  <1>2. (IF dev_info[v] = NULL THEN NULL ELSE next_dir[dev_info[v]]) \in EntryOrNull
    BY DEF IInv, TypeOK, EntryOrNull
  <1> QED
    BY <1>1, <1>2, OpenStep DEF vop_open, vop_dopen

LEMMA CloseStep ==
    ASSUME IInv, NEW f \in File, CloseObject(f)
    PROVE  IInv'
  <1> DEFINE e == dev_info[fnode[f]]
  <1>1. /\ fnode[f] \in Vnode
        /\ e \in EntryOrNull
    BY DEF IInv, TypeOK, CloseObject, VnodeOrNull
  <1>2. /\ fnode' = [fnode EXCEPT ![f] = NULL]
        /\ current' = [current EXCEPT ![f] = NULL]
        /\ UNCHANGED <<treeVars, nodeVars>>
    BY DEF CloseObject
  <1>3. BackPointerFresh'
    BY <1>2 DEF IInv, BackPointerFresh, treeVars, nodeVars
  <1>4. CASE /\ e # NULL
             /\ f \in pDmassFsX[e]
             /\ delete_dmass_ctl_data(e, f)
             /\ Return("OK")
    <2>1. e \in Entry
      BY <1>1, <1>4 DEF EntryOrNull
    <2>2. /\ Cardinality(pDmassFsX[e] \ {f}) = refer[e] - 1
          /\ refer[e] - 1 \in Nat
      <3>1. IsFiniteSet(pDmassFsX[e]) /\ refer[e] = Cardinality(pDmassFsX[e])
        BY <2>1, ObjectsFinite DEF IInv, ReferCountsObjects
      <3>2. Cardinality(pDmassFsX[e] \ {f}) = Cardinality(pDmassFsX[e]) - 1
        BY <1>4, <3>1, FS_RemoveElement
      <3>3. Cardinality(pDmassFsX[e] \ {f}) \in Nat
        BY <3>1, FS_RemoveElement, FS_CardinalityType
      <3> QED
        BY <3>1, <3>2, <3>3
    <2>3. TypeOK'
      BY <1>2, <1>4, <2>1, <2>2, RetType
         DEF IInv, TypeOK, delete_dmass_ctl_data, treeVars, nodeVars, Return,
             EntryOrNull, VnodeOrNull
    <2>4. ReferCountsObjects'
      BY <1>4, <2>1, <2>2
         DEF IInv, TypeOK, ReferCountsObjects, delete_dmass_ctl_data
    <2>5. ObjectsOwned'
      BY <1>2, <1>4, <2>1
         DEF IInv, TypeOK, ObjectsOwned, delete_dmass_ctl_data, nodeVars
    <2> QED
      BY <1>3, <2>3, <2>4, <2>5 DEF IInv
  <1>5. CASE /\ e # NULL => f \notin pDmassFsX[e]
             /\ UNCHANGED <<pDmassFsX, refer>>
             /\ Return("ERR")
    <2>1. \A x \in Entry : f \notin pDmassFsX[x]
      BY <1>5, DmassAssumption DEF IInv, TypeOK, ObjectsOwned
    <2>2. TypeOK' /\ ReferCountsObjects'
      BY <1>2, <1>5, RetType
         DEF IInv, TypeOK, ReferCountsObjects, treeVars, nodeVars, Return,
             EntryOrNull, VnodeOrNull
    <2>3. ObjectsOwned'
      BY <1>2, <1>5, <2>1 DEF IInv, TypeOK, ObjectsOwned, nodeVars
    <2> QED
      BY <1>3, <2>2, <2>3 DEF IInv
  <1> QED
    BY <1>4, <1>5 DEF CloseObject

LEMMA DreadStep ==
    ASSUME IInv, NEW f \in File, vop_dread(f)
    PROVE  IInv'
  <1>1. CASE Refuse
    BY <1>1, RefuseStep
  <1>2. CASE Panic
    BY <1>2, PanicStep
  <1>3. CASE Return("OK") /\ UNCHANGED <<treeVars, ctlVars, nodeVars>>
    BY <1>3, QuietStep, RetType DEF Return
  <1>4. CASE /\ current[f] # NULL
             /\ current' = [current EXCEPT ![f] = next[current[f]]]
             /\ UNCHANGED <<pDmassFsX, refer, fnode, treeVars, nodeVars>>
             /\ Return("OK")
    <2>1. next[current[f]] \in EntryOrNull
      BY <1>4 DEF IInv, TypeOK, EntryOrNull
    <2>2. TypeOK'
      BY <1>4, <2>1, RetType DEF IInv, TypeOK, treeVars, nodeVars, Return
    <2>3. ReferCountsObjects' /\ ObjectsOwned' /\ BackPointerFresh'
      BY <1>4
         DEF IInv, ReferCountsObjects, ObjectsOwned, BackPointerFresh,
             treeVars, nodeVars
    <2> QED
      BY <2>2, <2>3 DEF IInv
  <1> QED
    BY <1>1, <1>2, <1>3, <1>4 DEF vop_dread

\* No file is open on the vnode that goes, and the one entry that may point
\* at it is the one it leads to.
LEMMA InactiveStep ==
    ASSUME IInv, NEW v \in Vnode, vop_inactive(v)
    PROVE  IInv'
  <1>1. TypeOK'
    BY RetType
       DEF IInv, TypeOK, vop_inactive, treeVars, ctlVars, Return, EntryOrNull,
           VnodeOrNull
  <1>2. ReferCountsObjects'
    BY DEF IInv, ReferCountsObjects, vop_inactive, ctlVars
  <1>3. ObjectsOwned'
    BY DEF IInv, TypeOK, ObjectsOwned, vop_inactive, ctlVars
  <1>4. BackPointerFresh'
    BY DEF IInv, TypeOK, BackPointerFresh, vop_inactive, treeVars, ctlVars
  <1> QED
    BY <1>1, <1>2, <1>3, <1>4 DEF IInv

-----------------------------------------------------------------------------
(* Theorems *)

\* The invariant holds when nothing is mounted.
LEMMA InitIInv == Init => IInv
  <1> SUFFICES ASSUME Init
               PROVE  IInv
    OBVIOUS
  <1>1. TypeOK
    BY DEF Init, TypeOK, Mode, Ret, EntryOrNull, VnodeOrNull
  <1>2. ReferCountsObjects
    BY FS_EmptySet DEF Init, ReferCountsObjects
  <1>3. ObjectsOwned /\ BackPointerFresh
    BY DEF Init, ObjectsOwned, BackPointerFresh
  <1> QED
    BY <1>1, <1>2, <1>3 DEF IInv

\* Every handler keeps it.
LEMMA NextIInv == IInv /\ [Next]_vars => IInv'
  <1> SUFFICES ASSUME IInv, [Next]_vars
               PROVE  IInv'
    OBVIOUS
  <1>1. CASE Next
    BY <1>1, SetRootStep, LookupStep, CreateMkdirStep, RemoveStep, RenameStep,
       OpenHandlersStep, CloseStep, DreadStep, InactiveStep, StutterStep
       DEF Next, Halted, vop_close, vop_dclose
  <1>2. CASE UNCHANGED vars
    BY <1>2, StutterStep
  <1> QED
    BY <1>1, <1>2

\* The tree, its counters and its back pointers, in every reachable state.
THEOREM Invariance == Spec => []IInv
  BY InitIInv, NextIInv, PTL DEF Spec

\* No handler stores a value outside the type of its field; in particular the
\* unsigned reference counter is never taken below zero.
THEOREM TypeCorrect == Spec => []TypeOK
  <1>1. IInv => TypeOK
    BY DEF IInv
  <1> QED
    BY Invariance, <1>1, PTL

\* The reference counter of an entry equals the number of its control
\* objects, for any number of opens and closes through any vnodes.
THEOREM ReferExact == Spec => []ReferCountsObjects
  <1>1. IInv => ReferCountsObjects
    BY DEF IInv
  <1> QED
    BY Invariance, <1>1, PTL

\* A control object hangs on the entry that the vnode of its file leads to.
THEOREM ObjectsStayOwned == Spec => []ObjectsOwned
  <1>1. IInv => ObjectsOwned
    BY DEF IInv
  <1> QED
    BY Invariance, <1>1, PTL

\* The vnode an entry points back at is in use and leads to the entry, however
\* often lookups and renames rebind it and the layer retires old vnodes.
THEOREM BackPointersFresh == Spec => []BackPointerFresh
  <1>1. IInv => BackPointerFresh
    BY DEF IInv
  <1> QED
    BY Invariance, <1>1, PTL

-----------------------------------------------------------------------------
(* Walks *)

\* Induction over the naturals, for a set S: an interval from zero to a number
\* outside S would hold a smaller one, and strict inclusion is well founded.
LEMMA NatSetInduction ==
    ASSUME NEW S, 0 \in S, \A n \in Nat : n \in S => n + 1 \in S
    PROVE  \A n \in Nat : n \in S
  <1> SUFFICES ASSUME NEW m \in Nat, m \notin S
               PROVE  FALSE
    OBVIOUS
  <1> DEFINE F == {X \in SUBSET Nat : \E k \in Nat : k \notin S /\ X = 0..k}
  <1>1. 0..m \in F
    BY DEF F
  <1>2. F \subseteq FiniteSubsetsOf(Nat) /\ F # {}
    <2>1. ASSUME NEW X \in F PROVE IsFiniteSet(X)
      <3>1. PICK k \in Nat : X = 0..k
        OBVIOUS
      <3> QED
        BY <3>1, FS_Interval
    <2> QED
      BY <1>1, <2>1 DEF FiniteSubsetsOf
  <1>3. PICK X \in F : \A Y \in F : ~(<<Y, X>> \in StrictSubsetOrdering(Nat))
    <2> HIDE DEF F
    <2> QED
      BY <1>2, FS_StrictSubsetOrderingWellFounded, WFMin
  <1>4. PICK k \in Nat : k \notin S /\ X = 0..k
    BY <1>3
  <1>5. k # 0 /\ k - 1 \in Nat
    BY <1>4
  <1>6. k - 1 \notin S
    BY <1>4, <1>5
  <1>7. 0..(k - 1) \in F
    BY <1>5, <1>6
  <1>8. 0..(k - 1) \subseteq X /\ 0..(k - 1) # X
    <2>1. k \in X /\ k \notin 0..(k - 1)
      BY <1>4, <1>5
    <2> QED
      BY <1>4, <1>5, <2>1
  <1>9. <<0..(k - 1), X>> \in StrictSubsetOrdering(Nat)
    BY <1>8, <1>7, <1>3 DEF StrictSubsetOrdering
  <1> QED
    BY <1>3, <1>7, <1>9

\* The bound of every walk is a number.
LEMMA EntriesCount == Cardinality(Entry) \in Nat
  BY FS_CardinalityType, DmassAssumption

\* A set of positions of a walk has a first one.
LEMMA LeastStop ==
    ASSUME NEW stop, stop \subseteq 0..Cardinality(Entry), stop # {}
    PROVE  \E m \in stop : \A j \in stop : m <= j
  <1> DEFINE S == {m \in Nat : \A j \in stop : m <= j}
  <1>1. 0 \in S
    BY EntriesCount
  <1> SUFFICES ASSUME \A m \in stop : \E j \in stop : ~(m <= j)
               PROVE  FALSE
    OBVIOUS
  <1>2. ASSUME NEW m \in Nat, m \in S PROVE m + 1 \in S
    <2>1. m \notin stop
      BY <1>2
    <2>2. \A j \in stop : j \in Nat
      BY EntriesCount
    <2> QED
      BY <1>2, <2>1, <2>2
  <1>3. PICK k \in stop : TRUE
    OBVIOUS
  <1>5. k \in Nat /\ k + 1 \in Nat
    BY EntriesCount
  <1>4. k + 1 \in S
    <2> HIDE DEF S
    <2> QED
      BY <1>1, <1>2, <1>5, NatSetInduction
  <1> QED
    BY <1>4, <1>5

\* The walk of a list is what its recursive definition says.
LEMMA ChainIs ==
    ASSUME NEW head
    PROVE  /\ Chain(head)[0] = head
           /\ \A i \in 1..Cardinality(Entry) :
                 Chain(head)[i] = IF Chain(head)[i - 1] = NULL THEN NULL
                                  ELSE next[Chain(head)[i - 1]]
  <1> DEFINE N == Cardinality(Entry)
             Body(f, i) == IF i = 0 THEN head
                           ELSE LET c == f[i - 1] IN IF c = NULL THEN NULL ELSE next[c]
             S == {n \in Nat : \E f : f = [i \in 0..n |-> Body(f, i)]}
  <1>1. 0 \in S
    <2> DEFINE f == [i \in 0..0 |-> head]
    <2>1. f = [i \in 0..0 |-> Body(f, i)]
      OBVIOUS
    <2> QED
      BY <2>1
  <1>2. ASSUME NEW n \in Nat, n \in S
        PROVE  n + 1 \in S
    <2>1. PICK f : f = [i \in 0..n |-> Body(f, i)]
      BY <1>2
    <2> DEFINE g == [i \in 0..(n + 1) |-> IF i = n + 1 THEN Body(f, n + 1) ELSE f[i]]
    <2>2. \A i \in 0..(n + 1) : g[i] = Body(g, i)
      <3> SUFFICES ASSUME NEW i \in 0..(n + 1)
                   PROVE  g[i] = Body(g, i)
        OBVIOUS
      <3>1. i # 0 => /\ i - 1 \in 0..n /\ i - 1 \in 0..(n + 1) /\ i - 1 # n + 1
                     /\ g[i - 1] = f[i - 1]
        OBVIOUS
      <3>2. g[i] = Body(f, i)
        BY <2>1
      <3> HIDE DEF g
      <3> QED
        BY <3>1, <3>2
    <2>3. g = [i \in 0..(n + 1) |-> Body(g, i)]
      BY <2>2
    <2> HIDE DEF g
    <2>4. \E f1 : f1 = [i \in 0..(n + 1) |-> Body(f1, i)]
      <3> HIDE DEF Body
      <3> QED
        BY <2>3
    <2> QED
      BY <2>4
  <1>3. N \in S
    <2>1. N \in Nat
      BY EntriesCount
    <2> HIDE DEF S, N
    <2> QED
      BY <1>1, <1>2, <2>1, NatSetInduction
  <1> DEFINE cell == CHOOSE f : f = [i \in 0..N |-> Body(f, i)]
  <1>4. cell = [i \in 0..N |-> Body(cell, i)]
    BY <1>3
  <1>5. Chain(head) = cell
    BY DEF Chain
  <1>6. 0 \in 0..N /\ \A i \in 1..N : i \in 0..N /\ i # 0
    BY EntriesCount
  <1> HIDE DEF cell
  <1> QED
    BY <1>4, <1>5, <1>6

\* T is a set of entries that the links of the tree do not leave, and in which
\* at most one link leads to an entry and none to the root.
Shape(T) ==
    /\ T \subseteq live
    /\ pTree # NULL => pTree \in T
    /\ \A c \in T : next[c] \in T \cup {NULL} /\ next_dir[c] \in T \cup {NULL}
    /\ \A c \in T : mode[c] = "reg" => next_dir[c] = NULL
    /\ \A c, d \in T : /\ next[c] = next[d] /\ next[c] # NULL => c = d
                       /\ next_dir[c] = next_dir[d] /\ next_dir[c] # NULL => c = d
                       /\ next[c] # NULL => next[c] # next_dir[d]
    /\ pTree # NULL => \A c \in T : next[c] # pTree /\ next_dir[c] # pTree

\* A walk that starts in the tree stays in it.
LEMMA ChainStays ==
    ASSUME TypeOK, NEW T, Shape(T), NEW head \in T \cup {NULL}
    PROVE  \A i \in 0..Cardinality(Entry) : Chain(head)[i] \in T \cup {NULL}
  <1> DEFINE N == Cardinality(Entry)
             S == {i \in Nat : i <= N => Chain(head)[i] \in T \cup {NULL}}
  <1>1. 0 \in S
    BY ChainIs
  <1>2. ASSUME NEW n \in Nat, n \in S
        PROVE  n + 1 \in S
    <2> SUFFICES ASSUME n + 1 <= N
                 PROVE  Chain(head)[n + 1] \in T \cup {NULL}
      OBVIOUS
    <2>1. n + 1 \in 1..N /\ (n + 1) - 1 = n /\ n <= N
      BY EntriesCount
    <2>2. Chain(head)[n] \in T \cup {NULL}
      BY <1>2, <2>1
    <2>3. Chain(head)[n + 1] = IF Chain(head)[n] = NULL THEN NULL ELSE next[Chain(head)[n]]
      BY <2>1, ChainIs
    <2> QED
      BY <2>2, <2>3 DEF Shape
  <1>3. \A n \in Nat : n \in S
    <2> HIDE DEF S
    <2> QED
      BY <1>1, <1>2, NatSetInduction
  <1> QED
    BY <1>3, EntriesCount

LEMMA ListStays ==
    ASSUME TypeOK, NEW T, Shape(T), NEW head \in T \cup {NULL}
    PROVE  ListCells(head) \subseteq T
  BY ChainStays DEF ListCells

\* The first entry of a list is where it starts; to any other leads the next
\* of one in the list.
LEMMA ListLeadsTo ==
    ASSUME NEW head, NEW e \in ListCells(head)
    PROVE  e # NULL /\ (e = head \/ \E c \in ListCells(head) : next[c] = e)
  <1>1. PICK i \in 0..Cardinality(Entry) : e = Chain(head)[i] /\ e # NULL
    BY DEF ListCells
  <1>2. CASE i = 0
    BY <1>1, <1>2, ChainIs
  <1>3. CASE i # 0
    <2>1. i \in 1..Cardinality(Entry) /\ i - 1 \in 0..Cardinality(Entry)
      BY <1>3, EntriesCount
    <2>2. Chain(head)[i - 1] # NULL /\ e = next[Chain(head)[i - 1]]
      BY <1>1, <2>1, ChainIs
    <2>3. Chain(head)[i - 1] \in ListCells(head)
      BY <2>1, <2>2 DEF ListCells
    <2> QED
      BY <1>1, <2>2, <2>3
  <1> QED
    BY <1>2, <1>3

\* What the search for a name finds: nothing, if every entry of the list has
\* another name; an entry of that name; or an entry without a name.
LEMMA FindIs ==
    ASSUME NEW head, NEW n
    PROVE  \/ FindInList(head, n) = NULL /\ \A c \in ListCells(head) : name[c] \notin {n, NULL}
           \/ FindInList(head, n) = Fault /\ \E c \in ListCells(head) : name[c] = NULL
           \/ FindInList(head, n) \in ListCells(head) /\ name[FindInList(head, n)] = n
  <1> DEFINE cell == Chain(head)
             stop == {i \in 0..Cardinality(Entry) : cell[i] # NULL /\ name[cell[i]] \in {n, NULL}}
             i == CHOOSE i \in stop : \A j \in stop : i <= j
  <1>1. CASE stop = {}
    <2>1. FindInList(head, n) = NULL
      BY <1>1 DEF FindInList
    <2>2. \A c \in ListCells(head) : name[c] \notin {n, NULL}
      BY <1>1 DEF ListCells
    <2> QED
      BY <2>1, <2>2
  <1>2. CASE stop # {}
    <2>1. FindInList(head, n) = IF name[cell[i]] = n THEN cell[i] ELSE Fault
      BY <1>2 DEF FindInList
    <2>2. \E m \in stop : \A j \in stop : m <= j
      BY <1>2, LeastStop
    <2>3. i \in stop
      BY <2>2
    <2>4. cell[i] \in ListCells(head) /\ name[cell[i]] \in {n, NULL}
      BY <2>3 DEF ListCells
    <2> HIDE DEF i, cell, stop
    <2> QED
      BY <2>1, <2>4
  <1> QED
    BY <1>1, <1>2

LEMMA FindStays ==
    ASSUME TypeOK, NEW T, Shape(T), NEW head \in T \cup {NULL}, NEW n
    PROVE  FindInList(head, n) \in T \cup {NULL, Fault}
  BY FindIs, ListStays

\* The walk of a path is what its recursive definition says.
LEMMA PathWalkIs ==
    ASSUME NEW path, Len(path) \in Nat \ {0}
    PROVE  \E at : /\ get_fs_entry(path) = at[Len(path)]
                   /\ at[1] = FindInList(pTree, path[1])
                   /\ \A k \in 2..Len(path) :
                         at[k] = IF at[k - 1] \in {NULL, Fault} THEN at[k - 1]
                                 ELSE FindInList(next_dir[at[k - 1]], path[k])
  <1> DEFINE N == Len(path)
             Body(f, k) == IF k = 1 THEN FindInList(pTree, path[1])
                           ELSE LET d == f[k - 1]
                                IN  IF d \in {NULL, Fault} THEN d
                                    ELSE FindInList(next_dir[d], path[k])
             S == {n \in Nat : \E f : f = [k \in 1..n |-> Body(f, k)]}
  <1>1. 0 \in S
    <2> DEFINE f == [k \in 1..0 |-> NULL]
    <2>1. f = [k \in 1..0 |-> Body(f, k)]
      OBVIOUS
    <2> HIDE DEF f
    <2>2. \E f1 : f1 = [k \in 1..0 |-> Body(f1, k)]
      <3> HIDE DEF Body
      <3> QED
        BY <2>1
    <2> QED
      BY <2>2
  <1>2. ASSUME NEW n \in Nat, n \in S
        PROVE  n + 1 \in S
    <2>1. PICK f : f = [k \in 1..n |-> Body(f, k)]
      BY <1>2
    <2> DEFINE g == [k \in 1..(n + 1) |-> IF k = n + 1 THEN Body(f, n + 1) ELSE f[k]]
    <2>2. \A k \in 1..(n + 1) : g[k] = Body(g, k)
      <3> SUFFICES ASSUME NEW k \in 1..(n + 1)
                   PROVE  g[k] = Body(g, k)
        OBVIOUS
      <3>1. k # 1 => /\ k - 1 \in 1..n /\ k - 1 \in 1..(n + 1) /\ k - 1 # n + 1
                     /\ g[k - 1] = f[k - 1]
        OBVIOUS
      <3>2. g[k] = Body(f, k)
        <4> HIDE DEF Body
        <4>1. k # n + 1 => k \in 1..n
          OBVIOUS
        <4>2. k # n + 1 => f[k] = Body(f, k)
          BY <2>1, <4>1
        <4> QED
          BY <4>2
      <3>3. k # 1 => Body(g, k) = Body(f, k)
        BY <3>1
      <3>4. k = 1 => Body(g, k) = Body(f, k)
        OBVIOUS
      <3> HIDE DEF g, Body
      <3> QED
        BY <3>2, <3>3, <3>4
    <2>3. g = [k \in 1..(n + 1) |-> Body(g, k)]
      <3> HIDE DEF Body
      <3> QED
        BY <2>2
    <2> HIDE DEF g
    <2>4. \E f1 : f1 = [k \in 1..(n + 1) |-> Body(f1, k)]
      <3> HIDE DEF Body
      <3> QED
        BY <2>3
    <2> QED
      BY <2>4
  <1>3. N \in S
    <2>1. N \in Nat
      OBVIOUS
    <2> HIDE DEF S, N
    <2> QED
      BY <1>1, <1>2, <2>1, NatSetInduction
  <1> DEFINE at == CHOOSE f : f = [k \in 1..N |-> Body(f, k)]
  <1>4. at = [k \in 1..N |-> Body(at, k)]
    <2>1. \E f : f = [k \in 1..N |-> Body(f, k)]
      BY <1>3
    <2> HIDE DEF Body, N
    <2> QED
      BY <2>1
  <1>5. get_fs_entry(path) = at[N]
    BY DEF get_fs_entry
  <1>6. 1 \in 1..N /\ \A k \in 2..N : k \in 1..N /\ k # 1
    OBVIOUS
  <1>7. at[1] = Body(at, 1) /\ \A k \in 2..N : at[k] = Body(at, k)
    <2> HIDE DEF at, Body
    <2> QED
      BY <1>4, <1>6
  <1> HIDE DEF at
  <1>8. \A k \in 2..N : Body(at, k) = IF at[k - 1] \in {NULL, Fault} THEN at[k - 1]
                                      ELSE FindInList(next_dir[at[k - 1]], path[k])
    BY <1>6
  <1>9. \A k \in 2..N : at[k] = IF at[k - 1] \in {NULL, Fault} THEN at[k - 1]
                                ELSE FindInList(next_dir[at[k - 1]], path[k])
    <2> HIDE DEF Body
    <2> QED
      BY <1>7, <1>8
  <1>10. at[1] = FindInList(pTree, path[1])
    BY <1>7
  <1> HIDE DEF Body
  <1> QED
    BY <1>5, <1>9, <1>10

\* What a path leads to is in the tree.
LEMMA PathStays ==
    ASSUME TypeOK, NEW T, Shape(T), NEW path, Len(path) \in Nat \ {0}
    PROVE  get_fs_entry(path) \in T \cup {NULL, Fault}
  <1>1. PICK at : /\ get_fs_entry(path) = at[Len(path)]
                  /\ at[1] = FindInList(pTree, path[1])
                  /\ \A k \in 2..Len(path) :
                        at[k] = IF at[k - 1] \in {NULL, Fault} THEN at[k - 1]
                                ELSE FindInList(next_dir[at[k - 1]], path[k])
    BY PathWalkIs
  <1> DEFINE S == {n \in Nat : n + 1 <= Len(path) => at[n + 1] \in T \cup {NULL, Fault}}
  <1>2. 0 \in S
    <2>1. pTree \in T \cup {NULL}
      BY DEF Shape
    <2> QED
      BY <1>1, <2>1, FindStays
  <1>3. ASSUME NEW n \in Nat, n \in S
        PROVE  n + 1 \in S
    <2> SUFFICES ASSUME (n + 1) + 1 <= Len(path)
                 PROVE  at[(n + 1) + 1] \in T \cup {NULL, Fault}
      OBVIOUS
    <2>1. (n + 1) + 1 \in 2..Len(path) /\ ((n + 1) + 1) - 1 = n + 1 /\ n + 1 <= Len(path)
      OBVIOUS
    <2>2. at[n + 1] \in T \cup {NULL, Fault}
      BY <1>3, <2>1
    <2>3. at[(n + 1) + 1] = IF at[n + 1] \in {NULL, Fault} THEN at[n + 1]
                            ELSE FindInList(next_dir[at[n + 1]], path[(n + 1) + 1])
      BY <1>1, <2>1
    <2>4. at[n + 1] \in T => next_dir[at[n + 1]] \in T \cup {NULL}
      BY DEF Shape
    <2> QED
      BY <2>2, <2>3, <2>4, FindStays
  <1>4. \A n \in Nat : n \in S
    <2> HIDE DEF S
    <2> QED
      BY <1>2, <1>3, NatSetInduction
  <1>5. Len(path) - 1 \in Nat /\ (Len(path) - 1) + 1 = Len(path)
    OBVIOUS
  <1>6. at[(Len(path) - 1) + 1] \in T \cup {NULL, Fault}
    BY <1>4, <1>5
  <1> HIDE DEF S
  <1> QED
    BY <1>1, <1>5, <1>6

-----------------------------------------------------------------------------
(* The shape of the tree *)

\* The vnodes that the layer may use lead to entries that are not freed.
NodesLive == \A v \in used \ dead : dev_info[v] \in live

\* An open file is on such a vnode, and its entry knows of it.
FilesKnown ==
    \A f \in File : fnode[f] # NULL =>
        fnode[f] \in used \ dead /\ f \in pDmassFsX[dev_info[fnode[f]]]

TreeInv == (\E T : Shape(T)) /\ NodesLive /\ FilesKnown

\* What a handler is given for a directory is in the tree.
LEMMA DirStays ==
    ASSUME TypeOK, NEW T, Shape(T), NEW dv \in Vnode, NEW path \in Path, DirVnode(dv, path)
    PROVE  dev_info[dv] \in T
  <1>1. path \in Seq(Name) /\ Len(path) \in Nat /\ Len(path) >= 2
    BY DmassAssumption
  <1>2. dev_info[dv] \in Entry /\ dev_info[dv] \notin {NULL, Fault}
    BY DmassAssumption DEF DirVnode, TypeOK, EntryOrNull
  <1>3. CASE Len(path) = 2
    BY <1>2, <1>3 DEF DirVnode, Shape
  <1>4. CASE Len(path) # 2
    <2>1. Len(Parent(path)) \in Nat \ {0}
      <3>1. Len(SubSeq(path, 1, Len(path) - 1)) = Len(path) - 1
        BY <1>1
      <3> QED
        BY <1>1, <3>1 DEF Parent
    <2>2. dev_info[dv] = get_fs_entry(Parent(path))
      BY <1>4 DEF DirVnode
    <2> QED
      BY <1>2, <2>1, <2>2, PathStays
  <1> QED
    BY <1>3, <1>4

\* The entry a path of the caller leads to is in the tree.
LEMMA EntryStays ==
    ASSUME TypeOK, NEW T, Shape(T), NEW path \in Path, NEW e \in Entry, get_fs_entry(path) = e
    PROVE  e \in T
  <1>1. Len(path) \in Nat \ {0}
    BY DmassAssumption
  <1> QED
    BY <1>1, PathStays, DmassAssumption

LEMMA TreeQuiet ==
    ASSUME TreeInv, UNCHANGED <<treeVars, nodeVars, pDmassFsX, fnode>>
    PROVE  TreeInv'
  BY DEF TreeInv, Shape, NodesLive, FilesKnown, treeVars, nodeVars

LEMMA TreeRefuse == ASSUME TreeInv, Refuse \/ Panic PROVE TreeInv'
  BY TreeQuiet DEF Refuse, Panic, ctlVars

\* A fresh cell joins the tree at the head of a directory, or is the root.
LEMMA CreateShape ==
    ASSUME TypeOK, NEW T, Shape(T), NEW e \in Entry, NEW p, NEW m, NEW n,
           CreateInfo(e, p, m, n),
           \/ p \in T /\ mode[p] # "reg" /\ pTree' = pTree
           \/ p = NULL /\ T = {} /\ pTree' = e
    PROVE  Shape(T \cup {e})'
  <1> USE DmassAssumption DEF CreateInfo
  <1>1. e \notin T /\ T \subseteq Entry /\ NULL \notin T
    BY DEF Shape, TypeOK
  <1>2. /\ next'[e] = IF p = NULL THEN NULL ELSE next_dir[p]
        /\ next_dir'[e] = NULL
        /\ mode'[e] = m
        /\ \A c \in T : next'[c] = next[c] /\ mode'[c] = mode[c]
                        /\ next_dir'[c] = IF c = p THEN e ELSE next_dir[c]
    BY <1>1 DEF TypeOK
  <1>3. CASE p \in T /\ mode[p] # "reg" /\ pTree' = pTree
    <2>1. next'[e] = next_dir[p] /\ p # NULL
      BY <1>1, <1>2, <1>3
    <2>2. (T \cup {e}) \subseteq live'
      BY DEF Shape
    <2> QED
      BY <1>1, <1>2, <1>3, <2>1, <2>2 DEF Shape
  <1>4. CASE p = NULL /\ T = {} /\ pTree' = e
    BY <1>1, <1>2, <1>4 DEF Shape
  <1> QED
    BY <1>3, <1>4

\* The other parts, when a cell that was free becomes an entry.
LEMMA CreateNodes ==
    ASSUME IInv, TreeInv, NEW e \in Entry, NEW p, NEW m, NEW n,
           CreateInfo(e, p, m, n), UNCHANGED fnode,
           \/ \E v \in Vnode : NewVnode(v) /\ BindVnode(e, v)
           \/ UNCHANGED <<dev_info, used, dead>>
    PROVE  NodesLive' /\ FilesKnown'
  <1> USE DEF IInv, TreeInv
  <1>1. live' = live \cup {e} /\ e \notin live
        /\ pDmassFsX' = [pDmassFsX EXCEPT ![e] = {}]
    BY DEF CreateInfo
  <1>2. CASE UNCHANGED <<dev_info, used, dead>>
    BY <1>1, <1>2 DEF NodesLive, FilesKnown, TypeOK
  <1>3. CASE \E v \in Vnode : NewVnode(v) /\ BindVnode(e, v)
    <2>1. PICK v \in Vnode : v \notin used /\ dev_info' = [dev_info EXCEPT ![v] = e]
                             /\ used' = used \cup {v} /\ dead' = dead
      BY <1>3 DEF NewVnode, BindVnode
    <2>2. NodesLive'
      BY <1>1, <2>1 DEF NodesLive, TypeOK
    <2>3. FilesKnown'
      BY <1>1, <2>1 DEF NodesLive, FilesKnown, TypeOK
    <2> QED
      BY <2>2, <2>3
  <1> QED
    BY <1>2, <1>3

\* An entry without children leaves the tree, whether it is freed or not.
LEMMA UnlinkShape ==
    ASSUME TypeOK, NEW T, Shape(T), NEW d \in T, NEW e \in T,
           e \in ListCells(next_dir[d]), next_dir[e] = NULL,
           next' = NextAfterUnlink(d, e), next_dir' = NextDirAfterUnlink(d, e),
           live \ {e} \subseteq live', mode' = mode, pTree' = pTree
    PROVE  Shape(T \ {e})'
  <1>1. T \subseteq Entry /\ NULL \notin T /\ next_dir[d] \in T \cup {NULL}
    BY DmassAssumption DEF Shape, TypeOK
  <1>2. ListCells(next_dir[d]) \subseteq T
    BY <1>1, ListStays
  <1>3. e = next_dir[d] \/ \E c \in ListCells(next_dir[d]) : next[c] = e
    BY ListLeadsTo
  <1>4. e # pTree
    BY <1>1, <1>2, <1>3 DEF Shape
  <1>5. \A c \in T : next_dir'[c] = IF c = d /\ next_dir[d] = e THEN next[e] ELSE next_dir[c]
    BY <1>1 DEF NextDirAfterUnlink, TypeOK
  <1>6. \A c \in T : next'[c] = IF next[c] = e THEN next[e] ELSE next[c]
    <2> SUFFICES ASSUME NEW c \in T
                 PROVE  next'[c] = IF next[c] = e THEN next[e] ELSE next[c]
      OBVIOUS
    <2>1. next'[c] = IF next_dir[d] # e /\ c \in ListCells(next_dir[d]) /\ next[c] = e
                     THEN next[e] ELSE next[c]
      BY <1>1 DEF NextAfterUnlink
    <2>2. ASSUME next[c] = e
          PROVE  next_dir[d] # e /\ c \in ListCells(next_dir[d])
      <3>1. next_dir[d] # e
        BY <1>1, <2>2 DEF Shape
      <3>2. PICK b \in ListCells(next_dir[d]) : next[b] = e
        BY <1>3, <3>1
      <3>3. b = c
        BY <1>1, <1>2, <2>2, <3>2 DEF Shape
      <3> QED
        BY <3>1, <3>2, <3>3
    <2> QED
      BY <2>1, <2>2
  <1>7. /\ next[e] \in T \cup {NULL}
        /\ next_dir[d] = e => next[e] # e
        /\ \A c \in T : c # e /\ next[c] = e => next[e] # e
    BY <1>1 DEF Shape
  <1>8. d # e \/ next_dir[d] # e
    BY <1>1
  <1>9. \A c \in T \ {e} : /\ next'[c] \in (T \ {e}) \cup {NULL}
                           /\ next_dir'[c] \in (T \ {e}) \cup {NULL}
    <2>1. \A c \in T : next_dir[c] = e => c = d /\ next_dir[d] = e
      BY <1>1, <1>2, <1>3 DEF Shape
    <2> QED
      BY <1>1, <1>5, <1>6, <1>7, <2>1 DEF Shape
  <1>10. /\ T \ {e} \subseteq live'
         /\ pTree' # NULL => pTree' \in T \ {e}
         /\ \A c \in T \ {e} : mode'[c] = "reg" => next_dir'[c] = NULL
    BY <1>1, <1>4, <1>5 DEF Shape
  <1>11. \A b, c \in T \ {e} :
            /\ next'[b] = next'[c] /\ next'[b] # NULL => b = c
            /\ next_dir'[b] = next_dir'[c] /\ next_dir'[b] # NULL => b = c
            /\ next'[b] # NULL => next'[b] # next_dir'[c]
    BY <1>1, <1>5, <1>6, <1>7 DEF Shape
  <1>12. pTree' # NULL => \A c \in T \ {e} : next'[c] # pTree' /\ next_dir'[c] # pTree'
    BY <1>1, <1>5, <1>6 DEF Shape
  <1> QED
    BY <1>9, <1>10, <1>11, <1>12 DEF Shape

\* An entry of the tree stays in it when it is moved to the head of a directory.
LEMMA MoveShape ==
    ASSUME TypeOK, NEW T, Shape(T), NEW d \in T, NEW nd \in T, NEW e \in T,
           mode[nd] # "reg", e \in ListCells(next_dir[d]),
           next' = [NextAfterUnlink(d, e) EXCEPT ![e] = NextDirAfterUnlink(d, e)[nd]],
           next_dir' = [NextDirAfterUnlink(d, e) EXCEPT ![nd] = e],
           UNCHANGED <<live, mode, pTree>>
    PROVE  Shape(T)'
  <1>1. T \subseteq Entry /\ NULL \notin T /\ next_dir[d] \in T \cup {NULL}
    BY DmassAssumption DEF Shape, TypeOK
  <1>2. ListCells(next_dir[d]) \subseteq T
    BY <1>1, ListStays
  <1>3. e = next_dir[d] \/ \E c \in ListCells(next_dir[d]) : next[c] = e
    BY ListLeadsTo
  <1>4. e # pTree
    BY <1>1, <1>2, <1>3 DEF Shape
  <1> DEFINE heads == NextDirAfterUnlink(d, e)
             nexts == NextAfterUnlink(d, e)
  <1>5. \A c \in T : heads[c] = IF c = d /\ next_dir[d] = e THEN next[e] ELSE next_dir[c]
    BY <1>1 DEF NextDirAfterUnlink, TypeOK
  <1>6. \A c \in T : nexts[c] = IF next[c] = e THEN next[e] ELSE next[c]
    <2> SUFFICES ASSUME NEW c \in T
                 PROVE  nexts[c] = IF next[c] = e THEN next[e] ELSE next[c]
      OBVIOUS
    <2>1. nexts[c] = IF next_dir[d] # e /\ c \in ListCells(next_dir[d]) /\ next[c] = e
                     THEN next[e] ELSE next[c]
      BY <1>1 DEF NextAfterUnlink
    <2>2. ASSUME next[c] = e
          PROVE  next_dir[d] # e /\ c \in ListCells(next_dir[d])
      <3>1. next_dir[d] # e
        BY <1>1, <2>2 DEF Shape
      <3>2. PICK b \in ListCells(next_dir[d]) : next[b] = e
        BY <1>3, <3>1
      <3>3. b = c
        BY <1>1, <1>2, <2>2, <3>2 DEF Shape
      <3> QED
        BY <3>1, <3>2, <3>3
    <2> QED
      BY <2>1, <2>2
  <1>7. DOMAIN nexts = Entry /\ DOMAIN heads = Entry
    BY DEF NextAfterUnlink, NextDirAfterUnlink, TypeOK
  <1> HIDE DEF heads, nexts
  <1>8. \A c \in T : /\ next'[c] = IF c = e THEN heads[nd] ELSE nexts[c]
                     /\ next_dir'[c] = IF c = nd THEN e ELSE heads[c]
    BY <1>1, <1>7 DEF heads, nexts
  <1>9. \A c \in T : next_dir[c] = e => c = d /\ next_dir[d] = e
    BY <1>1, <1>2, <1>3 DEF Shape
  <1>10. /\ next_dir[d] = e => next[e] # e
         /\ \A c \in T : c # e /\ next[c] = e => next[e] # e
    BY <1>1 DEF Shape
  <1>11. \A c \in T : next'[c] \in T \cup {NULL} /\ next_dir'[c] \in T \cup {NULL}
    BY <1>1, <1>5, <1>6, <1>8 DEF Shape
  <1>12. \A c \in T : /\ c # e => next'[c] # e
                      /\ c # nd => next_dir'[c] # e
    BY <1>1, <1>5, <1>6, <1>8, <1>9, <1>10 DEF Shape
  <1>14. \A b, c \in T : next_dir'[b] = next_dir'[c] /\ next_dir'[b] # NULL => b = c
    BY <1>1, <1>5, <1>8, <1>9, <1>12 DEF Shape
  <1>20. heads[nd] # e
    BY <1>5, <1>9, <1>10
  <1>15. \A b, c \in T : next'[b] = next'[c] /\ next'[b] # NULL => b = c
    <2>1. \A b \in T : b # e /\ next'[b] = heads[nd] => heads[nd] = NULL
      BY <1>1, <1>5, <1>6, <1>8, <1>9, <1>20 DEF Shape
    <2>2. \A b, c \in T : b # e /\ c # e /\ next'[b] = next'[c] /\ next'[b] # NULL => b = c
      BY <1>1, <1>6, <1>8 DEF Shape
    <2> QED
      BY <1>8, <2>1, <2>2
  <1>16. \A b, c \in T : next'[b] # NULL => next'[b] # next_dir'[c]
    <2>1. \A b, c \in T : b # e /\ c # nd /\ next'[b] # NULL => next'[b] # next_dir'[c]
      BY <1>1, <1>5, <1>6, <1>8, <1>9 DEF Shape
    <2>2. \A b \in T : b # e => next'[b] # next_dir'[nd]
      BY <1>8, <1>12
    <2>3. \A c \in T : c # nd /\ heads[nd] # NULL => heads[nd] # next_dir'[c]
      BY <1>1, <1>5, <1>8, <1>9 DEF Shape
    <2>4. heads[nd] # next_dir'[nd]
      BY <1>8, <1>20
    <2> QED
      BY <1>8, <2>1, <2>2, <2>3, <2>4
  <1>17. \A c \in T : mode'[c] = "reg" => next_dir'[c] = NULL
    BY <1>1, <1>5, <1>8, <1>9 DEF Shape
  <1>18. pTree' # NULL => \A c \in T : next'[c] # pTree' /\ next_dir'[c] # pTree'
    BY <1>1, <1>4, <1>5, <1>6, <1>8 DEF Shape
  <1>19. T \subseteq live' /\ (pTree' # NULL => pTree' \in T)
    BY DEF Shape
  <1> QED
    BY <1>11, <1>14, <1>15, <1>16, <1>17, <1>18, <1>19 DEF Shape

-----------------------------------------------------------------------------
(* The handlers keep the shape *)

LEMMA TreeSetRoot ==
    ASSUME IInv, TreeInv, NEW e \in Entry, NEW v \in Vnode, vfs_set_root(e, v)
    PROVE  TreeInv'
  <1>1. CASE Refuse
    BY <1>1, TreeRefuse
  <1>2. CASE /\ NewVnode(v)
             /\ CreateInfo(e, NULL, "dir", RootName)
             /\ pTree' = e
             /\ BindVnode(e, v)
             /\ UNCHANGED <<current, fnode>>
    <2>1. Shape({})
      BY DEF vfs_set_root, Shape
    <2>2. Shape({} \cup {e})'
      BY <1>2, <2>1, CreateShape DEF IInv
    <2>3. NodesLive' /\ FilesKnown'
      BY <1>2, CreateNodes
    <2> QED
      BY <2>2, <2>3 DEF TreeInv
  <1> QED
    BY <1>1, <1>2 DEF vfs_set_root

LEMMA TreeMakeEntry ==
    ASSUME IInv, TreeInv, NEW T, Shape(T), NEW d \in T, mode[d] # "reg",
           NEW m, NEW path, MakeEntry(d, m, path)
    PROVE  TreeInv'
  <1>1. CASE Refuse \/ Panic
    BY <1>1, TreeRefuse
  <1>2. CASE ~(Refuse \/ Panic)
    <2>1. PICK e \in Entry :
             /\ CreateInfo(e, d, m, Leaf(path))
             /\ \/ \E v \in Vnode : NewVnode(v) /\ BindVnode(e, v)
                \/ UNCHANGED <<dev_info, used, dead>>
      BY <1>2 DEF MakeEntry, LinkNewEntry
    <2>2. pTree' = pTree /\ fnode' = fnode
      BY <1>2 DEF MakeEntry, LinkNewEntry
    <2>3. Shape(T \cup {e})'
      BY <2>1, <2>2, CreateShape DEF IInv
    <2>4. NodesLive' /\ FilesKnown'
      BY <2>1, <2>2, CreateNodes
    <2> QED
      BY <2>3, <2>4 DEF TreeInv
  <1> QED
    BY <1>1, <1>2

LEMMA TreeCreateMkdir ==
    ASSUME IInv, TreeInv, NEW dv \in Vnode, NEW path \in Path,
           vop_create(dv, path) \/ vop_mkdir(dv, path)
    PROVE  TreeInv'
  <1>1. PICK T : Shape(T)
    BY DEF TreeInv
  <1>2. dev_info[dv] \in T
    BY <1>1, DirStays DEF IInv, vop_create, vop_mkdir
  <1>3. CASE vop_create(dv, path)
    BY <1>1, <1>2, <1>3, TreeMakeEntry DEF vop_create
  <1>4. CASE vop_mkdir(dv, path)
    BY <1>1, <1>2, <1>4, TreeMakeEntry, TreeRefuse DEF vop_mkdir
  <1> QED
    BY <1>3, <1>4

\* What is unlinked is freed only when no file is open on it, and then its
\* vnodes are dead.
LEMMA TreeUnlink ==
    ASSUME IInv, TreeInv, NEW T, Shape(T), NEW d \in T, NEW e \in T, next_dir[e] = NULL,
           UnlinkAndDelete(e, d)
    PROVE  TreeInv'
  <1> USE DEF IInv, TreeInv
  <1>1. CASE Refuse
    BY <1>1, TreeRefuse
  <1>2. CASE ~Refuse
    <2>1. /\ e \in ListCells(next_dir[d])
          /\ next' = NextAfterUnlink(d, e)
          /\ next_dir' = NextDirAfterUnlink(d, e)
          /\ delete_dmass_info(e)
          /\ UNCHANGED <<pTree, mode, ctlVars, pNode, dev_info, used>>
      BY <1>2 DEF UnlinkAndDelete
    <2>2. live \ {e} \subseteq live'
      BY <2>1 DEF delete_dmass_info
    <2>3. Shape(T \ {e})'
      BY <2>1, <2>2, UnlinkShape
    <2>4. NodesLive' /\ FilesKnown'
      <3>1. CASE HasOtherRefer(e)
        <4>1. live' = live /\ dead' = dead
          BY <2>1, <3>1 DEF delete_dmass_info
        <4> QED
          BY <2>1, <4>1 DEF NodesLive, FilesKnown, ctlVars
      <3>2. CASE ~HasOtherRefer(e)
        <4>1. /\ live' = live \ {e} /\ pDmassFsX[e] = {}
              /\ dead' = dead \cup {v \in used : dev_info[v] = e}
          BY <2>1, <3>2 DEF delete_dmass_info, HasOtherRefer
        <4> QED
          BY <2>1, <4>1 DEF NodesLive, FilesKnown, ctlVars
      <3> QED
        BY <3>1, <3>2
    <2> QED
      BY <2>3, <2>4
  <1> QED
    BY <1>1, <1>2

LEMMA TreeRemove ==
    ASSUME IInv, TreeInv, NEW dv \in Vnode, NEW path \in Path,
           vop_remove(dv, path) \/ vop_rmdir(dv, path)
    PROVE  TreeInv'
  <1>1. PICK T : Shape(T)
    BY DEF TreeInv
  <1>2. dev_info[dv] \in T
    BY <1>1, DirStays DEF IInv, vop_remove, vop_rmdir
  <1>3. CASE Refuse \/ Panic
    BY <1>3, TreeRefuse
  <1>4. CASE ~(Refuse \/ Panic)
    <2>1. PICK e \in Entry : /\ get_fs_entry(path) = e
                             /\ mode[e] = "reg" \/ next_dir[e] = NULL
                             /\ UnlinkAndDelete(e, dev_info[dv])
      BY <1>4 DEF vop_remove, vop_rmdir
    <2>2. e \in T
      BY <1>1, <2>1, EntryStays DEF IInv
    <2>3. next_dir[e] = NULL
      BY <1>1, <2>1, <2>2 DEF Shape
    <2> QED
      BY <1>1, <1>2, <2>1, <2>2, <2>3, TreeUnlink
  <1> QED
    BY <1>3, <1>4

\* A vnode that is bound to a live entry.
LEMMA TreeBind ==
    ASSUME IInv, TreeInv, NEW e \in live, NEW v \in Vnode, NewVnode(v), BindVnode(e, v),
           live' = live, UNCHANGED <<pDmassFsX, fnode>>
    PROVE  NodesLive' /\ FilesKnown'
  BY DEF IInv, TreeInv, TypeOK, NewVnode, BindVnode, NodesLive, FilesKnown

LEMMA TreeRename ==
    ASSUME IInv, TreeInv, NEW dv \in Vnode, NEW ndv \in Vnode, NEW path \in Path,
           NEW newPath \in Path, vop_rename(dv, path, ndv, newPath)
    PROVE  TreeInv'
  <1>1. PICK T : Shape(T)
    BY DEF TreeInv
  <1>2. dev_info[dv] \in T /\ dev_info[ndv] \in T /\ mode[dev_info[ndv]] # "reg"
    BY <1>1, DirStays DEF IInv, vop_rename
  <1>3. CASE Refuse \/ Panic
    BY <1>3, TreeRefuse
  <1>4. CASE ~(Refuse \/ Panic)
    <2>1. PICK e \in Entry : /\ get_fs_entry(path) = e
                             /\ MoveEntry(e, dev_info[dv], dev_info[ndv], Leaf(newPath))
      BY <1>4 DEF vop_rename
    <2>2. e \in T /\ e \in live
      BY <1>1, <2>1, EntryStays DEF IInv, Shape
    <2> DEFINE d == dev_info[dv]
               nd == dev_info[ndv]
    <2>3. /\ e \in ListCells(next_dir[d])
          /\ next' = [NextAfterUnlink(d, e) EXCEPT ![e] = NextDirAfterUnlink(d, e)[nd]]
          /\ next_dir' = [NextDirAfterUnlink(d, e) EXCEPT ![nd] = e]
          /\ UNCHANGED <<pTree, live, mode, ctlVars>>
          /\ \E v \in Vnode : NewVnode(v) /\ BindVnode(e, v)
      BY <1>4, <2>1 DEF MoveEntry
    <2> HIDE DEF d, nd
    <2>4. Shape(T)'
      <3>1. d \in T /\ nd \in T /\ mode[nd] # "reg"
        BY <1>2 DEF d, nd
      <3> QED
        BY <1>1, <2>2, <2>3, <3>1, MoveShape DEF IInv
    <2>5. NodesLive' /\ FilesKnown'
      BY <2>2, <2>3, TreeBind DEF ctlVars
    <2> QED
      BY <2>4, <2>5 DEF TreeInv
  <1> QED
    BY <1>3, <1>4

LEMMA TreeLookup ==
    ASSUME IInv, TreeInv, NEW path \in Path, NEW v \in Vnode, vop_part_init(path, v)
    PROVE  TreeInv'
  <1>1. PICK T : Shape(T)
    BY DEF TreeInv
  <1>2. CASE Refuse \/ Panic
    BY <1>2, TreeRefuse
  <1>3. CASE ~(Refuse \/ Panic)
    <2>1. PICK e \in Entry : /\ get_fs_entry(path) = e /\ NewVnode(v) /\ BindVnode(e, v)
                             /\ UNCHANGED <<treeVars, ctlVars>>
      BY <1>3 DEF vop_part_init
    <2>2. e \in live
      BY <1>1, <2>1, EntryStays DEF IInv, Shape
    <2>3. Shape(T)'
      BY <1>1, <2>1 DEF Shape, treeVars
    <2>4. NodesLive' /\ FilesKnown'
      BY <2>1, <2>2, TreeBind DEF treeVars, ctlVars
    <2> QED
      BY <2>3, <2>4 DEF TreeInv
  <1> QED
    BY <1>2, <1>3

\* File objects and vnodes do not touch the links.
LEMMA TreeFiles ==
    ASSUME IInv, TreeInv, NEW f \in File, NEW v \in Vnode,
           \/ vop_open(v, f) \/ vop_dopen(v, f) \/ CloseObject(f) \/ vop_dread(f)
           \/ vop_inactive(v)
    PROVE  TreeInv'
  <1> USE DEF IInv
  <1>1. CASE Refuse \/ Panic
    BY <1>1, TreeRefuse
  <1>2. UNCHANGED treeVars
    BY DEF vop_open, vop_dopen, OpenObject, CloseObject, vop_dread, vop_inactive, Refuse, Panic
  <1>3. \E T : Shape(T)'
    BY <1>2 DEF TreeInv, Shape, treeVars
  <1>4. CASE /\ ~(Refuse \/ Panic)
             /\ vop_open(v, f) \/ vop_dopen(v, f)
    <2>1. /\ v \in used \ dead /\ dev_info[v] # NULL /\ fnode[f] = NULL
          /\ create_dmass_ctl_data(dev_info[v], f)
          /\ fnode' = [fnode EXCEPT ![f] = v]
          /\ UNCHANGED nodeVars
      BY <1>4 DEF vop_open, vop_dopen, Opens, OpenObject
    <2>2. dev_info[v] \in Entry
      BY <2>1 DEF TypeOK, EntryOrNull
    <2>3. NodesLive' /\ FilesKnown'
      BY <1>2, <2>1, <2>2
         DEF TreeInv, NodesLive, FilesKnown, TypeOK, create_dmass_ctl_data, treeVars, nodeVars
    <2> QED
      BY <1>3, <2>3 DEF TreeInv
  <1>5. CASE CloseObject(f)
    <2>1. /\ fnode' = [fnode EXCEPT ![f] = NULL] /\ UNCHANGED nodeVars
          /\ \/ pDmassFsX' = pDmassFsX
             \/ pDmassFsX' = [pDmassFsX EXCEPT ![dev_info[fnode[f]]] = @ \ {f}]
      BY <1>5 DEF CloseObject, delete_dmass_ctl_data
    <2>2. NodesLive' /\ FilesKnown'
      BY <1>2, <2>1 DEF TreeInv, NodesLive, FilesKnown, TypeOK, treeVars, nodeVars
    <2> QED
      BY <1>3, <2>2 DEF TreeInv
  <1>6. CASE vop_dread(f) /\ ~(Refuse \/ Panic)
    <2>1. UNCHANGED <<treeVars, nodeVars, pDmassFsX, fnode>>
      BY <1>6 DEF vop_dread, ctlVars
    <2> QED
      BY <2>1, TreeQuiet
  <1>7. CASE vop_inactive(v)
    <2>1. /\ \A g \in File : fnode[g] # v
          /\ dev_info' = [dev_info EXCEPT ![v] = NULL]
          /\ used' = used \ {v} /\ dead' = dead \ {v}
          /\ UNCHANGED ctlVars
      BY <1>7 DEF vop_inactive
    <2>2. NodesLive' /\ FilesKnown'
      BY <1>2, <2>1 DEF TreeInv, NodesLive, FilesKnown, TypeOK, treeVars, ctlVars
    <2> QED
      BY <1>3, <2>2 DEF TreeInv
  <1> QED
    BY <1>1, <1>4, <1>5, <1>6, <1>7

LEMMA TreeStep == IInv /\ TreeInv /\ [Next]_vars => TreeInv'
  <1> SUFFICES ASSUME IInv, TreeInv, [Next]_vars
               PROVE  TreeInv'
    OBVIOUS
  <1>1. CASE UNCHANGED vars
    BY <1>1, TreeQuiet DEF vars, treeVars, nodeVars
  <1>2. ASSUME NEW f \in File, CloseObject(f) \/ vop_dread(f)
        PROVE  TreeInv'
    <2>1. PICK v \in Vnode : TRUE
      BY <1>2 DEF IInv, TypeOK, CloseObject, vop_dread, VnodeOrNull
    <2> QED
      BY <1>2, TreeFiles
  <1>3. ASSUME NEW v \in Vnode, vop_inactive(v)
        PROVE  TreeInv'
    <2>1. UNCHANGED <<treeVars, ctlVars>> /\ \A g \in File : fnode[g] # v
      BY <1>3 DEF vop_inactive
    <2>2. dev_info' = [dev_info EXCEPT ![v] = NULL] /\ used' = used \ {v} /\ dead' = dead \ {v}
      BY <1>3 DEF vop_inactive
    <2>3. \E T : Shape(T)'
      BY <2>1 DEF TreeInv, Shape, treeVars
    <2>4. NodesLive' /\ FilesKnown'
      BY <2>1, <2>2 DEF IInv, TreeInv, NodesLive, FilesKnown, TypeOK, treeVars, ctlVars
    <2> QED
      BY <2>3, <2>4 DEF TreeInv
  <1> QED
    BY <1>1, <1>2, <1>3, TreeSetRoot, TreeLookup, TreeCreateMkdir, TreeRemove, TreeRename,
       TreeFiles DEF Next, Halted, vop_close, vop_dclose

LEMMA TreeInvariance == Spec => []TreeInv
  <1>1. Init => TreeInv
    <2> SUFFICES ASSUME Init PROVE TreeInv
      OBVIOUS
    <2>1. Shape({})
      BY DEF Init, Shape
    <2> QED
      BY <2>1 DEF Init, TreeInv, NodesLive, FilesKnown
  <1> QED
    BY <1>1, TreeStep, Invariance, PTL DEF Spec

\* Whatever is created, moved and removed, an open file leads to an entry that is
\* allocated and counts the file: reads and writes do not touch freed memory.
THEOREM OpenFilesStayBacked == Spec => []OpenFileBacked
  <1>1. TreeInv => OpenFileBacked
    BY DEF TreeInv, NodesLive, FilesKnown, OpenFileBacked
  <1> QED
    BY <1>1, TreeInvariance, PTL

-----------------------------------------------------------------------------
(* The links from the root *)

\* The walk of the tree is what its recursive definition says.
LEMMA ReachIs ==
    \E reach : /\ Reachable = reach[Cardinality(Entry)]
               /\ reach[0] = {pTree} \ {NULL}
               /\ \A i \in 1..Cardinality(Entry) :
                     reach[i] = reach[i - 1]
                                  \cup UNION {ListCells(next_dir[e]) : e \in reach[i - 1]}
  <1> DEFINE N == Cardinality(Entry)
             Body(f, i) == IF i = 0 THEN {pTree} \ {NULL}
                           ELSE LET R == f[i - 1]
                                IN  R \cup UNION {ListCells(next_dir[e]) : e \in R}
             S == {n \in Nat : \E f : f = [i \in 0..n |-> Body(f, i)]}
  <1>1. 0 \in S
    <2> DEFINE f == [i \in 0..0 |-> {pTree} \ {NULL}]
    <2>1. f = [i \in 0..0 |-> Body(f, i)]
      OBVIOUS
    <2> HIDE DEF f
    <2>2. \E f1 : f1 = [i \in 0..0 |-> Body(f1, i)]
      <3> HIDE DEF Body
      <3> QED
        BY <2>1
    <2> QED
      BY <2>2
  <1>2. ASSUME NEW n \in Nat, n \in S
        PROVE  n + 1 \in S
    <2>1. PICK f : f = [i \in 0..n |-> Body(f, i)]
      BY <1>2
    <2> DEFINE g == [i \in 0..(n + 1) |-> IF i = n + 1 THEN Body(f, n + 1) ELSE f[i]]
    <2>2. \A i \in 0..(n + 1) : g[i] = Body(g, i)
      <3> SUFFICES ASSUME NEW i \in 0..(n + 1)
                   PROVE  g[i] = Body(g, i)
        OBVIOUS
      <3>1. i # 0 => /\ i - 1 \in 0..n /\ i - 1 \in 0..(n + 1) /\ i - 1 # n + 1
                     /\ g[i - 1] = f[i - 1]
        OBVIOUS
      <3>2. g[i] = Body(f, i)
        <4> HIDE DEF Body
        <4>1. i # n + 1 => i \in 0..n
          OBVIOUS
        <4>2. i # n + 1 => f[i] = Body(f, i)
          BY <2>1, <4>1
        <4> QED
          BY <4>2
      <3>3. i # 0 => Body(g, i) = Body(f, i)
        BY <3>1
      <3>4. i = 0 => Body(g, i) = Body(f, i)
        OBVIOUS
      <3> HIDE DEF g, Body
      <3> QED
        BY <3>2, <3>3, <3>4
    <2>3. g = [i \in 0..(n + 1) |-> Body(g, i)]
      <3> HIDE DEF Body
      <3> QED
        BY <2>2
    <2> HIDE DEF g
    <2>4. \E f1 : f1 = [i \in 0..(n + 1) |-> Body(f1, i)]
      <3> HIDE DEF Body
      <3> QED
        BY <2>3
    <2> QED
      BY <2>4
  <1>3. N \in S
    <2>1. N \in Nat
      BY EntriesCount
    <2> HIDE DEF S, N
    <2> QED
      BY <1>1, <1>2, <2>1, NatSetInduction
  <1> DEFINE reach == CHOOSE f : f = [i \in 0..N |-> Body(f, i)]
  <1>4. reach = [i \in 0..N |-> Body(reach, i)]
    <2>1. \E f : f = [i \in 0..N |-> Body(f, i)]
      BY <1>3
    <2> HIDE DEF Body, N
    <2> QED
      BY <2>1
  <1>5. Reachable = reach[N]
    BY DEF Reachable
  <1>6. 0 \in 0..N /\ \A i \in 1..N : i \in 0..N /\ i # 0
    BY EntriesCount
  <1>7. reach[0] = Body(reach, 0) /\ \A i \in 1..N : reach[i] = Body(reach, i)
    <2> HIDE DEF reach, Body
    <2> QED
      BY <1>4, <1>6
  <1> HIDE DEF reach
  <1>8. \A i \in 1..N : Body(reach, i)
            = reach[i - 1] \cup UNION {ListCells(next_dir[e]) : e \in reach[i - 1]}
    BY <1>6
  <1>9. Body(reach, 0) = {pTree} \ {NULL}
    OBVIOUS
  <1>10. \A i \in 1..N :
            reach[i] = reach[i - 1] \cup UNION {ListCells(next_dir[e]) : e \in reach[i - 1]}
    <2> HIDE DEF Body
    <2> QED
      BY <1>7, <1>8
  <1>11. reach[0] = {pTree} \ {NULL}
    <2> HIDE DEF Body
    <2> QED
      BY <1>7, <1>9
  <1> QED
    BY <1>5, <1>10, <1>11

\* R is a part of the tree, and into each of its entries but the root a link of
\* R leads.
Entered(R, T) ==
    /\ R \subseteq T
    /\ \A e \in R : e = pTree \/ \E c \in R : next[c] = e \/ next_dir[c] = e

LEMMA ReachEntered ==
    ASSUME TypeOK, NEW T, Shape(T)
    PROVE  Entered(Reachable, T)
  <1>1. PICK reach : /\ Reachable = reach[Cardinality(Entry)]
                     /\ reach[0] = {pTree} \ {NULL}
                     /\ \A i \in 1..Cardinality(Entry) :
                           reach[i] = reach[i - 1]
                                  \cup UNION {ListCells(next_dir[e]) : e \in reach[i - 1]}
    BY ReachIs
  <1> DEFINE N == Cardinality(Entry)
             S == {i \in Nat : i <= N => Entered(reach[i], T)}
  <1>2. 0 \in S
    <2>1. Entered(reach[0], T)
      BY <1>1 DEF Entered, Shape
    <2> QED
      BY <2>1
  <1>3. ASSUME NEW n \in Nat, n \in S
        PROVE  n + 1 \in S
    <2> SUFFICES ASSUME n + 1 <= N
                 PROVE  Entered(reach[n + 1], T)
      OBVIOUS
    <2>1. n + 1 \in 1..N /\ (n + 1) - 1 = n /\ n <= N
      BY EntriesCount
    <2>2. Entered(reach[n], T)
      BY <1>3, <2>1
    <2>3. reach[n + 1] = reach[n] \cup UNION {ListCells(next_dir[e]) : e \in reach[n]}
      BY <1>1, <2>1
    <2>4. ASSUME NEW d \in reach[n], NEW e \in ListCells(next_dir[d])
          PROVE  e \in T /\ \E c \in reach[n + 1] : next[c] = e \/ next_dir[c] = e
      <3>1. next_dir[d] \in T \cup {NULL}
        BY <2>2 DEF Entered, Shape
      <3>2. e \in T
        BY <3>1, ListStays
      <3>3. e = next_dir[d] \/ \E c \in ListCells(next_dir[d]) : next[c] = e
        BY ListLeadsTo
      <3>4. d \in reach[n + 1] /\ ListCells(next_dir[d]) \subseteq reach[n + 1]
        BY <2>3
      <3> QED
        BY <3>2, <3>3, <3>4
    <2> QED
      BY <2>2, <2>3, <2>4 DEF Entered
  <1>4. \A n \in Nat : n \in S
    <2> HIDE DEF S
    <2> QED
      BY <1>2, <1>3, NatSetInduction
  <1> QED
    BY <1>1, <1>4, EntriesCount

\* A set with one member that others must equal counts one, and an empty set none.
LEMMA OneOfTwo ==
    ASSUME NEW A, NEW B, NEW a,
           \/ A = {a} /\ B = {}
           \/ A = {} /\ B = {a}
    PROVE  Cardinality(A) + Cardinality(B) = 1
  <1>1. Cardinality({}) = 0 /\ Cardinality({a}) = 1
    BY FS_EmptySet, FS_Singleton
  <1> QED
    BY <1>1

LEMMA TreeSingleParent == IInv /\ TreeInv => SingleParent
  <1> SUFFICES ASSUME IInv, NEW T, Shape(T)
               PROVE  SingleParent
    BY DEF TreeInv
  <1>1. Entered(Reachable, T)
    BY ReachEntered DEF IInv
  <1>2. Reachable \subseteq T /\ T \subseteq live /\ NULL \notin T
    BY <1>1, DmassAssumption DEF Entered, Shape, IInv, TypeOK
  <1>3. ASSUME NEW e \in Reachable
        PROVE  Cardinality({c \in Reachable : next[c] = e})
                 + Cardinality({d \in Reachable : next_dir[d] = e})
                 + (IF e = pTree THEN 1 ELSE 0) = 1
    <2> DEFINE A == {c \in Reachable : next[c] = e}
               B == {d \in Reachable : next_dir[d] = e}
    <2>1. CASE e = pTree
      <3>1. A = {} /\ B = {}
        BY <1>2, <2>1 DEF Shape
      <3>2. Cardinality(A) = 0 /\ Cardinality(B) = 0
        BY <3>1, FS_EmptySet
      <3> QED
        BY <2>1, <3>2
    <2>2. CASE e # pTree
      <3>1. PICK a \in Reachable : next[a] = e \/ next_dir[a] = e
        BY <1>1, <2>2 DEF Entered
      <3>2. CASE next[a] = e
        <4>1. A = {a} /\ B = {}
          BY <1>2, <3>1, <3>2 DEF Shape
        <4>2. Cardinality(A) + Cardinality(B) = 1
          <5> HIDE DEF A, B
          <5> QED
            BY <4>1, OneOfTwo
        <4> QED
          BY <2>2, <4>2
      <3>3. CASE next_dir[a] = e
        <4>1. A = {} /\ B = {a}
          BY <1>2, <3>1, <3>3 DEF Shape
        <4>2. Cardinality(A) + Cardinality(B) = 1
          <5> HIDE DEF A, B
          <5> QED
            BY <4>1, OneOfTwo
        <4> QED
          BY <2>2, <4>2
      <3> QED
        BY <3>1, <3>2, <3>3
    <2> QED
      BY <2>1, <2>2
  <1> QED
    BY <1>2, <1>3 DEF SingleParent

\* Whatever is created, moved and removed, the links from the root form a tree
\* of allocated entries.
THEOREM LinksFormTree == Spec => []SingleParent
  BY TreeSingleParent, TreeInvariance, Invariance, PTL

-----------------------------------------------------------------------------
(* Lists as sets *)

\* A walk is in every set that holds its start and that next does not leave.
LEMMA ListLeast ==
    ASSUME NEW X, NEW head \in X \cup {NULL}, \A c \in X : next[c] \in X \cup {NULL}
    PROVE  ListCells(head) \subseteq X
  <1> DEFINE N == Cardinality(Entry)
             S == {i \in Nat : i <= N => Chain(head)[i] \in X \cup {NULL}}
  <1>1. 0 \in S
    BY ChainIs
  <1>2. ASSUME NEW n \in Nat, n \in S
        PROVE  n + 1 \in S
    <2> SUFFICES ASSUME n + 1 <= N
                 PROVE  Chain(head)[n + 1] \in X \cup {NULL}
      OBVIOUS
    <2>1. n + 1 \in 1..N /\ (n + 1) - 1 = n /\ n <= N
      BY EntriesCount
    <2>2. Chain(head)[n] \in X \cup {NULL}
      BY <1>2, <2>1
    <2>3. Chain(head)[n + 1] = IF Chain(head)[n] = NULL THEN NULL ELSE next[Chain(head)[n]]
      BY <2>1, ChainIs
    <2> QED
      BY <2>2, <2>3
  <1>3. \A n \in Nat : n \in S
    <2> HIDE DEF S
    <2> QED
      BY <1>1, <1>2, NatSetInduction
  <1>4. \A i \in 0..N : Chain(head)[i] \in X \cup {NULL}
    BY <1>3, EntriesCount
  <1> QED
    BY <1>4 DEF ListCells

\* In a walk from a cell that no next leads to, no cell comes twice: the first
\* that did would be led to from two cells, or be the start.
LEMMA ChainDistinct ==
    ASSUME TypeOK, NEW T, Shape(T), NEW head \in T \cup {NULL}, \A c \in T : next[c] # head
    PROVE  \A i, j \in 0..Cardinality(Entry) :
              i < j /\ Chain(head)[j] # NULL => Chain(head)[i] # Chain(head)[j]
  <1> DEFINE N == Cardinality(Entry)
             cell == Chain(head)
             S == {i \in Nat : \A j \in 0..N : i < j /\ cell[j] # NULL => cell[i] # cell[j]}
  <1> N \in Nat
    BY EntriesCount
  <1>1. \A i \in 0..N : cell[i] \in T \cup {NULL}
    BY ChainStays
  <1>2. ASSUME NEW j \in 1..N, cell[j] # NULL
        PROVE  cell[j - 1] \in T /\ cell[j] = next[cell[j - 1]]
    <2>1. j - 1 \in 0..N
      OBVIOUS
    <2>2. cell[j] = IF cell[j - 1] = NULL THEN NULL ELSE next[cell[j - 1]]
      BY ChainIs
    <2> HIDE DEF cell
    <2> QED
      BY <1>1, <1>2, <2>1, <2>2
  <1>3. cell[0] = head
    BY ChainIs
  <1> HIDE DEF cell
  <1>4. 0 \in S
    <2> SUFFICES ASSUME NEW j \in 0..N, 0 < j, cell[j] # NULL
                 PROVE  cell[0] # cell[j]
      OBVIOUS
    <2>1. j \in 1..N
      OBVIOUS
    <2> QED
      BY <1>2, <1>3, <2>1
  <1>5. ASSUME NEW i \in Nat, i \in S
        PROVE  i + 1 \in S
    <2> SUFFICES ASSUME NEW j \in 0..N, i + 1 < j, cell[j] # NULL, cell[i + 1] = cell[j]
                 PROVE  FALSE
      OBVIOUS
    <2>1. /\ j \in 1..N /\ i + 1 \in 1..N /\ (i + 1) - 1 = i /\ i < j - 1
          /\ j - 1 \in 0..N
      OBVIOUS
    <2>2. cell[j - 1] \in T /\ cell[j] = next[cell[j - 1]]
      BY <1>2, <2>1
    <2>3. cell[i] \in T /\ cell[j] = next[cell[i]]
      BY <1>2, <2>1
    <2>4. cell[i] = cell[j - 1]
      <3>1. next[cell[i]] = next[cell[j - 1]] /\ next[cell[i]] # NULL
        BY <2>2, <2>3
      <3>2. \A c, d \in T : next[c] = next[d] /\ next[c] # NULL => c = d
        BY DEF Shape
      <3> QED
        BY <2>2, <2>3, <3>1, <3>2
    <2>5. NULL \notin T
      BY DmassAssumption DEF Shape, TypeOK
    <2> QED
      BY <1>5, <2>1, <2>2, <2>4, <2>5
  <1>6. \A i \in Nat : i \in S
    <2> HIDE DEF S
    <2> QED
      BY <1>4, <1>5, NatSetInduction
  <1> QED
    BY <1>6 DEF cell

\* So the bound of the walk is no bound: it gets to the end of the list.
LEMMA ChainEnds ==
    ASSUME TypeOK, NEW T, Shape(T), NEW head \in T \cup {NULL}, \A c \in T : next[c] # head
    PROVE  Chain(head)[Cardinality(Entry)] = NULL
  <1> DEFINE N == Cardinality(Entry)
             cell == Chain(head)
  <1> N \in Nat
    BY EntriesCount
  <1> SUFFICES ASSUME cell[N] # NULL
               PROVE  FALSE
    OBVIOUS
  <1>1. \A i \in 0..N : cell[i] # NULL
    <2> DEFINE S == {k \in Nat : k <= N => cell[N - k] # NULL}
    <2>1. 0 \in S
      OBVIOUS
    <2>2. ASSUME NEW k \in Nat, k \in S PROVE k + 1 \in S
      <3> SUFFICES ASSUME k + 1 <= N PROVE cell[N - (k + 1)] # NULL
        OBVIOUS
      <3>1. N - k \in 1..N /\ (N - k) - 1 = N - (k + 1) /\ k <= N
        OBVIOUS
      <3>2. cell[N - k] = IF cell[N - (k + 1)] = NULL THEN NULL ELSE next[cell[N - (k + 1)]]
        BY <3>1, ChainIs
      <3>3. cell[N - k] # NULL
        BY <2>2, <3>1
      <3> HIDE DEF cell
      <3> QED
        BY <3>2, <3>3
    <2>3. \A k \in Nat : k \in S
      <3> HIDE DEF S
      <3> QED
        BY <2>1, <2>2, NatSetInduction
    <2> HIDE DEF cell
    <2> SUFFICES ASSUME NEW i \in 0..N PROVE cell[i] # NULL
      OBVIOUS
    <2>4. N - i \in S /\ N - i <= N /\ N - (N - i) = i
      BY <2>3
    <2>5. cell[N - (N - i)] # NULL
      BY <2>4
    <2> QED
      BY <2>4, <2>5
  <1>2. \A i \in 0..N : cell[i] \in Entry
    <2>1. \A i \in 0..N : cell[i] \in T \cup {NULL}
      BY ChainStays
    <2>2. T \subseteq Entry
      BY DEF Shape, TypeOK
    <2> HIDE DEF cell
    <2> QED
      BY <1>1, <2>1, <2>2
  <1>3. \A i, j \in 0..N : i < j => cell[i] # cell[j]
    BY <1>1, ChainDistinct
  <1> HIDE DEF cell
  <1> DEFINE f == [i \in 0..N |-> cell[i]]
  <1>4. f \in Injection(0..N, Entry)
    <2>1. f \in [0..N -> Entry]
      BY <1>2
    <2>2. \A i, j \in 0..N : cell[i] = cell[j] => i = j
      <3> SUFFICES ASSUME NEW i \in 0..N, NEW j \in 0..N, cell[i] = cell[j] PROVE i = j
        OBVIOUS
      <3>1. ~(i < j) /\ ~(j < i)
        BY <1>3
      <3> QED
        BY <3>1
    <2> QED
      BY <2>1, <2>2 DEF Injection, IsInjective
  <1>5. IsFiniteSet(0..N) /\ Cardinality(0..N) = N + 1
    BY FS_Interval
  <1>6. Cardinality(0..N) <= Cardinality(Entry)
    <2> HIDE DEF f, N
    <2> QED
      BY <1>4, <1>5, FS_Injection, DmassAssumption
  <1> QED
    BY <1>5, <1>6

\* The cells of a list are its start and with every cell the next one.
LEMMA ListClosed ==
    ASSUME TypeOK, NEW T, Shape(T), NEW head \in T \cup {NULL}, \A c \in T : next[c] # head
    PROVE  /\ head \in ListCells(head) \cup {NULL}
           /\ \A c \in ListCells(head) : next[c] \in ListCells(head) \cup {NULL}
  <1> DEFINE N == Cardinality(Entry)
  <1> N \in Nat
    BY EntriesCount
  <1>1. head \in ListCells(head) \cup {NULL}
    <2>1. 0 \in 0..N /\ Chain(head)[0] = head
      BY ChainIs
    <2> QED
      BY <2>1 DEF ListCells
  <1>2. ASSUME NEW c \in ListCells(head)
        PROVE  next[c] \in ListCells(head) \cup {NULL}
    <2>1. PICK i \in 0..N : c = Chain(head)[i] /\ c # NULL
      BY DEF ListCells
    <2>2. i # N
      BY <2>1, ChainEnds
    <2>3. i + 1 \in 1..N /\ (i + 1) - 1 = i /\ i + 1 \in 0..N
      BY <2>2
    <2>4. Chain(head)[i + 1] = next[c]
      BY <2>1, <2>3, ChainIs
    <2> QED
      BY <2>3, <2>4 DEF ListCells
  <1> QED
    BY <1>1, <1>2

\* A directory lists its first child and with every child the next one.
LEMMA DirList ==
    ASSUME TypeOK, NEW T, Shape(T), NEW d \in T
    PROVE  /\ ListCells(next_dir[d]) \subseteq T
           /\ next_dir[d] \in ListCells(next_dir[d]) \cup {NULL}
           /\ \A c \in ListCells(next_dir[d]) : next[c] \in ListCells(next_dir[d]) \cup {NULL}
  <1>1. next_dir[d] \in T \cup {NULL}
    BY DEF Shape
  <1>2. CASE next_dir[d] = NULL
    <2> DEFINE X == {}
    <2>1. NULL \in X \cup {NULL} /\ \A c \in X : next[c] \in X \cup {NULL}
      OBVIOUS
    <2>2. ListCells(NULL) \subseteq X
      <3> HIDE DEF X
      <3> QED
        BY <2>1, ListLeast
    <2> QED
      BY <1>2, <2>2
  <1>3. CASE next_dir[d] # NULL
    <2>1. \A c \in T : next[c] # next_dir[d]
      BY <1>3 DEF Shape
    <2> QED
      BY <1>1, <2>1, ListStays, ListClosed
  <1> QED
    BY <1>2, <1>3

LEMMA ListTyped ==
    ASSUME TypeOK, NEW head \in EntryOrNull
    PROVE  ListCells(head) \subseteq Entry
  <1>1. head \in Entry \cup {NULL} /\ \A c \in Entry : next[c] \in Entry \cup {NULL}
    BY DEF TypeOK, EntryOrNull
  <1> QED
    BY <1>1, ListLeast

-----------------------------------------------------------------------------
(* The tree as a set *)

\* The tree is in every set that holds the root and the lists of its members.
LEMMA ReachLeast ==
    ASSUME NEW X, pTree # NULL => pTree \in X, \A d \in X : ListCells(next_dir[d]) \subseteq X
    PROVE  Reachable \subseteq X
  <1>1. PICK reach : /\ Reachable = reach[Cardinality(Entry)]
                     /\ reach[0] = {pTree} \ {NULL}
                     /\ \A i \in 1..Cardinality(Entry) :
                           reach[i] = reach[i - 1]
                                  \cup UNION {ListCells(next_dir[e]) : e \in reach[i - 1]}
    BY ReachIs
  <1> DEFINE N == Cardinality(Entry)
             S == {i \in Nat : i <= N => reach[i] \subseteq X}
  <1>2. 0 \in S
    BY <1>1
  <1>3. ASSUME NEW n \in Nat, n \in S
        PROVE  n + 1 \in S
    <2> SUFFICES ASSUME n + 1 <= N
                 PROVE  reach[n + 1] \subseteq X
      OBVIOUS
    <2>1. n + 1 \in 1..N /\ (n + 1) - 1 = n /\ n <= N
      BY EntriesCount
    <2>2. reach[n + 1] = reach[n] \cup UNION {ListCells(next_dir[e]) : e \in reach[n]}
      BY <1>1, <2>1
    <2>3. reach[n] \subseteq X
      BY <1>3, <2>1
    <2> QED
      BY <2>2, <2>3
  <1>4. \A n \in Nat : n \in S
    <2> HIDE DEF S
    <2> QED
      BY <1>2, <1>3, NatSetInduction
  <1> QED
    BY <1>1, <1>4, EntriesCount

\* The walk of the tree adds an entry in every round until it adds none, so it
\* has met all there is after as many rounds as there are entries.
LEMMA ReachClosed ==
    ASSUME TypeOK
    PROVE  /\ pTree # NULL => pTree \in Reachable
           /\ \A d \in Reachable : ListCells(next_dir[d]) \subseteq Reachable
  <1> DEFINE More(R) == UNION {ListCells(next_dir[e]) : e \in R}
             N == Cardinality(Entry)
  <1> N \in Nat
    BY EntriesCount
  <1>1. PICK reach : /\ Reachable = reach[N]
                     /\ reach[0] = {pTree} \ {NULL}
                     /\ \A i \in 1..N : reach[i] = reach[i - 1] \cup More(reach[i - 1])
    BY ReachIs
  <1>2. \A R \in SUBSET Entry : More(R) \subseteq Entry
    <2>1. \A d \in Entry : ListCells(next_dir[d]) \subseteq Entry
      BY ListTyped DEF TypeOK
    <2> QED
      BY <2>1
  <1>3. More({}) = {}
    OBVIOUS
  <1> HIDE DEF More
  <1> DEFINE Closed(R) == More(R) \subseteq R
             S == {i \in Nat : i <= N =>
                      /\ reach[i] \subseteq Entry
                      /\ pTree # NULL => pTree \in reach[i]
                      /\ Closed(reach[i]) \/ Cardinality(reach[i]) >= i + 1}
  <1>4. 0 \in S
    <2>1. CASE pTree = NULL
      <3>1. reach[0] = {}
        BY <1>1, <2>1
      <3> QED
        BY <1>3, <2>1, <3>1
    <2>2. CASE pTree # NULL
      <3>1. reach[0] = {pTree} /\ pTree \in Entry
        BY <1>1, <2>2 DEF TypeOK, EntryOrNull
      <3>2. Cardinality({pTree}) = 1
        BY FS_Singleton
      <3> QED
        BY <3>1, <3>2
    <2> QED
      BY <2>1, <2>2
  <1>5. ASSUME NEW n \in Nat, n \in S
        PROVE  n + 1 \in S
    <2> SUFFICES ASSUME n + 1 <= N
                 PROVE  /\ reach[n + 1] \subseteq Entry
                        /\ pTree # NULL => pTree \in reach[n + 1]
                        /\ Closed(reach[n + 1]) \/ Cardinality(reach[n + 1]) >= (n + 1) + 1
      OBVIOUS
    <2>1. n + 1 \in 1..N /\ (n + 1) - 1 = n /\ n <= N
      OBVIOUS
    <2>2. reach[n + 1] = reach[n] \cup More(reach[n])
      BY <1>1, <2>1
    <2>3. /\ reach[n] \subseteq Entry
          /\ pTree # NULL => pTree \in reach[n]
          /\ Closed(reach[n]) \/ Cardinality(reach[n]) >= n + 1
      BY <1>5, <2>1
    <2>4. reach[n + 1] \subseteq Entry
      BY <1>2, <2>2, <2>3
    <2>5. CASE Closed(reach[n])
      <3>1. reach[n + 1] = reach[n]
        BY <2>2, <2>5
      <3> QED
        BY <2>3, <2>5, <3>1
    <2>6. CASE ~Closed(reach[n])
      <3>1. reach[n] \subseteq reach[n + 1] /\ reach[n] # reach[n + 1]
        BY <2>2, <2>6
      <3>2. IsFiniteSet(reach[n + 1]) /\ IsFiniteSet(reach[n])
        BY <2>3, <2>4, FS_Subset, DmassAssumption
      <3>3. Cardinality(reach[n]) <= Cardinality(reach[n + 1])
            /\ Cardinality(reach[n]) # Cardinality(reach[n + 1])
        BY <3>1, <3>2, FS_Subset
      <3>4. Cardinality(reach[n]) \in Nat /\ Cardinality(reach[n + 1]) \in Nat
        BY <3>2, FS_CardinalityType
      <3>5. Cardinality(reach[n]) >= n + 1
        BY <2>3, <2>6
      <3>6. Cardinality(reach[n + 1]) >= (n + 1) + 1
        BY <3>3, <3>4, <3>5
      <3> QED
        BY <2>3, <2>4, <3>1, <3>6
    <2> QED
      BY <2>5, <2>6
  <1>6. \A n \in Nat : n \in S
    <2> HIDE DEF S
    <2> QED
      BY <1>4, <1>5, NatSetInduction
  <1>7. /\ reach[N] \subseteq Entry
        /\ pTree # NULL => pTree \in reach[N]
        /\ Closed(reach[N]) \/ Cardinality(reach[N]) >= N + 1
    <2>1. N \in S
      BY <1>6
    <2> QED
      BY <2>1
  <1>8. Cardinality(reach[N]) <= N /\ Cardinality(reach[N]) \in Nat
    BY <1>7, FS_Subset, FS_CardinalityType, DmassAssumption
  <1>9. More(reach[N]) \subseteq reach[N]
    BY <1>7, <1>8
  <1>10. \A d \in reach[N] : ListCells(next_dir[d]) \subseteq More(reach[N])
    BY DEF More
  <1> QED
    BY <1>1, <1>7, <1>9, <1>10

\* An entry of the tree is the root or in the list of a directory of the tree.
LEMMA ReachFrom ==
    ASSUME TypeOK, NEW e \in Reachable
    PROVE  e = pTree \/ \E d \in Reachable : e \in ListCells(next_dir[d])
  <1> DEFINE X == {c \in Reachable :
                      c = pTree \/ \E d \in Reachable : c \in ListCells(next_dir[d])}
  <1>1. pTree # NULL => pTree \in X
    BY ReachClosed
  <1>2. \A d \in X : ListCells(next_dir[d]) \subseteq X
    BY ReachClosed
  <1>3. Reachable \subseteq X
    <2> HIDE DEF X
    <2> QED
      BY <1>1, <1>2, ReachLeast
  <1> QED
    BY <1>3

\* The root has no sibling, and no name but its own.
RootAlone == pTree # NULL => next[pTree] = NULL /\ name[pTree] \in {RootName, NULL}

\* The entries of the tree are closed under the links.
LEMMA ReachShape ==
    ASSUME TypeOK, NEW T, Shape(T), RootAlone
    PROVE  Shape(Reachable) /\ Reachable \subseteq T
  <1>1. Reachable \subseteq T
    <2>1. pTree # NULL => pTree \in T
      BY DEF Shape
    <2>2. \A d \in T : ListCells(next_dir[d]) \subseteq T
      BY DirList
    <2> QED
      BY <2>1, <2>2, ReachLeast
  <1>2. \A d \in Reachable : next_dir[d] \in Reachable \cup {NULL}
    BY <1>1, ReachClosed, DirList
  <1>3. ASSUME NEW c \in Reachable
        PROVE  next[c] \in Reachable \cup {NULL}
    <2>1. CASE c = pTree
      <3>1. c # NULL
        BY <1>1, DmassAssumption DEF Shape, TypeOK
      <3> QED
        BY <2>1, <3>1 DEF RootAlone
    <2>2. CASE c # pTree
      <3>1. PICK d \in Reachable : c \in ListCells(next_dir[d])
        BY <2>2, ReachFrom
      <3>2. next[c] \in ListCells(next_dir[d]) \cup {NULL}
        BY <1>1, <3>1, DirList
      <3> QED
        BY <3>1, <3>2, ReachClosed
    <2> QED
      BY <2>1, <2>2
  <1>4. pTree # NULL => pTree \in Reachable
    BY ReachClosed
  <1> QED
    BY <1>1, <1>2, <1>3, <1>4 DEF Shape

\* What the walks say of lists and of the tree, for every list and every set.
WalksRight ==
    /\ Shape(Reachable)
    /\ \A d \in Entry, X \in SUBSET Entry :
          next_dir[d] \in X \cup {NULL} /\ (\A c \in X : next[c] \in X \cup {NULL})
             => ListCells(next_dir[d]) \subseteq X
    /\ \A d \in Reachable :
          /\ ListCells(next_dir[d]) \subseteq Reachable
          /\ next_dir[d] \in ListCells(next_dir[d]) \cup {NULL}
          /\ \A c \in ListCells(next_dir[d]) : next[c] \in ListCells(next_dir[d]) \cup {NULL}
    /\ \A X \in SUBSET Entry :
          (pTree # NULL => pTree \in X) /\ (\A c \in X : /\ next[c] \in X \cup {NULL}
                                                         /\ next_dir[c] \in X \cup {NULL})
             => Reachable \subseteq X

LEMMA WalksAreRight == IInv /\ TreeInv /\ RootAlone => WalksRight
  <1> SUFFICES ASSUME TypeOK, NEW T, Shape(T), RootAlone
               PROVE  WalksRight
    BY DEF IInv, TreeInv
  <1>1. Shape(Reachable)
    BY ReachShape
  <1>2. ASSUME NEW d \in Entry, NEW X \in SUBSET Entry,
               next_dir[d] \in X \cup {NULL}, \A c \in X : next[c] \in X \cup {NULL}
        PROVE  ListCells(next_dir[d]) \subseteq X
    BY <1>2, ListLeast
  <1>3. ASSUME NEW d \in Reachable
        PROVE  /\ ListCells(next_dir[d]) \subseteq Reachable
               /\ next_dir[d] \in ListCells(next_dir[d]) \cup {NULL}
               /\ \A c \in ListCells(next_dir[d]) : next[c] \in ListCells(next_dir[d]) \cup {NULL}
    BY <1>1, DirList
  <1>4. ASSUME NEW X \in SUBSET Entry, pTree # NULL => pTree \in X,
               \A c \in X : next[c] \in X \cup {NULL} /\ next_dir[c] \in X \cup {NULL}
        PROVE  Reachable \subseteq X
    <2>1. \A d \in X : ListCells(next_dir[d]) \subseteq X
      BY <1>4, ListLeast
    <2> QED
      BY <1>4, <2>1, ReachLeast
  <1> QED
    BY <1>1, <1>2, <1>3, <1>4 DEF WalksRight

-----------------------------------------------------------------------------
(* The root stays alone *)

\* What the unlinking of an entry of a list leaves of the links of the tree:
\* a link that led to the entry leads to the one after it.
LEMMA UnlinkLinks ==
    ASSUME TypeOK, NEW T, Shape(T), NEW d \in T, NEW e \in ListCells(next_dir[d])
    PROVE  /\ e \in T /\ e # pTree
           /\ \A c \in T : NextAfterUnlink(d, e)[c] = IF next[c] = e THEN next[e] ELSE next[c]
           /\ \A c \in T : NextDirAfterUnlink(d, e)[c]
                             = IF next_dir[c] = e THEN next[e] ELSE next_dir[c]
           /\ next[e] # e
           /\ DOMAIN NextAfterUnlink(d, e) = Entry /\ DOMAIN NextDirAfterUnlink(d, e) = Entry
  <1>1. T \subseteq Entry /\ NULL \notin T
    BY DmassAssumption DEF Shape, TypeOK
  <1>2. ListCells(next_dir[d]) \subseteq T
    BY DirList
  <1>3. e # NULL /\ (e = next_dir[d] \/ \E c \in ListCells(next_dir[d]) : next[c] = e)
    BY ListLeadsTo
  <1>4. e \in T /\ e # pTree
    BY <1>1, <1>2, <1>3 DEF Shape
  <1>5. ASSUME NEW c \in T
        PROVE  NextAfterUnlink(d, e)[c] = IF next[c] = e THEN next[e] ELSE next[c]
    <2>1. NextAfterUnlink(d, e)[c] = IF next_dir[d] # e /\ c \in ListCells(next_dir[d])
                                                        /\ next[c] = e
                                     THEN next[e] ELSE next[c]
      BY <1>1 DEF NextAfterUnlink
    <2>2. ASSUME next[c] = e
          PROVE  next_dir[d] # e /\ c \in ListCells(next_dir[d])
      <3>1. next_dir[d] # e
        BY <1>3, <2>2 DEF Shape
      <3>2. PICK b \in ListCells(next_dir[d]) : next[b] = e
        BY <1>3, <3>1
      <3>3. b = c
        BY <1>2, <1>3, <2>2, <3>2 DEF Shape
      <3> QED
        BY <3>1, <3>2, <3>3
    <2> QED
      BY <2>1, <2>2
  <1>6. ASSUME NEW c \in T
        PROVE  NextDirAfterUnlink(d, e)[c] = IF next_dir[c] = e THEN next[e] ELSE next_dir[c]
    <2>1. NextDirAfterUnlink(d, e)[c] = IF c = d /\ next_dir[d] = e THEN next[e] ELSE next_dir[c]
      BY <1>1 DEF NextDirAfterUnlink, TypeOK
    <2>2. next_dir[c] = e => c = d
      BY <1>2, <1>3 DEF Shape
    <2> QED
      BY <2>1, <2>2
  <1>7. next[e] # e
    <2>1. CASE e = next_dir[d]
      BY <1>3, <1>4, <2>1 DEF Shape
    <2>2. CASE e # next_dir[d]
      <3> SUFFICES ASSUME next[e] = e PROVE FALSE
        OBVIOUS
      <3> DEFINE X == T \ {e}
      <3>1. next_dir[d] \in X \cup {NULL}
        BY <2>2 DEF Shape
      <3>2. \A c \in X : next[c] \in X \cup {NULL}
        BY <1>3, <1>4 DEF Shape
      <3>3. ListCells(next_dir[d]) \subseteq X
        <4> HIDE DEF X
        <4> QED
          BY <3>1, <3>2, ListLeast
      <3> QED
        BY <3>3
    <2> QED
      BY <2>1, <2>2
  <1>8. DOMAIN NextAfterUnlink(d, e) = Entry /\ DOMAIN NextDirAfterUnlink(d, e) = Entry
    BY DEF NextAfterUnlink, NextDirAfterUnlink, TypeOK
  <1> QED
    BY <1>4, <1>5, <1>6, <1>7, <1>8

\* What a step does to the tree when it does anything: the root, a new entry,
\* an entry unlinked and perhaps freed, an entry moved.
SetsRoot(e) ==
    /\ pTree = NULL /\ pTree' = e /\ e \in Entry
    /\ CreateInfo(e, NULL, "dir", RootName)

Creates(e, d, m, path) ==
    /\ e \in Entry /\ path \in Path
    /\ \E dv \in Vnode : DirVnode(dv, path) /\ d = dev_info[dv]
    /\ d \in Entry /\ mode[d] # "reg"
    /\ get_fs_entry(path) = NULL
    /\ CreateInfo(e, d, m, Leaf(path))
    /\ pTree' = pTree

Unlinks(e, d) ==
    /\ d \in Entry /\ e \in Entry
    /\ \E dv \in Vnode, path \in Path : DirVnode(dv, path) /\ d = dev_info[dv]
    /\ e \in ListCells(next_dir[d])
    /\ mode[e] = "reg" \/ next_dir[e] = NULL
    /\ next' = NextAfterUnlink(d, e)
    /\ next_dir' = NextDirAfterUnlink(d, e)
    /\ \/ live' = live /\ name' = name /\ ret' = "ERR"
       \/ live' = live \ {e} /\ name' = [name EXCEPT ![e] = NULL]
    /\ UNCHANGED <<pTree, mode>>

Moves(e, d, nd, n, newPath) ==
    /\ e \in Entry /\ d \in Entry /\ nd \in Entry /\ newPath \in Path
    /\ \E dv \in Vnode, path \in Path : DirVnode(dv, path) /\ d = dev_info[dv]
    /\ \E dv \in Vnode : DirVnode(dv, newPath) /\ nd = dev_info[dv]
    /\ RenameAllowed(e, newPath)
    /\ e \in ListCells(next_dir[d])
    /\ next' = [NextAfterUnlink(d, e) EXCEPT ![e] = NextDirAfterUnlink(d, e)[nd]]
    /\ next_dir' = [NextDirAfterUnlink(d, e) EXCEPT ![nd] = e]
    /\ name' = [name EXCEPT ![e] = n]
    /\ UNCHANGED <<pTree, live, mode>>

LEMMA TreeSteps ==
    ASSUME IInv, [Next]_vars
    PROVE  \/ UNCHANGED treeVars
           \/ \E e : SetsRoot(e)
           \/ \E e, d, m, path : Creates(e, d, m, path)
           \/ \E e, d : Unlinks(e, d)
           \/ \E e, d, nd, n, newPath : Moves(e, d, nd, n, newPath)
  <1>1. CASE Refuse \/ Panic \/ UNCHANGED vars
    BY <1>1 DEF Refuse, Panic, vars, treeVars
  <1>2. ASSUME NEW e \in Entry, NEW v \in Vnode, vfs_set_root(e, v), ~Refuse
        PROVE  SetsRoot(e)
    BY <1>2 DEF vfs_set_root, SetsRoot
  <1>3. ASSUME NEW path \in Path, NEW v \in Vnode, vop_part_init(path, v)
        PROVE  UNCHANGED treeVars
    BY <1>3 DEF vop_part_init, Refuse, Panic
  <1>4. ASSUME NEW dv \in Vnode, NEW path \in Path, NEW m \in Mode, DirVnode(dv, path),
               mode[dev_info[dv]] = "dir", MakeEntry(dev_info[dv], m, path), ~Refuse, ~Panic
        PROVE  \E e : Creates(e, dev_info[dv], m, path)
    <2>1. dev_info[dv] \in Entry
      BY <1>4, DirVnodeType
    <2>2. get_fs_entry(path) = NULL /\ LinkNewEntry(dev_info[dv], m, Leaf(path))
      BY <1>4 DEF MakeEntry
    <2>3. PICK e \in Entry : CreateInfo(e, dev_info[dv], m, Leaf(path))
      BY <1>4, <2>2 DEF LinkNewEntry
    <2>4. pTree' = pTree
      BY <1>4, <2>2 DEF LinkNewEntry
    <2>5. Creates(e, dev_info[dv], m, path)
      BY <1>4, <2>1, <2>2, <2>3, <2>4 DEF Creates
    <2> QED
      BY <2>5
  <1>5. ASSUME NEW dv \in Vnode, NEW path \in Path,
               vop_create(dv, path) \/ vop_mkdir(dv, path), ~Refuse, ~Panic
        PROVE  \E e, d, m, p : Creates(e, d, m, p)
    <2>1. "reg" \in Mode /\ "dir" \in Mode
      BY DEF Mode
    <2> QED
      BY <1>4, <1>5, <2>1 DEF vop_create, vop_mkdir
  <1>6. ASSUME NEW dv \in Vnode, NEW path \in Path,
               vop_remove(dv, path) \/ vop_rmdir(dv, path), ~Refuse, ~Panic
        PROVE  \E e, d : Unlinks(e, d)
    <2>1. DirVnode(dv, path) /\ dev_info[dv] \in Entry
      BY <1>6, DirVnodeType DEF vop_remove, vop_rmdir
    <2>2. PICK e \in Entry : /\ mode[e] = "reg" \/ next_dir[e] = NULL
                             /\ UnlinkAndDelete(e, dev_info[dv])
      BY <1>6 DEF vop_remove, vop_rmdir
    <2>3. /\ e \in ListCells(next_dir[dev_info[dv]])
          /\ next' = NextAfterUnlink(dev_info[dv], e)
          /\ next_dir' = NextDirAfterUnlink(dev_info[dv], e)
          /\ delete_dmass_info(e)
          /\ UNCHANGED <<pTree, mode>>
      BY <1>6, <2>2 DEF UnlinkAndDelete
    <2>4. \/ live' = live /\ name' = name /\ ret' = "ERR"
          \/ live' = live \ {e} /\ name' = [name EXCEPT ![e] = NULL]
      BY <2>3 DEF delete_dmass_info, Return
    <2>5. Unlinks(e, dev_info[dv])
      BY <2>1, <2>2, <2>3, <2>4 DEF Unlinks
    <2> QED
      BY <2>5
  <1>7. ASSUME NEW dv \in Vnode, NEW ndv \in Vnode, NEW path \in Path, NEW newPath \in Path,
               vop_rename(dv, path, ndv, newPath), ~Refuse, ~Panic
        PROVE  \E e, d, nd, n, p : Moves(e, d, nd, n, p)
    <2>1. /\ DirVnode(dv, path) /\ dev_info[dv] \in Entry
          /\ DirVnode(ndv, newPath) /\ dev_info[ndv] \in Entry
      BY <1>7, DirVnodeType DEF vop_rename
    <2>2. PICK e \in Entry : /\ RenameAllowed(e, newPath)
                             /\ MoveEntry(e, dev_info[dv], dev_info[ndv], Leaf(newPath))
      BY <1>7 DEF vop_rename
    <2> DEFINE d == dev_info[dv]
               nd == dev_info[ndv]
    <2>3. /\ e \in ListCells(next_dir[d])
          /\ next' = [NextAfterUnlink(d, e) EXCEPT ![e] = NextDirAfterUnlink(d, e)[nd]]
          /\ next_dir' = [NextDirAfterUnlink(d, e) EXCEPT ![nd] = e]
          /\ \E n \in {Leaf(newPath), NULL} : name' = [name EXCEPT ![e] = n]
          /\ UNCHANGED <<pTree, live, mode>>
      BY <1>7, <2>2 DEF MoveEntry
    <2>4. PICK n : name' = [name EXCEPT ![e] = n]
      BY <2>3
    <2>5. Moves(e, d, nd, n, newPath)
      BY <2>1, <2>2, <2>3, <2>4 DEF Moves
    <2> QED
      BY <2>5
  <1>8. ASSUME NEW f \in File, CloseObject(f) \/ vop_dread(f)
        PROVE  UNCHANGED treeVars
    BY <1>8 DEF CloseObject, vop_dread, Refuse, Panic
  <1>9. ASSUME NEW v \in Vnode, NEW f \in File, vop_open(v, f) \/ vop_dopen(v, f)
        PROVE  UNCHANGED treeVars
    BY <1>9 DEF vop_open, vop_dopen, OpenObject, Refuse
  <1>10. ASSUME NEW v \in Vnode, vop_inactive(v)
         PROVE  UNCHANGED treeVars
    BY <1>10 DEF vop_inactive
  <1>11. CASE Next /\ ~(Refuse \/ Panic \/ UNCHANGED vars)
    BY <1>2, <1>3, <1>5, <1>6, <1>7, <1>8, <1>9, <1>10, <1>11
       DEF Next, Halted, vop_close, vop_dclose
  <1> QED
    BY <1>1, <1>11

\* The root keeps its name or loses it, and never gets a sibling.
LEMMA RootAloneStep == IInv /\ TreeInv /\ RootAlone /\ [Next]_vars => RootAlone'
  <1> SUFFICES ASSUME TypeOK, IInv, NEW T, Shape(T), RootAlone, [Next]_vars
               PROVE  RootAlone'
    BY DEF IInv, TreeInv
  <1>1. CASE UNCHANGED treeVars
    BY <1>1 DEF RootAlone, treeVars
  <1>2. ASSUME NEW e, SetsRoot(e)
        PROVE  RootAlone'
    BY <1>2 DEF SetsRoot, CreateInfo, TypeOK, RootAlone
  <1>3. ASSUME NEW e, NEW d, NEW m, NEW path, Creates(e, d, m, path)
        PROVE  RootAlone'
    BY <1>3 DEF Creates, CreateInfo, TypeOK, RootAlone, Shape
  <1>4. ASSUME NEW e, NEW d, Unlinks(e, d)
        PROVE  RootAlone'
    <2>1. d \in T
      BY <1>4, DirStays DEF Unlinks
    <2>2. \A c \in T : next'[c] = IF next[c] = e THEN next[e] ELSE next[c]
      BY <1>4, <2>1, UnlinkLinks DEF Unlinks
    <2>3. pTree # NULL => name'[pTree] \in {name[pTree], NULL}
      BY <1>4 DEF Unlinks, TypeOK, EntryOrNull
    <2>4. e # NULL
      BY <1>4, DmassAssumption DEF Unlinks
    <2> QED
      BY <1>4, <2>2, <2>3, <2>4 DEF RootAlone, Unlinks, Shape
  <1>5. ASSUME NEW e, NEW d, NEW nd, NEW n, NEW newPath, Moves(e, d, nd, n, newPath)
        PROVE  RootAlone'
    <2>1. d \in T
      BY <1>5, DirStays DEF Moves
    <2>2. /\ e # pTree /\ e # NULL
          /\ \A c \in T : NextAfterUnlink(d, e)[c] = IF next[c] = e THEN next[e] ELSE next[c]
          /\ DOMAIN NextAfterUnlink(d, e) = Entry
      BY <1>5, <2>1, UnlinkLinks, DmassAssumption DEF Moves
    <2>3. T \subseteq Entry
      BY DEF Shape, TypeOK
    <2>4. pTree # NULL => next'[pTree] = next[pTree] /\ name'[pTree] = name[pTree]
      <3> SUFFICES ASSUME pTree # NULL
                   PROVE  next'[pTree] = next[pTree] /\ name'[pTree] = name[pTree]
        OBVIOUS
      <3>1. pTree \in T /\ pTree \in Entry /\ next[pTree] = NULL
        BY <2>3 DEF Shape, RootAlone
      <3>2. NextAfterUnlink(d, e)[pTree] = next[pTree]
        BY <2>2, <3>1
      <3>3. next'[pTree] = NextAfterUnlink(d, e)[pTree]
        BY <1>5, <2>2, <3>1 DEF Moves
      <3>4. name'[pTree] = name[pTree]
        BY <1>5, <2>2, <3>1 DEF Moves, TypeOK
      <3> QED
        BY <3>2, <3>3, <3>4
    <2> QED
      BY <1>5, <2>4 DEF RootAlone, Moves
  <1> QED
    BY <1>1, <1>2, <1>3, <1>4, <1>5, TreeSteps

-----------------------------------------------------------------------------
(* What a step leaves of the tree *)

\* The state of the tree that the proofs below use before and after a step.
Tidy == IInv /\ TreeInv /\ RootAlone /\ WalksRight

LEMMA TidyInvariance == Spec => []Tidy
  <1>1. Init => RootAlone
    BY DEF Init, RootAlone
  <1>2. Spec => []RootAlone
    BY <1>1, RootAloneStep, Invariance, TreeInvariance, PTL DEF Spec
  <1>3. Spec => [](IInv /\ TreeInv /\ RootAlone)
    BY <1>2, Invariance, TreeInvariance, PTL
  <1>4. IInv /\ TreeInv /\ RootAlone => Tidy
    BY WalksAreRight DEF Tidy
  <1> QED
    BY <1>3, <1>4, PTL

LEMMA TidyFacts ==
    ASSUME Tidy
    PROVE  /\ TypeOK /\ Shape(Reachable)
           /\ Reachable \subseteq Entry /\ Reachable \subseteq live /\ NULL \notin Reachable
           /\ pTree # NULL => pTree \in Reachable
           /\ \A c \in Reachable : /\ next[c] \in Reachable \cup {NULL}
                                   /\ next_dir[c] \in Reachable \cup {NULL}
  BY DmassAssumption DEF Tidy, IInv, WalksRight, Shape, TypeOK

LEMMA TidyFactsNext ==
    ASSUME Tidy'
    PROVE  /\ TypeOK' /\ Shape(Reachable)'
           /\ Reachable' \subseteq Entry /\ Reachable' \subseteq live' /\ NULL \notin Reachable'
           /\ pTree' # NULL => pTree' \in Reachable'
           /\ \A c \in Reachable' : /\ next'[c] \in Reachable' \cup {NULL}
                                    /\ next_dir'[c] \in Reachable' \cup {NULL}
  BY DmassAssumption DEF Tidy, IInv, WalksRight, Shape, TypeOK

\* The form in which a set is shown to hold all of the tree.
LEMMA TreeWithin ==
    ASSUME Tidy, NEW X, X \subseteq Entry, pTree # NULL => pTree \in X,
           \A c \in X : next[c] \in X \cup {NULL} /\ next_dir[c] \in X \cup {NULL}
    PROVE  Reachable \subseteq X
  BY DEF Tidy, WalksRight

LEMMA TreeWithinNext ==
    ASSUME Tidy', NEW X, X \subseteq Entry, pTree' # NULL => pTree' \in X,
           \A c \in X : next'[c] \in X \cup {NULL} /\ next_dir'[c] \in X \cup {NULL}
    PROVE  Reachable' \subseteq X
  BY DEF Tidy, WalksRight

LEMMA QuietKeeps ==
    ASSUME Tidy, Tidy', UNCHANGED treeVars
    PROVE  Reachable' = Reachable
  <1>1. Reachable \subseteq Reachable'
    BY TidyFactsNext, TreeWithin DEF treeVars
  <1>2. Reachable' \subseteq Reachable
    BY TidyFacts, TreeWithinNext DEF treeVars
  <1> QED
    BY <1>1, <1>2

\* Before the root is set the tree is empty, and afterwards it is the root.
LEMMA SetRootTree ==
    ASSUME Tidy, Tidy', NEW e, SetsRoot(e)
    PROVE  Reachable = {} /\ Reachable' \subseteq {e} /\ next_dir'[e] = NULL
  <1>1. Reachable = {}
    <2> DEFINE X == {}
    <2>1. /\ X \subseteq Entry /\ (pTree # NULL => pTree \in X)
          /\ \A c \in X : next[c] \in X \cup {NULL} /\ next_dir[c] \in X \cup {NULL}
      BY DEF SetsRoot
    <2>2. Reachable \subseteq X
      <3> HIDE DEF X
      <3> QED
        BY <2>1, TreeWithin
    <2> QED
      BY <2>2
  <1>2. /\ {e} \subseteq Entry /\ pTree' \in {e}
        /\ next'[e] = NULL /\ next_dir'[e] = NULL
    BY TidyFacts DEF SetsRoot, CreateInfo, TypeOK
  <1>3. Reachable' \subseteq {e}
    BY <1>2, TreeWithinNext
  <1> QED
    BY <1>1, <1>2, <1>3

\* A new entry is the first of its directory, and the other links stay.
LEMMA CreateLinks ==
    ASSUME Tidy, NEW e, NEW d, NEW m, NEW path, Creates(e, d, m, path)
    PROVE  /\ e \in Entry /\ e \notin Reachable /\ d \in Reachable
           /\ next'[e] = next_dir[d] /\ next_dir'[e] = NULL
           /\ \A c \in Reachable : /\ next'[c] = next[c] /\ name'[c] = name[c]
                                   /\ next_dir'[c] = IF c = d THEN e ELSE next_dir[c]
           /\ name'[e] \in {Leaf(path), NULL}
           /\ live' = live \cup {e} /\ pTree' = pTree
  <1>1. d \in Reachable
    BY TidyFacts, DirStays DEF Creates
  <1>2. e \in Entry /\ e \notin Reachable
    BY TidyFacts DEF Creates, CreateInfo
  <1>3. d # NULL /\ d # e
    BY <1>1, <1>2, TidyFacts
  <1> QED
    BY <1>1, <1>2, <1>3, TidyFacts DEF Creates, CreateInfo, TypeOK

LEMMA CreateKeeps ==
    ASSUME Tidy, Tidy', NEW e, NEW d, NEW m, NEW path, Creates(e, d, m, path)
    PROVE  Reachable \subseteq Reachable'
  <1> DEFINE X == Reachable \cap Reachable'
  <1>1. X \subseteq Entry /\ (pTree # NULL => pTree \in X)
    BY TidyFacts, TidyFactsNext, CreateLinks
  <1>2. ASSUME NEW c \in X
        PROVE  next[c] \in X \cup {NULL} /\ next_dir[c] \in X \cup {NULL}
    <2>1. next[c] \in X \cup {NULL}
      BY TidyFacts, TidyFactsNext, CreateLinks
    <2>2. CASE c # d
      BY <2>1, <2>2, TidyFacts, TidyFactsNext, CreateLinks
    <2>3. CASE c = d
      <3>1. e \in Reachable'
        <4>1. d \in Reachable' /\ next_dir'[d] = e /\ e \in Entry
          BY <2>3, CreateLinks
        <4>2. e # NULL
          BY <4>1, DmassAssumption
        <4> QED
          BY <4>1, <4>2, TidyFactsNext
      <3>2. next_dir[d] \in Reachable' \cup {NULL}
        BY <3>1, TidyFactsNext, CreateLinks
      <3> QED
        BY <2>1, <2>3, <3>2, TidyFacts
    <2> QED
      BY <2>2, <2>3
  <1>3. Reachable \subseteq X
    <2> HIDE DEF X
    <2> QED
      BY <1>1, <1>2, TreeWithin
  <1> QED
    BY <1>3

\* The links around an entry that is unlinked, as in UnlinkLinks.
LEMMA UnlinksLinks ==
    ASSUME Tidy, NEW e, NEW d, Unlinks(e, d)
    PROVE  /\ e \in Reachable /\ d \in Reachable /\ e # pTree /\ next_dir[e] = NULL
           /\ \A c \in Reachable :
                 /\ next'[c] = IF next[c] = e THEN next[e] ELSE next[c]
                 /\ next_dir'[c] = IF next_dir[c] = e THEN next[e] ELSE next_dir[c]
           /\ pTree' = pTree
  <1>1. d \in Reachable
    BY TidyFacts, DirStays DEF Unlinks
  <1>2. /\ e \in Reachable /\ e # pTree
        /\ \A c \in Reachable :
              /\ NextAfterUnlink(d, e)[c] = IF next[c] = e THEN next[e] ELSE next[c]
              /\ NextDirAfterUnlink(d, e)[c] = IF next_dir[c] = e THEN next[e] ELSE next_dir[c]
    BY <1>1, TidyFacts, UnlinkLinks DEF Unlinks
  <1>3. next_dir[e] = NULL
    BY <1>2, TidyFacts DEF Unlinks, Shape
  <1> QED
    BY <1>1, <1>2, <1>3 DEF Unlinks

LEMMA UnlinkKeeps ==
    ASSUME Tidy, Tidy', NEW e, NEW d, Unlinks(e, d)
    PROVE  Reachable \subseteq Reachable' \cup {e}
  <1> DEFINE X == {c \in Reachable : IF c = e THEN next[e] \in Reachable' \cup {NULL}
                                              ELSE c \in Reachable'}
  <1>1. X \subseteq Entry /\ (pTree # NULL => pTree \in X)
    BY TidyFacts, TidyFactsNext, UnlinksLinks
  <1>2. ASSUME NEW c \in X
        PROVE  next[c] \in X \cup {NULL} /\ next_dir[c] \in X \cup {NULL}
    <2>1. c \in Reachable /\ next[c] \in Reachable \cup {NULL}
                           /\ next_dir[c] \in Reachable \cup {NULL}
      BY TidyFacts
    <2>2. CASE c = e
      <3>1. next[e] \in Reachable' \cup {NULL} /\ next_dir[e] = NULL
        BY <2>2, UnlinksLinks
      <3> QED
        BY <2>1, <2>2, <3>1
    <2>3. CASE c # e
      <3>1. next'[c] \in Reachable' \cup {NULL} /\ next_dir'[c] \in Reachable' \cup {NULL}
        BY <2>3, TidyFactsNext
      <3>2. /\ next'[c] = IF next[c] = e THEN next[e] ELSE next[c]
            /\ next_dir'[c] = IF next_dir[c] = e THEN next[e] ELSE next_dir[c]
        BY <2>1, UnlinksLinks
      <3> QED
        BY <2>1, <3>1, <3>2
    <2> QED
      BY <2>2, <2>3
  <1>3. Reachable \subseteq X
    <2> HIDE DEF X
    <2> QED
      BY <1>1, <1>2, TreeWithin
  <1> QED
    BY <1>3

-----------------------------------------------------------------------------
(* Paths *)

\* The walk of a path goes through what its prefixes lead to.
LEMMA PathFirst ==
    ASSUME NEW path \in Seq(Name), Len(path) >= 1
    PROVE  get_fs_entry(SubSeq(path, 1, 1)) = FindInList(pTree, path[1])
  <1> DEFINE p == SubSeq(path, 1, 1)
  <1>1. Len(p) = 1 /\ p[1] = path[1]
    OBVIOUS
  <1> HIDE DEF p
  <1>2. Len(p) \in Nat \ {0}
    BY <1>1
  <1>3. PICK at : /\ get_fs_entry(p) = at[Len(p)]
                  /\ at[1] = FindInList(pTree, p[1])
    BY <1>2, PathWalkIs
  <1> QED
    BY <1>1, <1>3 DEF p

LEMMA PathNext ==
    ASSUME NEW path \in Seq(Name), NEW k \in 1..Len(path), k + 1 <= Len(path),
           NEW d, d = get_fs_entry(SubSeq(path, 1, k))
    PROVE  get_fs_entry(SubSeq(path, 1, k + 1))
             = IF d \in {NULL, Fault} THEN d ELSE FindInList(next_dir[d], path[k + 1])
  <1> DEFINE p == SubSeq(path, 1, k)
             q == SubSeq(path, 1, k + 1)
  <1>1. Len(path) \in Nat /\ k \in Nat /\ k >= 1
    OBVIOUS
  <1>2. Len(p) = k /\ Len(q) = k + 1
    BY <1>1
  <1>3. \A j \in 1..k : p[j] = path[j] /\ q[j] = path[j]
    BY <1>1
  <1>4. q[k + 1] = path[k + 1]
    BY <1>1
  <1>5. d = get_fs_entry(p)
    OBVIOUS
  <1> HIDE DEF p, q
  <1>6. Len(p) \in Nat \ {0} /\ Len(q) \in Nat \ {0}
    BY <1>1, <1>2
  <1>7. PICK at : /\ get_fs_entry(p) = at[k]
                  /\ at[1] = FindInList(pTree, p[1])
                  /\ \A j \in 2..k :
                        at[j] = IF at[j - 1] \in {NULL, Fault} THEN at[j - 1]
                                ELSE FindInList(next_dir[at[j - 1]], p[j])
    <2>1. \E at : /\ get_fs_entry(p) = at[Len(p)]
                  /\ at[1] = FindInList(pTree, p[1])
                  /\ \A j \in 2..Len(p) :
                        at[j] = IF at[j - 1] \in {NULL, Fault} THEN at[j - 1]
                                ELSE FindInList(next_dir[at[j - 1]], p[j])
      BY <1>6, PathWalkIs
    <2> QED
      BY <1>2, <2>1
  <1>8. PICK bt : /\ get_fs_entry(q) = bt[k + 1]
                  /\ bt[1] = FindInList(pTree, q[1])
                  /\ \A j \in 2..(k + 1) :
                        bt[j] = IF bt[j - 1] \in {NULL, Fault} THEN bt[j - 1]
                                ELSE FindInList(next_dir[bt[j - 1]], q[j])
    <2>1. \E bt : /\ get_fs_entry(q) = bt[Len(q)]
                  /\ bt[1] = FindInList(pTree, q[1])
                  /\ \A j \in 2..Len(q) :
                        bt[j] = IF bt[j - 1] \in {NULL, Fault} THEN bt[j - 1]
                                ELSE FindInList(next_dir[bt[j - 1]], q[j])
      BY <1>6, PathWalkIs
    <2> QED
      BY <1>2, <2>1
  <1> DEFINE S == {n \in Nat : n + 1 <= k => at[n + 1] = bt[n + 1]}
  <1>9. 0 \in S
    <2>1. p[1] = q[1]
      BY <1>1, <1>3
    <2> QED
      BY <1>7, <1>8, <2>1
  <1>10. ASSUME NEW n \in Nat, n \in S
         PROVE  n + 1 \in S
    <2> SUFFICES ASSUME (n + 1) + 1 <= k
                 PROVE  at[(n + 1) + 1] = bt[(n + 1) + 1]
      OBVIOUS
    <2> DEFINE j == (n + 1) + 1
    <2>1. j \in 2..k /\ j \in 2..(k + 1) /\ j - 1 = n + 1 /\ n + 1 <= k /\ j \in 1..k
      BY <1>1
    <2>2. p[j] = q[j]
      BY <1>3, <2>1
    <2>3. at[j - 1] = bt[j - 1]
      BY <1>10, <2>1
    <2> HIDE DEF j
    <2>4. at[j] = IF at[j - 1] \in {NULL, Fault} THEN at[j - 1]
                  ELSE FindInList(next_dir[at[j - 1]], p[j])
      BY <1>7, <2>1
    <2>5. bt[j] = IF bt[j - 1] \in {NULL, Fault} THEN bt[j - 1]
                  ELSE FindInList(next_dir[bt[j - 1]], q[j])
      BY <1>8, <2>1
    <2>6. at[j] = bt[j]
      BY <2>2, <2>3, <2>4, <2>5
    <2> QED
      BY <2>6 DEF j
  <1>11. \A n \in Nat : n \in S
    <2> HIDE DEF S
    <2> QED
      BY <1>9, <1>10, NatSetInduction
  <1>12. at[k] = bt[k]
    <2>1. k - 1 \in Nat /\ (k - 1) + 1 = k /\ k <= k
      BY <1>1
    <2>2. at[(k - 1) + 1] = bt[(k - 1) + 1]
      BY <1>11, <2>1
    <2> QED
      BY <2>1, <2>2
  <1>13. k + 1 \in 2..(k + 1) /\ (k + 1) - 1 = k
    BY <1>1
  <1>14. bt[k + 1] = IF bt[k] \in {NULL, Fault} THEN bt[k]
                     ELSE FindInList(next_dir[bt[k]], q[k + 1])
    BY <1>8, <1>13
  <1>15. d = bt[k]
    BY <1>5, <1>7, <1>12
  <1>16. get_fs_entry(q) = bt[k + 1]
    BY <1>8
  <1>17. get_fs_entry(q) = IF d \in {NULL, Fault} THEN d ELSE FindInList(next_dir[d], path[k + 1])
    BY <1>4, <1>14, <1>15, <1>16
  <1> QED
    BY <1>17 DEF q

\* The root is alone in its list, so a path starts at it or at nothing.
LEMMA PathRoot ==
    ASSUME Tidy, pTree # NULL
    PROVE  FindInList(pTree, RootName) \in {pTree, Fault}
  <1> DEFINE X == {pTree}
  <1>1. pTree \in Entry /\ next[pTree] = NULL /\ name[pTree] \in {RootName, NULL}
    BY TidyFacts DEF Tidy, RootAlone
  <1>2. ListCells(pTree) \subseteq X
    <2>1. pTree \in X \cup {NULL} /\ \A c \in X : next[c] \in X \cup {NULL}
      BY <1>1
    <2> HIDE DEF X
    <2> QED
      BY <2>1, ListLeast
  <1>3. pTree \in ListCells(pTree)
    <2>1. Chain(pTree)[0] = pTree /\ 0 \in 0..Cardinality(Entry)
      BY ChainIs, EntriesCount
    <2> QED
      BY <2>1 DEF ListCells
  <1>4. name[pTree] \in {RootName, NULL}
    BY <1>1
  <1> QED
    BY <1>2, <1>3, <1>4, FindIs

\* The directory part of a path that was resolved, and the one step from it to
\* the entry.
LEMMA PathLeaf ==
    ASSUME Tidy, NEW path \in Path, NEW d \in Entry,
           d = IF Len(path) = 2 THEN pTree ELSE get_fs_entry(Parent(path))
    PROVE  get_fs_entry(path) \in {FindInList(next_dir[d], Leaf(path)), Fault}
  <1>1. path \in Seq(Name) /\ Len(path) \in Nat /\ Len(path) >= 2 /\ path[1] = RootName
    BY DmassAssumption
  <1> DEFINE k == Len(path) - 1
  <1>2. k \in 1..Len(path) /\ k + 1 <= Len(path) /\ k + 1 = Len(path)
    BY <1>1
  <1>3. SubSeq(path, 1, k + 1) = path
    BY <1>1, <1>2
  <1>4. Leaf(path) = path[k + 1]
    BY <1>2 DEF Leaf
  <1>5. Parent(path) = SubSeq(path, 1, k)
    BY DEF Parent
  <1> HIDE DEF k
  <1> DEFINE g == get_fs_entry(SubSeq(path, 1, k))
  <1>6. get_fs_entry(path) = IF g \in {NULL, Fault} THEN g
                             ELSE FindInList(next_dir[g], Leaf(path))
    <2>1. get_fs_entry(SubSeq(path, 1, k + 1)) = IF g \in {NULL, Fault} THEN g
                                                 ELSE FindInList(next_dir[g], path[k + 1])
      BY <1>1, <1>2, PathNext
    <2> HIDE DEF g
    <2> QED
      BY <1>3, <1>4, <2>1
  <1>7. d \notin {NULL, Fault}
    BY DmassAssumption
  <1>8. g \in {d, Fault}
    <2>1. CASE Len(path) = 2
      <3>1. k = 1 /\ d = pTree
        BY <2>1 DEF k
      <3>2. g = FindInList(pTree, RootName)
        BY <1>1, <3>1, PathFirst
      <3> QED
        BY <1>7, <3>1, <3>2, PathRoot
    <2>2. CASE Len(path) # 2
      BY <1>5, <2>2
    <2> QED
      BY <2>1, <2>2
  <1> HIDE DEF g
  <1> QED
    BY <1>6, <1>7, <1>8

-----------------------------------------------------------------------------
(* Names *)

\* Lists before and after a step, in the form the proofs use.
LEMMA DirWithinNext ==
    ASSUME Tidy', NEW X, X \subseteq Entry, NEW d \in Entry, next_dir'[d] \in X \cup {NULL},
           \A c \in X : next'[c] \in X \cup {NULL}
    PROVE  ListCells(next_dir[d])' \subseteq X
  BY DEF Tidy, WalksRight

LEMMA DirFacts ==
    ASSUME Tidy, NEW d \in Reachable
    PROVE  /\ ListCells(next_dir[d]) \subseteq Reachable
           /\ next_dir[d] \in ListCells(next_dir[d]) \cup {NULL}
           /\ \A c \in ListCells(next_dir[d]) : next[c] \in ListCells(next_dir[d]) \cup {NULL}
  BY DEF Tidy, WalksRight

LEMMA DirFactsNext ==
    ASSUME Tidy', NEW d \in Reachable'
    PROVE  /\ ListCells(next_dir[d])' \subseteq Reachable'
           /\ next_dir'[d] \in ListCells(next_dir[d])' \cup {NULL}
           /\ \A c \in ListCells(next_dir[d])' :
                 next'[c] \in ListCells(next_dir[d])' \cup {NULL}
  BY DEF Tidy, WalksRight

\* A directory that had no two entries of a name has none after the step, if
\* the step adds no entry to it under a name it holds, and renames none.
LEMMA TwinsWithin ==
    ASSUME NEW d \in Reachable, NEW L, d \in Twins',
           L \subseteq ListCells(next_dir[d]), \A c \in L : name'[c] \in {name[c], NULL},
           \A c \in ListCells(next_dir[d])' \ L :
              \/ name'[c] = NULL
              \/ \A b \in ListCells(next_dir[d])' : b # c => name'[b] # name'[c]
    PROVE  d \in Twins
  <1>1. PICK c1 \in ListCells(next_dir[d])', c2 \in ListCells(next_dir[d])' :
           c1 # c2 /\ name'[c1] = name'[c2] /\ name'[c1] # NULL
    BY DEF Twins
  <1>2. c1 \in L /\ c2 \in L
    BY <1>1
  <1>3. c1 # c2 /\ name[c1] = name[c2] /\ name[c1] # NULL
    BY <1>1, <1>2
  <1> QED
    BY <1>2, <1>3 DEF Twins

LEMMA CreateNames ==
    ASSUME Tidy, Tidy', NEW e, NEW d, NEW m, NEW path, Creates(e, d, m, path)
    PROVE  Twins' \subseteq Twins
  <1>1. Reachable' \subseteq Reachable \cup {e}
    <2> DEFINE X == Reachable \cup {e}
    <2>1. X \subseteq Entry /\ (pTree' # NULL => pTree' \in X)
      BY TidyFacts, CreateLinks
    <2>2. \A c \in X : next'[c] \in X \cup {NULL} /\ next_dir'[c] \in X \cup {NULL}
      BY TidyFacts, CreateLinks
    <2> HIDE DEF X
    <2>3. Reachable' \subseteq X
      BY <2>1, <2>2, TreeWithinNext
    <2> QED
      BY <2>3 DEF X
  <1> SUFFICES ASSUME NEW b, b \in Twins'
               PROVE  b \in Twins
    OBVIOUS
  <1>2. b \in Reachable' /\ ListCells(next_dir[b])' # {}
    BY DEF Twins
  <1>3. b # e
    <2> SUFFICES ASSUME b = e PROVE FALSE
      OBVIOUS
    <2> DEFINE X == {}
    <2>1. b \in Entry /\ next_dir'[b] \in X \cup {NULL} /\ X \subseteq Entry
      BY CreateLinks
    <2>2. \A c \in X : next'[c] \in X \cup {NULL}
      OBVIOUS
    <2> HIDE DEF X
    <2>3. ListCells(next_dir[b])' \subseteq X
      BY <2>1, <2>2, DirWithinNext
    <2> QED
      BY <1>2, <2>3 DEF X
  <1>4. b \in Reachable /\ b \in Entry
    BY <1>1, <1>2, <1>3, TidyFacts
  <1> DEFINE L == ListCells(next_dir[b])
  <1>5. /\ L \subseteq Reachable /\ next_dir[b] \in L \cup {NULL}
        /\ \A c \in L : next[c] \in L \cup {NULL}
    BY <1>4, DirFacts
  <1>6. \A c \in L : next'[c] = next[c] /\ name'[c] = name[c]
    BY <1>5, CreateLinks
  <1> HIDE DEF L
  <1>7. CASE b # d
    <2>1. next_dir'[b] = next_dir[b]
      BY <1>4, <1>7, CreateLinks
    <2>2. ListCells(next_dir[b])' \subseteq L
      <3>1. L \subseteq Entry
        BY <1>5, TidyFacts
      <3> QED
        BY <1>4, <1>5, <1>6, <2>1, <3>1, DirWithinNext
    <2> QED
      BY <1>4, <1>6, <2>2, TwinsWithin DEF L
  <1>8. CASE b = d
    <2> DEFINE X == L \cup {e}
    <2>1. X \subseteq Entry /\ next_dir'[b] = e
      BY <1>4, <1>5, <1>8, TidyFacts, CreateLinks
    <2>2. \A c \in X : next'[c] \in X \cup {NULL}
      BY <1>5, <1>6, <1>8, CreateLinks
    <2>3. ListCells(next_dir[b])' \subseteq X
      <3>1. next_dir'[b] \in X \cup {NULL}
        BY <2>1
      <3> HIDE DEF X
      <3> QED
        BY <1>4, <2>1, <2>2, <3>1, DirWithinNext
    <2>4. \A c \in L : name[c] # Leaf(path)
      <3>1. get_fs_entry(path) = NULL /\ path \in Path /\ d \in Entry
            /\ d = IF Len(path) = 2 THEN pTree ELSE get_fs_entry(Parent(path))
        BY DEF Creates, DirVnode
      <3>2. FindInList(next_dir[d], Leaf(path)) = NULL
        BY <3>1, PathLeaf, DmassAssumption
      <3>3. FindInList(next_dir[d], Leaf(path)) \notin ListCells(next_dir[d])
            /\ FindInList(next_dir[d], Leaf(path)) # Fault
        BY <1>5, <1>8, <3>2, TidyFacts, DmassAssumption DEF L
      <3> QED
        BY <1>8, <3>3, FindIs DEF L
    <2>5. \A c \in ListCells(next_dir[b])' \ L :
              \/ name'[c] = NULL
              \/ \A a \in ListCells(next_dir[b])' : a # c => name'[a] # name'[c]
      <3> SUFFICES ASSUME NEW c \in ListCells(next_dir[b])' \ L, name'[c] # NULL,
                          NEW a \in ListCells(next_dir[b])', a # c
                   PROVE  name'[a] # name'[c]
        OBVIOUS
      <3>1. c = e /\ a \in L
        BY <2>3
      <3>2. name'[c] = Leaf(path)
        BY <3>1, CreateLinks
      <3>3. name'[a] = name[a]
        BY <1>6, <3>1
      <3> QED
        BY <2>4, <3>1, <3>2, <3>3
    <2> QED
      BY <1>4, <1>6, <2>5, TwinsWithin DEF L
  <1> QED
    BY <1>7, <1>8

LEMMA UnlinkNames ==
    ASSUME Tidy, Tidy', NEW e, NEW d, Unlinks(e, d)
    PROVE  Twins' \subseteq Twins
  <1>1. Reachable' \subseteq Reachable
    <2>1. Reachable \subseteq Entry /\ (pTree' # NULL => pTree' \in Reachable)
      BY TidyFacts, UnlinksLinks
    <2>2. \A c \in Reachable : /\ next'[c] \in Reachable \cup {NULL}
                               /\ next_dir'[c] \in Reachable \cup {NULL}
      BY TidyFacts, UnlinksLinks
    <2> QED
      BY <2>1, <2>2, TreeWithinNext
  <1> SUFFICES ASSUME NEW b, b \in Twins'
               PROVE  b \in Twins
    OBVIOUS
  <1>2. b \in Reachable /\ b \in Entry
    BY <1>1, TidyFacts DEF Twins
  <1> DEFINE L == ListCells(next_dir[b])
  <1>3. /\ L \subseteq Reachable /\ next_dir[b] \in L \cup {NULL}
        /\ \A c \in L : next[c] \in L \cup {NULL}
    BY <1>2, DirFacts
  <1> HIDE DEF L
  <1>4. L \subseteq Entry /\ e # NULL
    BY <1>3, TidyFacts, UnlinksLinks
  <1>5. next_dir'[b] \in L \cup {NULL}
    <2>1. next_dir'[b] = IF next_dir[b] = e THEN next[e] ELSE next_dir[b]
      BY <1>2, UnlinksLinks
    <2> QED
      BY <1>3, <1>4, <2>1
  <1>6. ASSUME NEW c \in L PROVE next'[c] \in L \cup {NULL}
    <2>1. next'[c] = IF next[c] = e THEN next[e] ELSE next[c]
      BY <1>3, UnlinksLinks
    <2> QED
      BY <1>3, <1>4, <2>1
  <1>7. ListCells(next_dir[b])' \subseteq L
    BY <1>2, <1>4, <1>5, <1>6, DirWithinNext
  <1>8. \A c \in L : name'[c] \in {name[c], NULL}
    BY <1>4, TidyFacts DEF Unlinks, TypeOK
  <1> QED
    BY <1>2, <1>7, <1>8, TwinsWithin DEF L

\* Two entries of one directory bear the same name only after a rename put
\* them there, however long the paths and the lists: what vop_create and
\* vop_mkdir look up before they link is looked up in the list they link into.
THEOREM NamesStayUnique == Spec => CreationKeepsNamesUnique
  <1>1. ASSUME Tidy, Tidy', [Next]_vars
        PROVE  [live' # live => Twins' \subseteq Twins]_vars
    <2> SUFFICES ASSUME live' # live
                 PROVE  Twins' \subseteq Twins
      OBVIOUS
    <2>1. CASE UNCHANGED treeVars
      BY <2>1 DEF treeVars
    <2>2. ASSUME NEW e, SetsRoot(e)
          PROVE  Twins' \subseteq Twins
      <3> DEFINE X == {}
      <3>1. Reachable' \subseteq {e} /\ e \in Entry /\ next_dir'[e] \in X \cup {NULL}
        BY <1>1, <2>2, SetRootTree DEF SetsRoot
      <3>2. X \subseteq Entry /\ \A c \in X : next'[c] \in X \cup {NULL}
        OBVIOUS
      <3> HIDE DEF X
      <3>3. ListCells(next_dir[e])' \subseteq X
        BY <1>1, <3>1, <3>2, DirWithinNext
      <3>4. ListCells(next_dir[e])' = {}
        BY <3>3 DEF X
      <3> QED
        BY <3>1, <3>4 DEF Twins
    <2>3. ASSUME NEW e, NEW d, NEW nd, NEW n, NEW newPath, Moves(e, d, nd, n, newPath)
          PROVE  FALSE
      BY <2>3 DEF Moves
    <2>4. IInv
      BY <1>1 DEF Tidy
    <2> QED
      BY <1>1, <2>1, <2>2, <2>3, <2>4, CreateNames, UnlinkNames, TreeSteps
  <1> QED
    BY <1>1, TidyInvariance, PTL DEF Spec, CreationKeepsNamesUnique

-----------------------------------------------------------------------------
(* What a success loses *)

\* The links around an entry that is moved.
LEMMA MoveLinks ==
    ASSUME Tidy, NEW e, NEW d, NEW nd, NEW n, NEW newPath, Moves(e, d, nd, n, newPath)
    PROVE  /\ e \in Reachable /\ nd \in Reachable /\ e # pTree /\ e # NULL /\ next[e] # e
           /\ \A c \in Reachable :
                 /\ c # e => next'[c] = IF next[c] = e THEN next[e] ELSE next[c]
                 /\ c # nd => next_dir'[c] = IF next_dir[c] = e THEN next[e] ELSE next_dir[c]
           /\ next_dir'[nd] = e
           /\ next'[e] = IF next_dir[nd] = e THEN next[e] ELSE next_dir[nd]
           /\ pTree' = pTree /\ live' = live
  <1> DEFINE nexts == NextAfterUnlink(d, e)
             heads == NextDirAfterUnlink(d, e)
  <1>1. d \in Reachable /\ nd \in Reachable
    BY TidyFacts, DirStays DEF Moves
  <1>2. /\ e \in Reachable /\ e # pTree /\ next[e] # e
        /\ \A c \in Reachable :
              /\ nexts[c] = IF next[c] = e THEN next[e] ELSE next[c]
              /\ heads[c] = IF next_dir[c] = e THEN next[e] ELSE next_dir[c]
        /\ DOMAIN nexts = Entry /\ DOMAIN heads = Entry
    BY <1>1, TidyFacts, UnlinkLinks DEF Moves
  <1>3. /\ next' = [nexts EXCEPT ![e] = heads[nd]]
        /\ next_dir' = [heads EXCEPT ![nd] = e]
        /\ pTree' = pTree /\ live' = live
    BY DEF Moves
  <1> HIDE DEF nexts, heads
  <1> QED
    BY <1>1, <1>2, <1>3, TidyFacts

\* What a directory listed before the move it lists after it, but for the entry
\* that is moved.
LEMMA MoveLists ==
    ASSUME Tidy, Tidy', NEW e, NEW d, NEW nd, NEW n, NEW newPath, Moves(e, d, nd, n, newPath),
           NEW b \in Reachable, b \in Reachable'
    PROVE  ListCells(next_dir[b]) \subseteq ListCells(next_dir[b])' \cup {e}
  <1> DEFINE L == ListCells(next_dir[b])'
             X == {c \in Reachable : IF c = e THEN next[e] \in L \cup {NULL} ELSE c \in L}
  <1>1. /\ next_dir'[b] \in L \cup {NULL}
        /\ \A c \in L : next'[c] \in L \cup {NULL}
    BY DirFactsNext
  <1> HIDE DEF L
  <1>2. \A c \in Reachable : /\ next[c] \in Reachable \cup {NULL}
                              /\ next_dir[c] \in Reachable \cup {NULL}
    BY TidyFacts
  <1>3. next_dir[b] \in X \cup {NULL}
    <2>1. CASE b # nd
      <3>1. next_dir'[b] = IF next_dir[b] = e THEN next[e] ELSE next_dir[b]
        BY <2>1, MoveLinks
      <3> QED
        BY <1>1, <1>2, <3>1
    <2>2. CASE b = nd
      <3>1. e \in L
        BY <1>1, <2>2, MoveLinks
      <3>2. next'[e] \in L \cup {NULL}
        BY <1>1, <3>1
      <3>3. next'[e] = IF next_dir[b] = e THEN next[e] ELSE next_dir[b]
        BY <2>2, MoveLinks
      <3> QED
        BY <1>2, <3>2, <3>3
    <2> QED
      BY <2>1, <2>2
  <1>4. ASSUME NEW c \in X
        PROVE  next[c] \in X \cup {NULL}
    <2>1. CASE c = e
      <3>1. next[e] \in L \cup {NULL} /\ next[e] # e
        BY <2>1, MoveLinks
      <3> QED
        BY <1>2, <2>1, <3>1
    <2>2. CASE c # e
      <3>1. next'[c] \in L \cup {NULL}
        BY <1>1, <2>2
      <3>2. next'[c] = IF next[c] = e THEN next[e] ELSE next[c]
        BY <2>2, MoveLinks
      <3> QED
        BY <1>2, <3>1, <3>2
    <2> QED
      BY <2>1, <2>2
  <1>5. ListCells(next_dir[b]) \subseteq X
    <2> HIDE DEF X
    <2> QED
      BY <1>3, <1>4, ListLeast
  <1> QED
    BY <1>5 DEF L

\* The directory an entry is moved to is still where its path led: the layer does
\* not move an entry below itself, so the path does not go through the entry.
LEMMA MoveTarget ==
    ASSUME Tidy, Tidy', NEW e, NEW d, NEW nd, NEW n, NEW newPath, Moves(e, d, nd, n, newPath)
    PROVE  nd \in Reachable'
  <1>1. /\ newPath \in Seq(Name) /\ Len(newPath) \in Nat /\ Len(newPath) >= 2
        /\ newPath[1] = RootName
    BY DmassAssumption DEF Moves
  <1>2. /\ nd \in Entry /\ nd # NULL /\ nd # Fault
        /\ nd = IF Len(newPath) = 2 THEN pTree ELSE get_fs_entry(Parent(newPath))
        /\ \A k \in 2..(Len(newPath) - 1) : get_fs_entry(SubSeq(newPath, 1, k)) # e
    BY DmassAssumption DEF Moves, DirVnode, RenameAllowed
  <1>3. pTree # NULL /\ pTree \in Reachable /\ pTree \in Reachable'
    <2>1. pTree # NULL
      <3> SUFFICES ASSUME pTree = NULL PROVE FALSE
        OBVIOUS
      <3> DEFINE X == {}
      <3>1. /\ X \subseteq Entry /\ (pTree # NULL => pTree \in X)
            /\ \A c \in X : next[c] \in X \cup {NULL} /\ next_dir[c] \in X \cup {NULL}
        OBVIOUS
      <3>2. Reachable \subseteq X
        <4> HIDE DEF X
        <4> QED
          BY <3>1, TreeWithin
      <3> QED
        BY <3>2, MoveLinks
    <2> QED
      BY <2>1, TidyFacts, TidyFactsNext, MoveLinks
  <1>4. CASE Len(newPath) = 2
    BY <1>2, <1>3, <1>4
  <1>5. CASE Len(newPath) # 2
    <2> DEFINE N == Len(newPath) - 1
               g(k) == get_fs_entry(SubSeq(newPath, 1, k))
               S == {k \in Nat : k + 1 <= N =>
                        g(k + 1) \in {NULL, Fault} \cup (Reachable \cap Reachable')}
    <2>1. N \in Nat /\ N >= 2 /\ N <= Len(newPath)
      <3>1. Len(newPath) \in Nat /\ Len(newPath) >= 2 /\ Len(newPath) # 2
        BY <1>1, <1>5
      <3>2. \A l \in Nat : l >= 2 /\ l # 2 => l - 1 \in Nat /\ l - 1 >= 2 /\ l - 1 <= l
        OBVIOUS
      <3> QED
        BY <3>1, <3>2
    <2>2. g(1) = FindInList(pTree, RootName)
      BY <1>1, PathFirst
    <2>3. ASSUME NEW k \in 1..N, k + 1 <= N
          PROVE  g(k + 1) = IF g(k) \in {NULL, Fault} THEN g(k)
                            ELSE FindInList(next_dir[g(k)], newPath[k + 1])
      <3>1. k \in 1..Len(newPath) /\ k + 1 <= Len(newPath)
        BY <1>1, <2>1, <2>3
      <3> QED
        BY <1>1, <3>1, PathNext
    <2>4. \A k \in 2..N : g(k) # e
      BY <1>2
    <2>5. g(N) = nd
      BY <1>2, <1>5 DEF Parent
    <2> HIDE DEF g, N
    <2>6. 0 \in S
      BY <1>3, <2>2, PathRoot
    <2>7. ASSUME NEW k \in Nat, k \in S
          PROVE  k + 1 \in S
      <3> SUFFICES ASSUME (k + 1) + 1 <= N
                   PROVE  g((k + 1) + 1) \in {NULL, Fault} \cup (Reachable \cap Reachable')
        OBVIOUS
      <3>1. k + 1 \in 1..N /\ k + 1 <= N /\ (k + 1) + 1 \in 2..N
        BY <2>1
      <3>2. g(k + 1) \in {NULL, Fault} \cup (Reachable \cap Reachable')
        BY <2>7, <3>1
      <3>3. g((k + 1) + 1) = IF g(k + 1) \in {NULL, Fault} THEN g(k + 1)
                             ELSE FindInList(next_dir[g(k + 1)], newPath[(k + 1) + 1])
        BY <2>3, <3>1
      <3>4. CASE g(k + 1) \in {NULL, Fault}
        BY <3>3, <3>4
      <3>5. CASE g(k + 1) \notin {NULL, Fault}
        <4>. PICK b : b = g(k + 1)
          OBVIOUS
        <4>1. b \in Reachable /\ b \in Reachable'
          BY <3>2, <3>5
        <4>2. g((k + 1) + 1) \in ListCells(next_dir[b]) \cup {NULL, Fault}
          BY <3>3, <3>5, FindIs
        <4>3. g((k + 1) + 1) # e
          BY <2>4, <3>1
        <4>4. ListCells(next_dir[b]) \subseteq ListCells(next_dir[b])' \cup {e}
          BY <4>1, MoveLists
        <4>5. ListCells(next_dir[b]) \subseteq Reachable
          BY <4>1, DirFacts
        <4>6. ListCells(next_dir[b])' \subseteq Reachable'
          BY <4>1, DirFactsNext
        <4> QED
          BY <4>2, <4>3, <4>4, <4>5, <4>6
      <3> QED
        BY <3>4, <3>5
    <2>8. \A k \in Nat : k \in S
      <3> HIDE DEF S
      <3> QED
        BY <2>6, <2>7, NatSetInduction
    <2>9. N - 1 \in Nat /\ (N - 1) + 1 = N /\ N <= N
      BY <2>1
    <2>10. g((N - 1) + 1) \in {NULL, Fault} \cup (Reachable \cap Reachable')
      BY <2>8, <2>9
    <2> QED
      BY <1>2, <2>5, <2>9, <2>10
  <1> QED
    BY <1>4, <1>5

LEMMA MoveKeeps ==
    ASSUME Tidy, Tidy', NEW e, NEW d, NEW nd, NEW n, NEW newPath, Moves(e, d, nd, n, newPath)
    PROVE  Reachable \subseteq Reachable'
  <1>1. nd \in Reachable' /\ e \in Reachable'
    <2>1. nd \in Reachable'
      BY MoveTarget
    <2>2. next_dir'[nd] = e /\ e # NULL
      BY MoveLinks
    <2> QED
      BY <2>1, <2>2, TidyFactsNext
  <1>2. \A c \in Reachable' : /\ next'[c] \in Reachable' \cup {NULL}
                               /\ next_dir'[c] \in Reachable' \cup {NULL}
    BY TidyFactsNext
  <1>3. \A c \in Reachable : /\ next[c] \in Reachable \cup {NULL}
                              /\ next_dir[c] \in Reachable \cup {NULL}
    BY TidyFacts
  <1> DEFINE X == {c \in Reachable \cap Reachable' : c = e => next[e] \in Reachable' \cup {NULL}}
  <1>4. X \subseteq Entry /\ (pTree # NULL => pTree \in X)
    BY TidyFacts, TidyFactsNext, MoveLinks
  <1>5. ASSUME NEW c \in X
        PROVE  next[c] \in X \cup {NULL}
    <2>1. CASE c = e
      BY <1>3, <2>1, MoveLinks
    <2>2. CASE c # e
      <3>1. next'[c] = IF next[c] = e THEN next[e] ELSE next[c]
        BY <2>2, MoveLinks
      <3> QED
        BY <1>1, <1>2, <1>3, <3>1
    <2> QED
      BY <2>1, <2>2
  <1>6. ASSUME NEW c \in X
        PROVE  next_dir[c] \in X \cup {NULL}
    <2>1. CASE c # nd
      <3>1. next_dir'[c] = IF next_dir[c] = e THEN next[e] ELSE next_dir[c]
        BY <2>1, MoveLinks
      <3> QED
        BY <1>1, <1>2, <1>3, <3>1
    <2>2. CASE c = nd
      <3>1. next'[e] = IF next_dir[c] = e THEN next[e] ELSE next_dir[c]
        BY <2>2, MoveLinks
      <3>2. next'[e] \in Reachable' \cup {NULL}
        BY <1>1, <1>2
      <3> QED
        BY <1>1, <1>3, <3>1, <3>2
    <2> QED
      BY <2>1, <2>2
  <1>7. Reachable \subseteq X
    <2> HIDE DEF X
    <2> QED
      BY <1>4, <1>5, <1>6, TreeWithin
  <1> QED
    BY <1>7

\* A call that reports success never takes an allocated entry out of the tree:
\* what vop_create links in, what vop_remove skips and what vop_rename moves
\* leaves every other entry where a walk from the root finds it.
THEOREM SuccessKeepsAll == Spec => SuccessLosesNothing
  <1>1. ASSUME Tidy, Tidy', [Next]_vars
        PROVE  [Reachable \cap live' \subseteq Reachable' \/ ret' = "ERR"]_vars
    <2>1. CASE UNCHANGED treeVars
      BY <1>1, <2>1, QuietKeeps
    <2>2. ASSUME NEW e, SetsRoot(e)
          PROVE  Reachable \subseteq Reachable'
      BY <1>1, <2>2, SetRootTree
    <2>3. ASSUME NEW e, NEW d, Unlinks(e, d)
          PROVE  Reachable \cap live' \subseteq Reachable' \/ ret' = "ERR"
      BY <1>1, <2>3, UnlinkKeeps DEF Unlinks
    <2>4. IInv
      BY <1>1 DEF Tidy
    <2> QED
      BY <1>1, <2>1, <2>2, <2>3, <2>4, CreateKeeps, MoveKeeps, TreeSteps
  <1> QED
    BY <1>1, TidyInvariance, PTL DEF Spec, SuccessLosesNothing

=============================================================================
