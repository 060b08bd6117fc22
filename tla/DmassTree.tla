------------------------------ MODULE DmassTree ------------------------------
(***************************************************************************)
(* The directory tree of the RAM file system mounted as vsd0: by           *)
(* kernel/SceVfsMountPoC: the heap cells of type FapsDmassFs linked by     *)
(* next (siblings) and next_dir (first child), the control objects         *)
(* (FapsDmassFsX) that open files hang on an entry, and the vnodes through *)
(* which the VFS layer reaches the entries.                                *)
(*                                                                         *)
(* One action is one handler of vop_table_test.  The VFS layer            *)
(* (SceIofilemgr) holds the vnode lock of the directory a handler works    *)
(* in, so a handler of the tree is one step; what the layer itself does    *)
(* is external and is stated at the definitions marked VFS.                *)
(***************************************************************************)
EXTENDS Naturals, Sequences, FiniteSets

CONSTANTS Entry,     \* heap cells able to hold a FapsDmassFs
          Vnode,     \* vnodes the VFS layer can hand out
          File,      \* SceVfsFileObject: the key of a control object
          Name,      \* names check_name accepts
          RootName,  \* "md", the name vfs_set_root gives the root
          Path,      \* absolute paths callers use, as sequences of names
          NULL

\* The outcome of walking into an entry whose name pointer is NULL.
Fault == "fault"

ASSUME DmassAssumption ==
    /\ IsFiniteSet(Entry) /\ IsFiniteSet(File)
    /\ Fault \notin Entry /\ Fault # NULL
    /\ NULL \notin Entry /\ NULL \notin Vnode /\ NULL \notin File
    /\ NULL \notin Name /\ RootName \in Name
    /\ Path \subseteq Seq(Name)
    /\ \A path \in Path : Len(path) >= 2 /\ path[1] = RootName

VARIABLES
    pTree,      \* the root entry, NULL before vfs_set_root
    live,       \* cells allocated as entries
    mode,       \* stat.st_mode & SCE_S_IFMT: "reg" or "dir"
    name,       \* name of an entry, NULL when name_cpy failed
    next,       \* next sibling
    next_dir,   \* first child
    pDmassFsX,  \* control objects of an entry, by their key
    refer,      \* reference counter of an entry
    current,    \* FapsDmassFsX.current: the dread cursor of a file object
    pNode,      \* entry -> the vnode bound last
    dev_info,   \* vnode -> its entry
    used,       \* vnodes handed out by ksceVfsGetNewNode
    dead,       \* used vnodes whose entry the layer saw removed
    fnode,      \* file object -> the vnode it is open on, NULL when closed
    panicked,   \* a handler dereferenced a NULL or a freed pointer
    ret         \* result of the last handler

treeVars == <<pTree, live, mode, name, next, next_dir>>
ctlVars  == <<pDmassFsX, refer, current, fnode>>
nodeVars == <<pNode, dev_info, used, dead>>
vars == <<pTree, live, mode, name, next, next_dir, pDmassFsX, refer, current,
          fnode, pNode, dev_info, used, dead, panicked, ret>>

Mode == {"reg", "dir"}
Ret  == {"OK", "ERR"}   \* >= 0, or one of the negative codes
EntryOrNull == Entry \cup {NULL}
VnodeOrNull == Vnode \cup {NULL}

TypeOK ==
    /\ pTree \in EntryOrNull
    /\ live \subseteq Entry
    /\ mode \in [Entry -> Mode]
    /\ name \in [Entry -> Name \cup {NULL}]
    /\ next \in [Entry -> EntryOrNull]
    /\ next_dir \in [Entry -> EntryOrNull]
    /\ pDmassFsX \in [Entry -> SUBSET File]
    /\ refer \in [Entry -> Nat]
    /\ current \in [File -> EntryOrNull]
    /\ pNode \in [Entry -> VnodeOrNull]
    /\ dev_info \in [Vnode -> EntryOrNull]
    /\ used \subseteq Vnode
    /\ dead \subseteq used
    /\ fnode \in [File -> VnodeOrNull]
    /\ panicked \in BOOLEAN
    /\ ret \in Ret

-----------------------------------------------------------------------------
(* Lists and paths. *)

\* The cells met by following next from head, in order, then NULL.
Chain(head) ==
    LET cell[i \in 0..Cardinality(Entry)] ==
          IF i = 0 THEN head
          ELSE LET c == cell[i - 1] IN IF c = NULL THEN NULL ELSE next[c]
    IN  cell

ListCells(head) ==
    LET cell == Chain(head)
    IN  {cell[i] : i \in 0..Cardinality(Entry)} \ {NULL}

\* The first entry of a list named n; Fault when the walk meets an entry
\* without a name first (memcmp on a NULL name).
FindInList(head, n) ==
    LET cell == Chain(head)
        stop == {i \in 0..Cardinality(Entry) :
                    cell[i] # NULL /\ name[cell[i]] \in {n, NULL}}
    IN  IF stop = {} THEN NULL
        ELSE LET i == CHOOSE i \in stop : \A j \in stop : i <= j
             IN  IF name[cell[i]] = n THEN cell[i] ELSE Fault

\* The entry a path leads to, NULL (0x80010002) or Fault.
get_fs_entry(path) ==
    LET at[k \in 1..Len(path)] ==
          IF k = 1 THEN FindInList(pTree, path[1])
          ELSE LET d == at[k - 1]
               IN  IF d \in {NULL, Fault} THEN d
                   ELSE FindInList(next_dir[d], path[k])
    IN  at[Len(path)]

\* The entries that a walk of the tree from the root meets.
Reachable ==
    LET reach[i \in 0..Cardinality(Entry)] ==
          IF i = 0 THEN {pTree} \ {NULL}
          ELSE LET S == reach[i - 1]
               IN  S \cup UNION {ListCells(next_dir[e]) : e \in S}
    IN  reach[Cardinality(Entry)]

Parent(path) == SubSeq(path, 1, Len(path) - 1)
Leaf(path)   == path[Len(path)]

-----------------------------------------------------------------------------
(* VFS: what the layer hands to a handler. *)

\* The layer resolves the directory part of a path and passes the vnode it
\* found for it beside the whole path.
DirVnode(v, path) ==
    /\ v \in used \ dead
    /\ dev_info[v] # NULL
    /\ dev_info[v] = IF Len(path) = 2 THEN pTree ELSE get_fs_entry(Parent(path))

\* ksceVfsGetNewNode and ksceVfsNodeWaitEventFlag both succeed.
NewVnode(v) == v \notin used

BindVnode(e, v) ==
    /\ pNode' = [pNode EXCEPT ![e] = v]
    /\ dev_info' = [dev_info EXCEPT ![v] = e]
    /\ used' = used \cup {v}
    /\ dead' = dead

Return(r) == ret' = r /\ panicked' = FALSE
Refuse    == Return("ERR") /\ UNCHANGED <<treeVars, ctlVars, nodeVars>>
Panic     == panicked' = TRUE /\ UNCHANGED <<treeVars, ctlVars, nodeVars, ret>>

-----------------------------------------------------------------------------
(* fs_tool.c *)

\* The cell e becomes a fresh entry, linked first in directory p (NULL for
\* the root).  The second of the two name_cpy calls is not checked, so the
\* entry may be left without a name.
CreateInfo(e, p, m, n) ==
    /\ e \notin live
    /\ live' = live \cup {e}
    /\ mode' = [mode EXCEPT ![e] = m]
    /\ \E nm \in {n, NULL} : name' = [name EXCEPT ![e] = nm]
    /\ next' = [next EXCEPT ![e] = IF p = NULL THEN NULL ELSE next_dir[p]]
    /\ next_dir' = [d \in Entry |-> IF d = e THEN NULL
                                    ELSE IF d = p THEN e ELSE next_dir[d]]
    /\ pDmassFsX' = [pDmassFsX EXCEPT ![e] = {}]
    /\ refer' = [refer EXCEPT ![e] = 0]

\* Mistake: only the head of the list is ever relinked.
Bug_NextAfterUnlinkHeadOnly(p, e) == next

\* Take e out of the child list of p: the link that leads to e skips it.
NextAfterUnlink(p, e) ==
    [c \in Entry |->
        IF next_dir[p] # e /\ c \in ListCells(next_dir[p]) /\ next[c] = e
        THEN next[e] ELSE next[c]]
NextDirAfterUnlink(p, e) ==
    [next_dir EXCEPT ![p] = IF next_dir[p] = e THEN next[e] ELSE next_dir[p]]

\* Mistake: one reference is taken for the caller's own.
Bug_HasOtherReferOffByOne(e) == refer[e] > 1

\* delete_dmass_info refuses an entry that is still referred to.
HasOtherRefer(e) == refer[e] # 0 \/ pDmassFsX[e] # {}

create_dmass_ctl_data(e, f) ==
    /\ pDmassFsX' = [pDmassFsX EXCEPT ![e] = @ \cup {f}]
    /\ refer' = [refer EXCEPT ![e] = @ + 1]

\* Mistakes: the object goes and the counter stays; the counter is dropped by
\* the search and by the removal; the object stays.
Bug_DeleteCtlKeepsObject(e, f) ==
    pDmassFsX' = pDmassFsX /\ refer' = [refer EXCEPT ![e] = @ - 1]
Bug_DeleteCtlKeepsRefer(e, f) ==
    pDmassFsX' = [pDmassFsX EXCEPT ![e] = @ \ {f}] /\ refer' = refer
Bug_DeleteCtlDropsTwice(e, f) ==
    /\ pDmassFsX' = [pDmassFsX EXCEPT ![e] = @ \ {f}]
    /\ refer' = [refer EXCEPT ![e] = @ - 2]

delete_dmass_ctl_data(e, f) ==
    /\ pDmassFsX' = [pDmassFsX EXCEPT ![e] = @ \ {f}]
    /\ refer' = [refer EXCEPT ![e] = @ - 1]

-----------------------------------------------------------------------------
(* main.c: mount, lookup and the handlers that change the tree *)

Init ==
    /\ pTree = NULL
    /\ live = {}
    /\ mode = [e \in Entry |-> "reg"]
    /\ name = [e \in Entry |-> NULL]
    /\ next = [e \in Entry |-> NULL]
    /\ next_dir = [e \in Entry |-> NULL]
    /\ pDmassFsX = [e \in Entry |-> {}]
    /\ refer = [e \in Entry |-> 0]
    /\ current = [f \in File |-> NULL]
    /\ pNode = [e \in Entry |-> NULL]
    /\ dev_info = [v \in Vnode |-> NULL]
    /\ used = {}
    /\ dead = {}
    /\ fnode = [f \in File |-> NULL]
    /\ panicked = FALSE
    /\ ret = "OK"

\* module_start mounts the file system once (VFS).
vfs_set_root(e, v) ==
    /\ ~panicked
    /\ pTree = NULL
    /\ \/ /\ NewVnode(v)
          /\ CreateInfo(e, NULL, "dir", RootName)
          /\ pTree' = e
          /\ BindVnode(e, v)
          /\ UNCHANGED <<current, fnode>>
          /\ Return("OK")
       \/ Refuse

\* Every lookup of an existing path makes a new vnode and points the entry
\* at it, whatever vnodes the entry already has.
vop_part_init(path, v) ==
    /\ ~panicked
    /\ pTree # NULL
    /\ \/ get_fs_entry(path) = Fault /\ Panic
       \/ get_fs_entry(path) = NULL /\ Refuse   \* 0x80010002
       \/ get_fs_entry(path) \in Entry /\ Refuse
       \/ \E e \in Entry :
             /\ get_fs_entry(path) = e
             /\ NewVnode(v)
             /\ BindVnode(e, v)
             /\ UNCHANGED <<treeVars, ctlVars>>
             /\ Return("OK")

\* The tail that vop_create and vop_mkdir share: allocate, link, then ask for
\* a vnode.  When no vnode is to be had the new entry stays linked.
LinkNewEntry(d, m, n) ==
    \/ Refuse
    \/ /\ \E e \in Entry :
             /\ CreateInfo(e, d, m, n)
             /\ \/ \E v \in Vnode : NewVnode(v) /\ BindVnode(e, v) /\ Return("OK")
                \/ /\ pNode' = [pNode EXCEPT ![e] = NULL]
                   /\ UNCHANGED <<dev_info, used, dead>>
                   /\ Return("ERR")
       /\ UNCHANGED <<pTree, current, fnode>>

\* Mistake: the name is not looked up before it is given away.
Bug_MakeEntryUnchecked(d, m, path) == LinkNewEntry(d, m, Leaf(path))

MakeEntry(d, m, path) ==
    \/ get_fs_entry(path) = Fault /\ Panic
    \/ get_fs_entry(path) \in Entry /\ Refuse   \* 0x80010011
    \/ get_fs_entry(path) = NULL /\ LinkNewEntry(d, m, Leaf(path))

\* VFS: the layer creates files in directories only.
vop_create(dv, path) ==
    /\ ~panicked
    /\ DirVnode(dv, path)
    /\ mode[dev_info[dv]] = "dir"
    /\ MakeEntry(dev_info[dv], "reg", path)

vop_mkdir(dv, path) ==
    /\ ~panicked
    /\ DirVnode(dv, path)
    /\ \/ mode[dev_info[dv]] # "dir" /\ Refuse   \* 0x80010014
       \/ /\ mode[dev_info[dv]] = "dir"
          /\ MakeEntry(dev_info[dv], "dir", path)

\* delete_dmass_info(e).  VFS: the layer learns from the result 0 that the
\* vnodes of e have no entry any more, and only retires them from then on.
delete_dmass_info(e) ==
    IF HasOtherRefer(e)
    THEN Return("ERR") /\ UNCHANGED <<live, name, dead>>
    ELSE /\ live' = live \ {e}
         /\ name' = [name EXCEPT ![e] = NULL]
         /\ dead' = dead \cup {v \in used : dev_info[v] = e}
         /\ Return("OK")

\* The loop of vop_remove and vop_rmdir: the link goes first, whether or not
\* delete_dmass_info then agrees to free the entry.
UnlinkAndDelete(e, d) ==
    \/ e \notin ListCells(next_dir[d]) /\ Refuse   \* 0x80010002
    \/ /\ e \in ListCells(next_dir[d])
       /\ next' = NextAfterUnlink(d, e)
       /\ next_dir' = NextDirAfterUnlink(d, e)
       /\ delete_dmass_info(e)
       /\ UNCHANGED <<pTree, mode, ctlVars, pNode, dev_info, used>>

vop_remove(dv, path) ==
    /\ ~panicked
    /\ DirVnode(dv, path)
    /\ \/ get_fs_entry(path) = Fault /\ Panic
       \/ get_fs_entry(path) = NULL /\ Refuse   \* 0x80010002
       \/ \E e \in Entry :
             /\ get_fs_entry(path) = e
             /\ \/ mode[e] # "reg" /\ Refuse
                \/ mode[e] = "reg" /\ UnlinkAndDelete(e, dev_info[dv])

\* Mistake: a directory with entries is removed.
Bug_RmdirNotEmpty(dv, path) ==
    /\ ~panicked
    /\ DirVnode(dv, path)
    /\ \E e \in Entry : /\ get_fs_entry(path) = e
                        /\ mode[e] = "dir"
                        /\ UnlinkAndDelete(e, dev_info[dv])

vop_rmdir(dv, path) ==
    /\ ~panicked
    /\ DirVnode(dv, path)
    /\ \/ get_fs_entry(path) = Fault /\ Panic
       \/ get_fs_entry(path) = NULL /\ Refuse   \* 0x80010002
       \/ \E e \in Entry :
             /\ get_fs_entry(path) = e
             /\ \/ next_dir[e] # NULL /\ Refuse   \* 0x80010011
                \/ next_dir[e] = NULL /\ mode[e] # "dir" /\ Refuse   \* 0x80010014
                \/ /\ next_dir[e] = NULL
                   /\ mode[e] = "dir"
                   /\ UnlinkAndDelete(e, dev_info[dv])

\* VFS: the layer holds a vnode of the entry to move (node2) and does not
\* move a directory below itself.
RenameAllowed(e, newPath) ==
    /\ \E v \in used \ dead : dev_info[v] = e
    /\ \A k \in 2..(Len(newPath) - 1) : get_fs_entry(SubSeq(newPath, 1, k)) # e

\* The loop of vop_rename: e moves from d to the head of nd under the name n
\* and gets a new vnode, whose core fields are copied from the one in
\* e->pNode.  The old name is freed before the copy of the new one, which may
\* fail.
MoveEntry(e, d, nd, n) ==
    \/ e \notin ListCells(next_dir[d]) /\ Refuse   \* 0x80010002
    \/ e \in ListCells(next_dir[d]) /\ Refuse
    \/ /\ e \in ListCells(next_dir[d])
       /\ \E v \in Vnode :
             /\ NewVnode(v)
             /\ \/ pNode[e] = NULL /\ Panic
                \/ /\ pNode[e] # NULL
                   /\ LET heads == NextDirAfterUnlink(d, e)
                          nexts == NextAfterUnlink(d, e)
                      IN  /\ next' = [nexts EXCEPT ![e] = heads[nd]]
                          /\ next_dir' = [heads EXCEPT ![nd] = e]
                   /\ \E nm \in {n, NULL} : name' = [name EXCEPT ![e] = nm]
                   /\ BindVnode(e, v)
                   /\ UNCHANGED <<pTree, live, mode, ctlVars>>
                   /\ Return("OK")

\* The new name is not looked up first.
vop_rename(dv, path, ndv, newPath) ==
    /\ ~panicked
    /\ DirVnode(dv, path) /\ DirVnode(ndv, newPath)
    /\ mode[dev_info[ndv]] = "dir"
    /\ \/ get_fs_entry(path) = Fault /\ Panic
       \/ get_fs_entry(path) = NULL /\ Refuse   \* 0x80010002
       \/ \E e \in Entry :
             /\ get_fs_entry(path) = e
             /\ RenameAllowed(e, newPath)
             /\ MoveEntry(e, dev_info[dv], dev_info[ndv], Leaf(newPath))

-----------------------------------------------------------------------------
(* main.c: file objects and vnodes *)

\* VFS: a new file object on a vnode that still has an entry.
Opens(v, f) == v \in used \ dead /\ fnode[f] = NULL

OpenObject(v, f, cursor) ==
    \/ dev_info[v] = NULL /\ Refuse
    \/ dev_info[v] # NULL /\ Refuse     \* no memory for the object
    \/ /\ dev_info[v] # NULL
       /\ create_dmass_ctl_data(dev_info[v], f)
       /\ current' = [current EXCEPT ![f] = cursor]
       /\ fnode' = [fnode EXCEPT ![f] = v]
       /\ UNCHANGED <<treeVars, nodeVars>>
       /\ Return("OK")

vop_open(v, f) == ~panicked /\ Opens(v, f) /\ OpenObject(v, f, NULL)

vop_dopen(v, f) ==
    /\ ~panicked
    /\ Opens(v, f)
    /\ OpenObject(v, f, IF dev_info[v] = NULL THEN NULL ELSE next_dir[dev_info[v]])

\* vop_close and vop_dclose.  VFS: the file object goes, whatever they return.
CloseObject(f) ==
    LET e == dev_info[fnode[f]]
    IN  /\ fnode[f] # NULL
        /\ fnode' = [fnode EXCEPT ![f] = NULL]
        /\ current' = [current EXCEPT ![f] = NULL]
        /\ \/ /\ e # NULL
              /\ f \in pDmassFsX[e]
              /\ delete_dmass_ctl_data(e, f)
              /\ Return("OK")
           \/ /\ e # NULL => f \notin pDmassFsX[e]
              /\ UNCHANGED <<pDmassFsX, refer>>
              /\ Return("ERR")
        /\ UNCHANGED <<treeVars, nodeVars>>

vop_close(f)  == ~panicked /\ CloseObject(f)
vop_dclose(f) == ~panicked /\ CloseObject(f)

\* One directory entry is copied out and the cursor moves to its sibling.  A
\* freed cell still holds its old link, or anything the heap put there; its
\* name pointer was cleared before the free.
vop_dread(f) ==
    /\ ~panicked
    /\ fnode[f] # NULL
    /\ \/ dev_info[fnode[f]] = NULL /\ Refuse
       \/ /\ dev_info[fnode[f]] # NULL
          /\ \/ f \notin pDmassFsX[dev_info[fnode[f]]] /\ Refuse   \* 0x80010016
             \/ /\ f \in pDmassFsX[dev_info[fnode[f]]]
                /\ \/ current[f] = NULL /\ Return("OK") /\ UNCHANGED <<treeVars, ctlVars, nodeVars>>
                   \/ current[f] # NULL /\ name[current[f]] = NULL /\ Panic
                   \/ /\ current[f] # NULL
                      /\ name[current[f]] # NULL \/ current[f] \notin live
                      /\ current' = [current EXCEPT ![f] = next[current[f]]]
                      /\ UNCHANGED <<pDmassFsX, refer, fnode, treeVars, nodeVars>>
                      /\ Return("OK")

\* Mistake: the entry keeps its pointer to the vnode that goes.
Bug_InactiveKeepsBackPointer(v) ==
    /\ ~panicked /\ v \in used /\ dev_info[v] # pTree /\ \A f \in File : fnode[f] # v
    /\ dev_info' = [dev_info EXCEPT ![v] = NULL]
    /\ used' = used \ {v} /\ dead' = dead \ {v}
    /\ UNCHANGED <<treeVars, ctlVars, pNode>> /\ Return("OK")

\* VFS: the layer retires a vnode that no file is open on, and frees it; the
\* mount keeps the vnode of the root.
vop_inactive(v) ==
    /\ ~panicked
    /\ v \in used
    /\ dev_info[v] # pTree
    /\ \A f \in File : fnode[f] # v
    /\ pNode' = [e \in Entry |-> IF e = dev_info[v] THEN NULL ELSE pNode[e]]
    /\ dev_info' = [dev_info EXCEPT ![v] = NULL]
    /\ used' = used \ {v}
    /\ dead' = dead \ {v}
    /\ UNCHANGED <<treeVars, ctlVars>>
    /\ Return("OK")

-----------------------------------------------------------------------------

\* A kernel panic is the end.
Halted == panicked /\ UNCHANGED vars

Next ==
    \/ \E e \in Entry, v \in Vnode : vfs_set_root(e, v)
    \/ \E path \in Path, v \in Vnode : vop_part_init(path, v)
    \/ \E dv \in Vnode, path \in Path : vop_create(dv, path)
    \/ \E dv \in Vnode, path \in Path : vop_mkdir(dv, path)
    \/ \E dv \in Vnode, path \in Path : vop_remove(dv, path)
    \/ \E dv \in Vnode, path \in Path : vop_rmdir(dv, path)
    \/ \E dv, ndv \in Vnode, path, newPath \in Path :
          vop_rename(dv, path, ndv, newPath)
    \/ \E v \in Vnode, f \in File : vop_open(v, f)
    \/ \E v \in Vnode, f \in File : vop_dopen(v, f)
    \/ \E f \in File : vop_close(f)
    \/ \E f \in File : vop_dclose(f)
    \/ \E f \in File : vop_dread(f)
    \/ \E v \in Vnode : vop_inactive(v)
    \/ Halted

Spec == Init /\ [][Next]_vars

-----------------------------------------------------------------------------
(* Properties *)

\* An open file object is backed: its vnode still leads to an entry that has
\* not been freed and that counts the object.  vop_read and vop_write go
\* through node->core.dev_info without looking the path up again, so what
\* keeps them off freed memory is delete_dmass_info's refusal.
OpenFileBacked ==
    \A f \in File : fnode[f] # NULL =>
        LET v == fnode[f]
            e == dev_info[v]
        IN  /\ v \in used \ dead
            /\ e \in live
            /\ f \in pDmassFsX[e]

\* The counter equals the number of control objects, so the second check of
\* delete_dmass_info ("Has other refer object") never decides anything.
ReferCountsObjects ==
    \A e \in Entry : refer[e] = Cardinality(pDmassFsX[e])

\* A control object belongs to an open file, and hangs on the entry the vnode
\* of that file leads to: vop_close looks for it there and nowhere else.
ObjectsOwned ==
    /\ \A f \in File : fnode[f] # NULL => fnode[f] \in used
    /\ \A e \in Entry : \A f \in pDmassFsX[e] :
          fnode[f] # NULL /\ dev_info[fnode[f]] = e

\* The links of the tree lead to allocated entries, and to each one from one
\* place only: no list runs into another and no directory is its own
\* descendant, whatever rename moved.
SingleParent ==
    /\ Reachable \subseteq live
    /\ \A e \in Reachable :
          Cardinality({c \in Reachable : next[c] = e})
            + Cardinality({d \in Reachable : next_dir[d] = e})
            + (IF e = pTree THEN 1 ELSE 0) = 1

\* The vnode an entry points back at is in use and leads to that entry;
\* vop_rename copies core fields through this pointer.
BackPointerFresh ==
    \A e \in live : pNode[e] # NULL =>
        pNode[e] \in used /\ dev_info[pNode[e]] = e

\* A call that reports success never takes an allocated entry out of the
\* tree: what it drops is freed, what it moves can still be found.
SuccessLosesNothing ==
    [][Reachable \cap live' \subseteq Reachable' \/ ret' = "ERR"]_vars

\* Two entries of one directory bear the same name only after a rename put
\* them there: vop_create and vop_mkdir look the name up first.
Twins == {d \in Reachable :
            \E c1, c2 \in ListCells(next_dir[d]) :
                c1 # c2 /\ name[c1] = name[c2] /\ name[c1] # NULL}
CreationKeepsNamesUnique == [][live' # live => Twins' \subseteq Twins]_vars

\* delete_dmass_info turns an entry that is in use down, with the message
\* "Has other refer"; a caller that is told so may expect the entry to be
\* where it was.  The code unlinks it first.
InUseStaysInTree ==
    [][\A e \in Reachable : HasOtherRefer(e) /\ e \in live' => e \in Reachable']_vars

\* The read cursor of an open directory leads to an allocated entry.  It is a
\* reference that neither refer nor pDmassFsX of the entry it leads to knows.
CursorLive == \A f \in File : current[f] # NULL => current[f] \in live

=============================================================================
