------------------------------- MODULE HostFs -------------------------------
(***************************************************************************)
(* kernel/SceVfsMountPoC_old: a file system mounted as host0: (vsd0: on a  *)
(* development kit) that shows the modules of the kernel, the kernel       *)
(* parameters, random numbers and a mapped piece of memory as files.       *)
(*                                                                         *)
(* Every open file or directory is an item (DataPack_t) of one doubly      *)
(* linked list, found again by the address of its vnode.  The entries of   *)
(* the directory "kernel modules" are cells of the heap that every opening *)
(* of the directory frees and builds anew; all other entries are made once *)
(* when the file system is mounted.  An entry is named by itself, a cell   *)
(* holds the module and the segment it shows.  The walks along a path take *)
(* a part that begins with the character '0' for its end: ZERO stands for  *)
(* all of those.                                                           *)
(*                                                                         *)
(* External: SceVfs makes a vnode for each part of a path and hands        *)
(* vfs_open and vfs_dopen the path from the mount point; it retires a      *)
(* vnode that nothing holds.  Calls come one at a time, and the heap and   *)
(* the class of items have room: nothing in the module locks, or looks at  *)
(* what they return.                                                       *)
(***************************************************************************)
EXTENDS Naturals, Sequences, FiniteSets

CONSTANTS Modules,   \* modules of the kernel are 1..Modules, as they are listed
          ModuleName, \* module -> its name, which another may have too
          ZeroNames, \* the names of modules that begin with '0'
          MemSize,   \* <<module, segment>> -> its size
          StatFileSize, \* static file -> the size it is made with
          Node,      \* vnodes, Root the one of the mount point
          Root,
          Item,      \* the objects of the class "SceTestClass"
          Cell,      \* the heap, in FileEntry with all it points to
          Word,      \* the sizes map_conf1 can be told
          WordBytes, \* the bytes of a word of it, 4
          ComeAndGo, \* bound: the modules that are loaded and unloaded
          ZERO,      \* a part of a path that begins with '0'
          Named,     \* bound: the paths that are asked for
          MaxOpens,  \* bound on the openings of each vnode
          NULL

Segment == (1..Modules) \X {0, 1}
Dir == {"kernel modules", "sysroot", "etc", "map_conf"}
StatFile == {"sysroot(kblparam)", "random", "map_conf1", "map_mem1"}
Entry == Dir \cup StatFile \cup Cell
Path == {<<d>> : d \in Dir \cup {ZERO}}
          \cup ((Dir \cup {ZERO}) \X (StatFile \cup Segment \cup {ZERO}))

\* A DataPack_t: its vnode, the head of a directory and the entry it is at.
Object == [node: Node, root: Entry \cup {NULL}, entry: Entry \cup {NULL},
           seek: Nat, size: Nat]

ASSUME HostAssumption ==
    /\ Modules \in Nat \ {0}
    /\ ModuleName \in [1..Modules -> 1..Modules] /\ ZeroNames \subseteq 1..Modules
    /\ MemSize \in [Segment -> Nat]
    /\ StatFileSize \in [StatFile -> Nat] /\ WordBytes \in Nat \ {0}
    /\ StatFileSize["map_conf1"] = 2 * WordBytes
    /\ Word \subseteq Nat /\ 0 \in Word
    /\ ComeAndGo \subseteq 1..Modules
    /\ Root \in Node /\ IsFiniteSet(Item)
    /\ Named \subseteq Path
    /\ MaxOpens \in [Node -> Nat]
    /\ Cell \cap (Dir \cup StatFile) = {}
    /\ NULL \notin Entry \cup Item \cup Node \cup Path \cup Segment
    /\ NULL \notin Object
    /\ ZERO \notin Entry \cup {"/"} \cup Segment \cup {NULL}

VARIABLES
    mounted,  \* the file system is mounted
    kids,     \* directory -> its entries in order, "/" the mount point
    cell,     \* cell -> the segment it shows, NULL when free
    conf,     \* map_conf1_data[1]: the size of the mapped memory
    obj,      \* item -> what its DataPack_t holds, NULL when there is none
    next, prev, last_obj,  \* the list of items
    at,       \* vnode -> the path it stands for, NULL when there is none
    up,       \* vnode -> its prev_node
    opens,    \* vnode -> how many open files hold it
    dopens,   \* vnode -> how many open directories do
    loaded,   \* the modules of the kernel
    stale,    \* history: items whose pointers into the heap were freed
    fault     \* a pointer was followed that leads nowhere

tree == <<kids, cell>>
items == <<obj, next, prev, last_obj>>
nodes == <<at, up, opens, dopens>>
vars == <<mounted, kids, cell, conf, obj, next, prev, last_obj, at, up, opens,
          dopens, loaded, stale, fault>>

List == kids["kernel modules"]
Live == {i \in Item : obj[i] # NULL}

\* What is left to read is never negative: size - seek is kept in an int and
\* compared with an unsigned size.
SeekWithinSize == \A i \in Live : obj[i].seek <= obj[i].size

HostTypeOK ==
    /\ mounted \in BOOLEAN
    /\ kids \in [Dir \cup {"/"} -> Seq(Entry)]
    /\ cell \in [Cell -> Segment \cup {NULL}]
    /\ conf \in Word
    /\ obj \in [Item -> Object \cup {NULL}] /\ SeekWithinSize
    /\ next \in [Item -> Item \cup {NULL}] /\ prev \in [Item -> Item \cup {NULL}]
    /\ last_obj \in Item \cup {NULL}
    /\ at \in [Node -> Path \cup {NULL}]
    /\ up \in [Node -> Node]
    /\ opens \in [Node -> Nat] /\ dopens \in [Node -> Nat]
    /\ loaded \subseteq 1..Modules
    /\ stale \subseteq Item
    /\ fault \in {"none", "freed", "end"}

-----------------------------------------------------------------------------
(* The list of items *)

\* The item k steps behind last_obj.
Behind[k \in Nat] ==
    IF k = 0 THEN last_obj
    ELSE LET i == Behind[k - 1] IN IF i = NULL THEN NULL ELSE next[i]

\* The item the walk from last_obj along next meets first on the vnode n.
IsFirstOf(i, n) ==
    \E k \in 0..Cardinality(Item) :
        /\ Behind[k] = i
        /\ obj[i] # NULL /\ obj[i].node = n
        /\ \A h \in 0..(k - 1) : obj[Behind[h]].node # n

getFileEntryByNode(n) ==
    IF \E i \in Item : IsFirstOf(i, n)
    THEN CHOOSE i \in Item : IsFirstOf(i, n) ELSE NULL

\* Mistake: the newest item is not told of the one before it.
Bug_InitPatchOneWay(i) ==
    /\ prev' = [prev EXCEPT ![i] = NULL]
    /\ next' = [next EXCEPT ![i] = last_obj]
    /\ last_obj' = i

\* A new item goes to the head of the list.
init_patch(i) ==
    /\ prev' = [j \in Item |-> IF j = i THEN NULL
                               ELSE IF j = last_obj THEN i ELSE prev[j]]
    /\ next' = [next EXCEPT ![i] = last_obj]
    /\ last_obj' = i

\* Mistake: the item before one that leaves goes on pointing to it.
Bug_FreePatchNext(i) ==
    /\ last_obj' = IF prev[i] = NULL THEN next[i] ELSE last_obj
    /\ next' = [next EXCEPT ![i] = NULL]
    /\ prev' = [j \in Item |-> IF j = i THEN NULL
                               ELSE IF j = next[i] THEN prev[i] ELSE prev[j]]

\* An item leaves the list; its own links go with it.
free_patch(i) ==
    /\ last_obj' = IF prev[i] = NULL THEN next[i] ELSE last_obj
    /\ next' = [j \in Item |-> IF j = i THEN NULL
                               ELSE IF j = prev[i] THEN next[i] ELSE next[j]]
    /\ prev' = [j \in Item |-> IF j = i THEN NULL
                               ELSE IF j = next[i] THEN prev[i] ELSE prev[j]]

\* create_file_item and what its caller stores in the item.
create_file_item(i, n, root, entry, size) ==
    /\ obj[i] = NULL
    /\ obj' = [obj EXCEPT ![i] = [node |-> n, root |-> root, entry |-> entry,
                                  seek |-> 0, size |-> size]]
    /\ init_patch(i)

\* ksceKernelDeleteUid on the item of the vnode n.
DeleteItem(n) ==
    LET i == getFileEntryByNode(n) IN
    IF i = NULL THEN UNCHANGED <<items, stale>>
    ELSE /\ obj' = [obj EXCEPT ![i] = NULL]
         /\ free_patch(i)
         /\ stale' = stale \ {i}

-----------------------------------------------------------------------------
(* Entries *)

\* The name of a cell is made of that of its module and its segment.
NameOfCell(c) ==
    LET m == ModuleName[cell[c][1]] IN IF m \in ZeroNames THEN ZERO ELSE <<m, cell[c][2]>>
Name(e) == IF e \in Cell THEN NameOfCell(e) ELSE e

\* The names that begin with another name of the tree; no cell has one of them.
Begins == {<<"map_conf1", "map_conf">>, <<"sysroot(kblparam)", "sysroot">>}

\* A part of a path is compared with as many characters as the entry's name
\* has, and the first entry that agrees decides.
Agrees(name, e) == Name(e) = name \/ (e \notin Cell /\ <<name, e>> \in Begins)

IsFound(d, name, i) ==
    /\ Name(kids[d][i]) = name
    /\ \A j \in 1..(i - 1) : ~Agrees(name, kids[d][j])

Find(d, name) ==
    IF \E i \in 1..Len(kids[d]) : IsFound(d, name, i)
    THEN kids[d][CHOOSE i \in 1..Len(kids[d]) : IsFound(d, name, i)] ELSE NULL

HeadOf(s) == IF s = <<>> THEN NULL ELSE s[1]

\* At a part that begins with '0' the walk ends with the entry it came to last:
\* the directory before it, or the first entry of all.
getDirEntry(path) ==
    IF path[1] = ZERO THEN HeadOf(kids["/"])
    ELSE IF Find("/", path[1]) \in Dir /\ (Len(path) = 1 \/ path[2] = ZERO)
         THEN Find("/", path[1]) ELSE NULL

\* Mistake: the last name of the path is not compared.
Bug_getFileEntry(path) ==
    IF Len(path) = 2 /\ Find("/", path[1]) \in Dir /\ kids[path[1]] # <<>>
    THEN kids[path[1]][1] ELSE NULL

getFileEntry(path) ==
    IF path[1] = ZERO THEN HeadOf(kids["/"])
    ELSE IF Len(path) = 1 \/ Find("/", path[1]) \notin Dir THEN NULL
    ELSE IF path[2] = ZERO THEN Find("/", path[1]) ELSE Find(path[1], path[2])

\* Mistake: the search stays in the first directory.
Bug_createFileEntry(k, d, e) == [k EXCEPT !["/"] = Append(@, e)]

\* A new entry goes to the end of its directory.
createFileEntry(k, d, e) ==
    IF ZERO \in {d, e} THEN k ELSE [k EXCEPT ![d] = Append(@, e)]

init_module_kernel(k) == createFileEntry(k, "/", "kernel modules")
init_sysroot(k) ==
    createFileEntry(createFileEntry(k, "/", "sysroot"), "sysroot", "sysroot(kblparam)")
init_etc(k) == createFileEntry(createFileEntry(k, "/", "etc"), "etc", "random")
init_map_conf1(k) ==
    createFileEntry(createFileEntry(createFileEntry(k, "/", "map_conf"),
                                    "map_conf", "map_conf1"), "map_conf", "map_mem1")

\* Those with a write_cb.
MayWrite(e) == e \in Cell \cup (StatFile \ {"random"})

SizeOf(e) ==
    IF e \in Cell THEN MemSize[cell[e]]
    ELSE IF e \in StatFile THEN StatFileSize[e] ELSE 0

\* The modules the kernel may answer with when it is asked for the name of the
\* one a cell shows.
Answering(c) == {m \in loaded : ModuleName[m] = ModuleName[cell[c][1]]}
Answers(e) == e \in Cell => Answering(e) # {}

\* open_cb: the size of a module is asked for, unless it is gone; the one of
\* map_mem1 is that of the mapped memory as map_conf1 was last told.
OpenedSize(e) ==
    IF e = "map_mem1" THEN {conf}
    ELSE IF e \in Cell /\ Answers(e) THEN {MemSize[<<m, cell[e][2]>>] : m \in Answering(e)}
    ELSE {SizeOf(e)}

\* The entry after e in its directory.
Follows(x, e) ==
    \E d \in DOMAIN kids : \E i \in 1..(Len(kids[d]) - 1) :
        kids[d][i] = e /\ kids[d][i + 1] = x

After(e) ==
    IF \E x \in Entry : Follows(x, e) THEN CHOOSE x \in Entry : Follows(x, e) ELSE NULL

\* Calls come while the file system is mounted and nothing stopped the kernel.
Ready == mounted /\ fault = "none"

Freed(e) == e \in Cell /\ cell[e] = NULL

\* What dopen_cb_module lists: the modules from the last to the first, of each
\* the text and the data unless they are empty.
Shown == {s \in Segment : s[1] \in loaded /\ MemSize[s] # 0}

\* Bound: no more is loaded than the heap can hold the listing of.
HeapHolds == Cardinality(Shown) <= Cardinality(Cell)

-----------------------------------------------------------------------------
(* module_start and the mount *)

Init ==
    /\ mounted = FALSE
    /\ kids = [d \in Dir \cup {"/"} |-> <<>>]
    /\ cell = [c \in Cell |-> NULL]
    /\ conf = 0
    /\ obj = [i \in Item |-> NULL]
    /\ next = [i \in Item |-> NULL] /\ prev = [i \in Item |-> NULL]
    /\ last_obj = NULL
    /\ at = [n \in Node |-> NULL]
    /\ up = [n \in Node |-> Root]
    /\ opens = [n \in Node |-> 0] /\ dopens = [n \in Node |-> 0]
    /\ loaded \in {(1..Modules) \ gone : gone \in SUBSET ComeAndGo} \ {{}}
    /\ HeapHolds
    /\ stale = {}
    /\ fault = "none"

\* ksceVfsMount calls sub_81000024: the item of the root, then the static tree.
module_start ==
    /\ ~mounted
    /\ mounted' = TRUE
    /\ kids' = init_map_conf1(init_etc(init_sysroot(init_module_kernel(kids))))
    /\ \E i \in Item : create_file_item(i, Root, HeadOf(kids'["/"]), NULL, 0)
    /\ UNCHANGED <<cell, conf, nodes, loaded, stale, fault>>

-----------------------------------------------------------------------------
(* External: vnodes, and the modules of the kernel *)

\* vfs_part_init: a vnode for a name below another one, there or not.
vfs_part_init(n, path) ==
    /\ Ready
    /\ n # Root /\ at[n] = NULL
    /\ at' = [at EXCEPT ![n] = path]
    /\ \/ Len(path) = 1 /\ up' = [up EXCEPT ![n] = Root]
       \/ /\ Len(path) = 2
          /\ \E d \in Node : at[d] = <<path[1]>> /\ up' = [up EXCEPT ![n] = d]
    /\ UNCHANGED <<mounted, tree, conf, items, opens, dopens, loaded, stale, fault>>

Retire(n) ==
    /\ Ready
    /\ at[n] # NULL /\ opens[n] = 0 /\ dopens[n] = 0
    /\ \A m \in Node : at[m] # NULL => up[m] # n
    /\ at' = [at EXCEPT ![n] = NULL]
    /\ up' = [up EXCEPT ![n] = Root]
    /\ UNCHANGED <<mounted, tree, conf, items, opens, dopens, loaded, stale, fault>>

LoadOrUnload(m) ==
    /\ Ready
    /\ loaded' \in {loaded \cup {m}, loaded \ {m}} \ {{}}
    /\ HeapHolds'
    /\ UNCHANGED <<mounted, tree, conf, items, nodes, stale, fault>>

-----------------------------------------------------------------------------
(* Files *)

\* The parent must be open itself: its item is looked for, not its entry.
vfs_open(n) ==
    /\ Ready
    /\ opens[n] + dopens[n] < MaxOpens[n]
    /\ at[n] # NULL
    /\ getFileEntryByNode(up[n]) # NULL
    /\ LET e == getFileEntry(at[n]) IN
       /\ e # NULL
       /\ \E i \in Item, size \in OpenedSize(e) :
             /\ create_file_item(i, n, NULL, e, size)
             /\ stale' = stale \ {i}
    /\ opens' = [opens EXCEPT ![n] = @ + 1]
    /\ UNCHANGED <<mounted, tree, conf, at, up, dopens, loaded, fault>>

vfs_close(n) ==
    /\ Ready
    /\ opens[n] > 0
    /\ DeleteItem(n)
    /\ opens' = [opens EXCEPT ![n] = @ - 1]
    /\ UNCHANGED <<mounted, tree, conf, at, up, dopens, loaded, fault>>

\* A pointer that leads nowhere is followed.
Faults(kind) ==
    /\ fault' = kind
    /\ UNCHANGED <<mounted, tree, conf, items, nodes, loaded, stale>>

Left(i) == obj[i].size - obj[i].seek

\* Mistake: a count of bytes is not cut to what is left.
Bug_Moved(i, asked) == asked

Moved(i, asked) == IF asked > Left(i) THEN Left(i) ELSE asked

\* The item moves on by as much as it has, of any number of bytes asked for.
Advance(i, asked) == obj' = [obj EXCEPT ![i].seek = @ + Moved(i, asked)]
Asked(i) == 1..(obj[i].size + 1)

\* A call for data reaches the entry of the item, or the pointer to it leads
\* nowhere.
Reaches(e) == e # NULL /\ ~Freed(e)
Lost(e) == (e = NULL /\ Faults("end")) \/ (Freed(e) /\ Faults("freed"))

\* read_module_cb, read_map_mem1_cb, read_map_conf1_cb, read_kblparam_cb,
\* read_random_cb.
vfs_read(n) ==
    LET i == getFileEntryByNode(n) IN
    /\ Ready
    /\ opens[n] > 0 /\ i # NULL
    /\ \/ Lost(obj[i].entry)
       \/ /\ Reaches(obj[i].entry) /\ Answers(obj[i].entry) /\ Left(i) > 0
          /\ \E asked \in Asked(i) : Advance(i, asked)
          /\ UNCHANGED <<mounted, tree, conf, next, prev, last_obj, nodes, loaded,
                         stale, fault>>

\* write_map_conf1_cb stores k bytes from the first byte on, whatever the
\* position is: the address, on which no size depends, then the size, which may
\* become any other when a part of it is written.
Configured(k) == IF k > WordBytes THEN Word ELSE {conf}

vfs_write(n) ==
    LET i == getFileEntryByNode(n) IN
    /\ Ready
    /\ opens[n] > 0 /\ i # NULL
    /\ \/ Lost(obj[i].entry)
       \/ /\ Reaches(obj[i].entry) /\ Answers(obj[i].entry)
          /\ MayWrite(obj[i].entry) /\ Left(i) > 0
          /\ \E asked \in Asked(i) :
                /\ Advance(i, asked)
                /\ IF obj[i].entry = "map_conf1" THEN conf' \in Configured(Moved(i, asked))
                   ELSE UNCHANGED conf
          /\ UNCHANGED <<mounted, tree, next, prev, last_obj, nodes, loaded,
                         stale, fault>>

-----------------------------------------------------------------------------
(* Directories *)

ListedBefore(s, t) == s[1] > t[1] \/ (s[1] = t[1] /\ s[2] < t[2])
Listing ==
    {l \in [1..Cardinality(Shown) -> Shown] :
        \A i, j \in DOMAIN l : i < j => ListedBefore(l[i], l[j])}

\* Free once the cells of the old listing are given back.
FreeCells == {c \in Cell : cell[c] = NULL} \cup {List[j] : j \in 1..Len(List)}

\* The segments l are shown by the new cells k.
Relist(l, k) ==
    /\ \A i, j \in DOMAIN k : k[i] \in FreeCells /\ (i # j => k[i] # k[j])
    /\ cell' = [c \in Cell |-> IF \E i \in DOMAIN k : k[i] = c
                               THEN l[CHOOSE i \in DOMAIN k : k[i] = c] ELSE NULL]

\* The items that point into the listing.
IntoListing == {i \in Live : {obj[i].entry, obj[i].root} \cap Cell # {}}

\* Mistake: the directory keeps the list it had.
Bug_DopenKeepsList(n, i) ==
    \E l \in Listing, k \in [1..Cardinality(Shown) -> Cell] :
       /\ create_file_item(i, n, HeadOf(k), HeadOf(k), 0)
       /\ Relist(l, k)
       /\ stale' = (stale \cup IntoListing) \ {i}
       /\ UNCHANGED kids

\* Mistake: the cells of the old listing are not given back.
Bug_DopenLeaks(n, i) ==
    \E l \in Listing, k \in [1..Cardinality(Shown) -> Cell] :
       /\ \A j, h \in DOMAIN k : cell[k[j]] = NULL /\ (j # h => k[j] # k[h])
       /\ cell' = [c \in Cell |-> IF \E j \in DOMAIN k : k[j] = c
                               THEN l[CHOOSE j \in DOMAIN k : k[j] = c] ELSE cell[c]]
       /\ create_file_item(i, n, HeadOf(k), HeadOf(k), 0)
       /\ kids' = [kids EXCEPT !["kernel modules"] = k]
       /\ UNCHANGED stale

\* vfs_dopen of "kernel modules": dopen_cb_module, and next_dir is the new list.
OpenModules(n, i) ==
    \E l \in Listing, k \in [1..Cardinality(Shown) -> Cell] :
       /\ create_file_item(i, n, HeadOf(k), HeadOf(k), 0)
       /\ Relist(l, k)
       /\ kids' = [kids EXCEPT !["kernel modules"] = k]
       /\ stale' = (stale \cup IntoListing) \ {i}

\* All that read the root share the cursor of its item.
OpenRoot ==
    LET i == getFileEntryByNode(Root) IN
    /\ i # NULL /\ obj[i].root # NULL
    /\ obj' = [obj EXCEPT ![i].entry = obj[i].root]
    /\ UNCHANGED <<tree, next, prev, last_obj, stale>>

OpenStatDir(n, d, i) ==
    /\ create_file_item(i, n, HeadOf(kids[d]), HeadOf(kids[d]), 0)
    /\ stale' = stale \ {i}
    /\ UNCHANGED tree

vfs_dopen(n) ==
    /\ Ready
    /\ opens[n] + dopens[n] < MaxOpens[n]
    /\ \/ n = Root /\ OpenRoot
       \/ /\ at[n] # NULL
          /\ \E d \in Dir, i \in Item :
                /\ d = getDirEntry(at[n])
                /\ IF d = "kernel modules" THEN OpenModules(n, i) ELSE OpenStatDir(n, d, i)
    /\ dopens' = [dopens EXCEPT ![n] = @ + 1]
    /\ UNCHANGED <<mounted, conf, at, up, opens, loaded, fault>>

\* Nothing is deleted when the root is closed.
vfs_dclose(n) ==
    /\ Ready
    /\ dopens[n] > 0
    /\ \/ n = Root /\ UNCHANGED <<items, stale>>
       \/ n # Root /\ DeleteItem(n)
    /\ dopens' = [dopens EXCEPT ![n] = @ - 1]
    /\ UNCHANGED <<mounted, tree, conf, at, up, opens, loaded, fault>>

vfs_dread(n) ==
    LET i == getFileEntryByNode(n) IN
    /\ Ready
    /\ dopens[n] > 0 /\ i # NULL /\ obj[i].entry # NULL
    /\ \/ Freed(obj[i].entry) /\ Faults("freed")
       \/ /\ ~Freed(obj[i].entry)
          /\ obj' = [obj EXCEPT ![i].entry = After(@)]
          /\ UNCHANGED <<mounted, tree, conf, next, prev, last_obj, nodes, loaded,
                         stale, fault>>

\* vfs_get_stat reads the listing the parent had when it was opened.
vfs_get_stat(n) ==
    /\ Ready
    /\ n # Root /\ at[n] # NULL
    /\ LET i == getFileEntryByNode(up[n]) IN
       i # NULL /\ Freed(obj[i].root) /\ Faults("freed")

\* vfs_get_stat_by_fd reads the entry a directory has come to, past the last too.
vfs_get_stat_by_fd(n) ==
    LET i == getFileEntryByNode(n) IN
    /\ Ready
    /\ opens[n] + dopens[n] > 0 /\ i # NULL
    /\ Lost(obj[i].entry)

-----------------------------------------------------------------------------
\* A fault stops the kernel.
Halted == fault # "none" /\ UNCHANGED vars

Next ==
    \/ module_start
    \/ \E n \in Node : \/ vfs_open(n) \/ vfs_close(n) \/ vfs_read(n) \/ vfs_write(n)
                       \/ vfs_dopen(n) \/ vfs_dclose(n) \/ vfs_dread(n)
                       \/ vfs_get_stat(n) \/ vfs_get_stat_by_fd(n)
                       \/ Retire(n)
    \/ \E n \in Node, p \in Named : vfs_part_init(n, p)
    \/ \E m \in ComeAndGo : LoadOrUnload(m)
    \/ Halted

Spec == Init /\ [][Next]_vars

-----------------------------------------------------------------------------
(* Properties *)

\* Whatever order items are opened and closed in, the links of the list agree:
\* next and prev are inverse to each other on the items there are, lead to no
\* item that was deleted, and only last_obj has none before it.
LinksAgree ==
    /\ last_obj \in Live \cup {NULL}
    /\ \A i \in Live : /\ next[i] \in Live \cup {NULL}
                       /\ prev[i] \in Live \cup {NULL}
                       /\ prev[i] = NULL <=> i = last_obj
    /\ \A i, j \in Live : next[i] = j <=> prev[j] = i

\* The walk of getFileEntryByNode meets as many items of a vnode as it was
\* opened, and the root's: no open file is lost and none is met twice.
HandlesReached ==
    mounted => \A n \in Node :
        Cardinality({k \in 0..Cardinality(Item) :
                       Behind[k] \in Live /\ obj[Behind[k]].node = n})
          = IF n = Root THEN 1 ELSE opens[n] + dopens[n]

\* The cells in use are those of the listing, each in it once: opening the
\* directory of modules neither leaks a cell nor frees one twice.
ListingOwned ==
    /\ \A i, j \in 1..Len(List) : List[i] = List[j] => i = j
    /\ \A c \in Cell : cell[c] # NULL <=> \E i \in 1..Len(List) : List[i] = c

\* Only the items that pointed into a listing when the directory of modules
\* was opened again can lead to a freed cell, and only then does a call.
FreshHandlesLive ==
    /\ \A i \in Live \ stale : /\ ~Freed(obj[i].entry)
                               /\ obj[i].root \in Cell => obj[i].root = HeadOf(List)
    /\ fault = "freed" => stale # {}

HasZero(path) == \E k \in DOMAIN path : path[k] = ZERO

\* An open file is the one its path named when it was opened, until its cell
\* is freed.  A path with a part that begins with '0' opens a directory as a
\* file, of which nothing can be read.
HandleIsPath ==
    \A i \in Live \ stale :
        LET p == at[obj[i].node] IN
        p # NULL =>
           /\ Len(p) = 2 /\ ~HasZero(p) => obj[i].entry # NULL /\ Name(obj[i].entry) = p[2]
           /\ obj[i].root = NULL /\ HasZero(p) => /\ obj[i].entry \in Dir \cup {NULL}
                                                 /\ obj[i].size = 0

\* An entry that is listed is found by its path, the first where several have
\* its name; one whose name begins with '0' is listed and not found, its
\* directory is.
FilesFound ==
    /\ \A i \in 1..Len(kids["/"]) : getDirEntry(<<kids["/"][i]>>) = kids["/"][i]
    /\ \A d \in Dir : \A i \in 1..Len(kids[d]) :
          LET name == Name(kids[d][i])
              found == getFileEntry(<<d, name>>) IN
          IF name = ZERO THEN found = d
          ELSE \E j \in 1..i : found = kids[d][j] /\ Name(found) = name

=============================================================================
